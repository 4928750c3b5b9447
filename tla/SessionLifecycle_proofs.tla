----------------------- MODULE SessionLifecycle_proofs -----------------------
(***************************************************************************)
(* Proofs about SessionLifecycle, for every set of ips, every modulus of    *)
(* ids and any number of sessions, commands and clock ticks.                *)
(*                                                                          *)
(* TablesAgree, ListedIsManaged and the types are inductive together: that  *)
(* removeSession closes and removes one and the same session rests on the   *)
(* tables agreeing, that they still agree afterwards on no other session    *)
(* having its ip, and that a closed session is not listed on both.          *)
(***************************************************************************)
EXTENDS SessionLifecycle, SequenceTheorems, FiniteSetTheorems, TLAPS

(* The tables refer to sessions that exist.                                 *)
TablesOK ==
  /\ DOMAIN sessions \subseteq Ids /\ DOMAIN sessionsByAddress \subseteq Ips
  /\ \A id \in DOMAIN sessions : sessions[id] \in DOMAIN objects
  /\ \A ip \in DOMAIN sessionsByAddress : sessionsByAddress[ip] \in DOMAIN objects

IInv == TypeOK /\ TablesAgree /\ ListedIsManaged

(* Ids are natural numbers, and there is one.                               *)
LEMMA IdsFacts == Ids \subseteq Nat /\ 0 \in Ids
BY LifecycleAssumption DEF Ids

(* No sessions, empty tables.                                               *)
LEMMA LifecycleInit == Init => IInv
<1> SUFFICES ASSUME Init PROVE IInv
  OBVIOUS
<1>1. TypeOK
  <2>1. DOMAIN sessions = {} /\ DOMAIN sessionsByAddress = {}
    BY DEF Init
  <2>2. objects \in Seq(Session) /\ internalQueue \in Seq(Command)
        /\ externalQueue \in Seq([kind: {"CLOSE_SESSION", "INVALID_SESSION"}, id: Ids])
    BY DEF Init
  <2> QED
    BY <2>1, <2>2, IdsFacts DEF Init, TypeOK
<1>2. TablesAgree
  BY DEF Init, TablesAgree
<1>3. ListedIsManaged
  BY DEF Init, ListedIsManaged
<1> QED
  BY <1>1, <1>2, <1>3 DEF IInv

(* A change to one session that leaves its id and its ip alone.             *)
LEMMA UpdatedSession ==
  ASSUME objects \in Seq(Session), NEW s \in DOMAIN objects, NEW r \in Session,
         r.internalId = objects[s].internalId, r.ip = objects[s].ip,
         objects' = [objects EXCEPT ![s] = r]
  PROVE  /\ objects' \in Seq(Session)
         /\ DOMAIN objects' = DOMAIN objects
         /\ objects'[s] = r
         /\ \A k \in DOMAIN objects :
              /\ objects'[k].internalId = objects[k].internalId /\ objects'[k].ip = objects[k].ip
              /\ k # s => objects'[k] = objects[k]
<1>1. objects' \in Seq(Session) /\ DOMAIN objects' = DOMAIN objects
  BY ExceptSeq
<1>2. \A k \in DOMAIN objects : objects'[k] = IF k = s THEN r ELSE objects[k]
  OBVIOUS
<1> QED
  BY <1>1, <1>2

(* With tables untouched and the sessions' ids and ips unchanged, the       *)
(* tables agree as before.                                                  *)
LEMMA SameTables ==
  ASSUME IInv, UNCHANGED <<sessions, sessionsByAddress>>,
         DOMAIN objects' = DOMAIN objects,
         \A k \in DOMAIN objects :
           objects'[k].internalId = objects[k].internalId /\ objects'[k].ip = objects[k].ip
  PROVE  TablesOK' /\ TablesAgree' /\ Listed' = Listed
<1>1. TablesOK'
  BY DEF IInv, TypeOK, TablesOK
<1>2. TablesAgree'
  BY <1>1, SMTT(30) DEF IInv, TypeOK, TablesOK, TablesAgree
<1>3. Listed' = Listed
  BY DEF Listed
<1> QED
  BY <1>1, <1>2, <1>3

(* The listed sessions are sessions, and found under their own ids.         *)
LEMMA ListedFacts ==
  ASSUME IInv, NEW s \in Listed
  PROVE  /\ s \in DOMAIN objects /\ objects[s] \in Session
         /\ objects[s].internalId \in DOMAIN sessions
         /\ sessions[objects[s].internalId] = s
         /\ objects[s].ip \in DOMAIN sessionsByAddress
         /\ sessionsByAddress[objects[s].ip] = s
<1>1. PICK id \in DOMAIN sessions : s = sessions[id]
  BY DEF Listed
<1>2. s \in DOMAIN objects /\ objects[s] \in Session
  <2>1. s \in DOMAIN objects /\ objects \in Seq(Session)
    BY <1>1 DEF IInv, TypeOK
  <2> QED
    BY <2>1, ElementOfSeq
<1>3. objects[s].internalId = id
  BY <1>1 DEF IInv, TablesAgree
<1>4. objects[s].ip \in DOMAIN sessionsByAddress /\ sessionsByAddress[objects[s].ip] = s
  <2>1. objects[sessions[id]].ip \in DOMAIN sessionsByAddress
        /\ sessionsByAddress[objects[sessions[id]].ip] = sessions[id]
    BY <1>1, Zenon DEF IInv, TablesAgree
  <2> QED
    BY <2>1, <1>1
<1> QED
  BY <1>1, <1>2, <1>3, <1>4


(* removeSession on a listed session closes it unless it is flagged, and    *)
(* takes it, and nothing else, out of both tables.                          *)
LEMMA RemoveFacts ==
  ASSUME IInv, NEW s \in Listed, RemoveSession(s)
  PROVE  LET id == objects[s].internalId
             ip == objects[s].ip
         IN  /\ sessions' = Without(sessions, {id})
             /\ sessionsByAddress' = Without(sessionsByAddress, {ip})
             /\ externalQueue' = Append(externalQueue, [kind |-> "CLOSE_SESSION", id |-> id])
             /\ UNCHANGED nextSessionId
             /\ objects' = IF Closes(s) THEN Close(s) ELSE objects
<1> DEFINE id == objects[s].internalId
<1>1. id \in DOMAIN sessions /\ sessions[id] = s
  BY ListedFacts
<1>2. {objects[k].ip : k \in {s} \cup (IF Closes(s) THEN {s} ELSE {})} = {objects[s].ip}
  OBVIOUS
<1>3. AddressDeleted({s} \cup (IF Closes(s) THEN {s} ELSE {}))
  BY <1>1 DEF RemoveSession
<1>4. sessionsByAddress' = Without(sessionsByAddress, {objects[s].ip})
  BY <1>2, <1>3 DEF AddressDeleted
<1> QED
  BY <1>1, <1>4 DEF RemoveSession, Notice, Notify

(* What closing does to the sessions.                                       *)
LEMMA CloseFacts ==
  ASSUME IInv, NEW s \in Listed, objects' = IF Closes(s) THEN Close(s) ELSE objects
  PROVE  /\ objects' \in Seq(Session) /\ DOMAIN objects' = DOMAIN objects
         /\ \A k \in DOMAIN objects :
              /\ objects'[k].internalId = objects[k].internalId /\ objects'[k].ip = objects[k].ip
              /\ k # s => objects'[k] = objects[k]
         /\ Closes(s) => objects'[s].state = "DISCONNECTED" /\ ~objects'[s].managed
         /\ ~Closes(s) => objects'[s] = objects[s]
<1>1. objects \in Seq(Session) /\ s \in DOMAIN objects /\ objects[s] \in Session
  BY ListedFacts DEF IInv, TypeOK
<1>2. CASE ~Closes(s)
  BY <1>1, <1>2
<1>3. CASE Closes(s)
  <2> DEFINE r == [objects[s] EXCEPT !.state = "DISCONNECTED", !.managed = FALSE]
  <2>1. r \in Session /\ r.internalId = objects[s].internalId /\ r.ip = objects[s].ip
        /\ r.state = "DISCONNECTED" /\ ~r.managed
    BY <1>1 DEF Session, States
  <2>2. objects' = [objects EXCEPT ![s] = r]
    BY <1>1, <1>3 DEF Close, Session
  <2> HIDE DEF r
  <2>3. /\ objects' \in Seq(Session) /\ DOMAIN objects' = DOMAIN objects /\ objects'[s] = r
        /\ \A k \in DOMAIN objects :
             /\ objects'[k].internalId = objects[k].internalId /\ objects'[k].ip = objects[k].ip
             /\ k # s => objects'[k] = objects[k]
    BY <1>1, <2>1, <2>2, UpdatedSession
  <2> QED
    BY <1>3, <2>1, <2>3
<1> QED
  BY <1>2, <1>3

(* Removal keeps the invariant.                                             *)
LEMMA RemoveKeeps ==
  ASSUME IInv, NEW s \in Listed, RemoveSession(s)
  PROVE  /\ objects' \in Seq(Session) /\ TablesOK' /\ TablesAgree' /\ ListedIsManaged'
         /\ externalQueue' \in Seq([kind: {"CLOSE_SESSION", "INVALID_SESSION"}, id: Ids])
         /\ UNCHANGED nextSessionId
<1> DEFINE id == objects[s].internalId
           ip == objects[s].ip
<1>1. /\ s \in DOMAIN objects /\ objects[s] \in Session
      /\ id \in DOMAIN sessions /\ sessions[id] = s
      /\ ip \in DOMAIN sessionsByAddress /\ sessionsByAddress[ip] = s
  BY ListedFacts
<1>2. /\ sessions' = Without(sessions, {id})
      /\ sessionsByAddress' = Without(sessionsByAddress, {ip})
      /\ externalQueue' = Append(externalQueue, [kind |-> "CLOSE_SESSION", id |-> id])
      /\ UNCHANGED nextSessionId
      /\ objects' = IF Closes(s) THEN Close(s) ELSE objects
  BY RemoveFacts
<1>3. /\ objects' \in Seq(Session) /\ DOMAIN objects' = DOMAIN objects
      /\ \A k \in DOMAIN objects :
           /\ objects'[k].internalId = objects[k].internalId /\ objects'[k].ip = objects[k].ip
           /\ k # s => objects'[k] = objects[k]
      /\ Closes(s) => objects'[s].state = "DISCONNECTED" /\ ~objects'[s].managed
      /\ ~Closes(s) => objects'[s] = objects[s]
  BY <1>2, CloseFacts
<1>4. /\ DOMAIN sessions' = DOMAIN sessions \ {id}
      /\ \A k \in DOMAIN sessions' : sessions'[k] = sessions[k]
      /\ DOMAIN sessionsByAddress' = DOMAIN sessionsByAddress \ {ip}
      /\ \A a \in DOMAIN sessionsByAddress' : sessionsByAddress'[a] = sessionsByAddress[a]
  BY <1>2 DEF Without
<1> HIDE DEF id, ip
<1>5. TablesOK'
  BY <1>3, <1>4 DEF IInv, TypeOK, TablesOK
<1>6. TablesAgree'
  <2>1. ASSUME NEW k \in DOMAIN sessions'
        PROVE  /\ objects'[sessions'[k]].internalId = k
               /\ objects'[sessions'[k]].ip \in DOMAIN sessionsByAddress'
               /\ sessionsByAddress'[objects'[sessions'[k]].ip] = sessions'[k]
    <3>1. k \in DOMAIN sessions /\ k # id /\ sessions'[k] = sessions[k] /\ sessions[k] \in DOMAIN objects
      BY <1>4 DEF IInv, TypeOK
    <3>2. /\ objects[sessions[k]].internalId = k
          /\ objects[sessions[k]].ip \in DOMAIN sessionsByAddress
          /\ sessionsByAddress[objects[sessions[k]].ip] = sessions[k]
      BY <3>1 DEF IInv, TablesAgree
    <3>3. sessions[k] # s
      BY <3>1, <3>2 DEF id
    <3>4. objects[sessions[k]].ip # ip
      BY <1>1, <3>2, <3>3
    <3> QED
      BY <1>3, <1>4, <3>1, <3>2, <3>4
  <2>2. ASSUME NEW a \in DOMAIN sessionsByAddress'
        PROVE  /\ objects'[sessionsByAddress'[a]].ip = a
               /\ objects'[sessionsByAddress'[a]].internalId \in DOMAIN sessions'
               /\ sessions'[objects'[sessionsByAddress'[a]].internalId] = sessionsByAddress'[a]
    <3>1. /\ a \in DOMAIN sessionsByAddress /\ a # ip /\ sessionsByAddress'[a] = sessionsByAddress[a]
          /\ sessionsByAddress[a] \in DOMAIN objects
      BY <1>4 DEF IInv, TypeOK
    <3>2. /\ objects[sessionsByAddress[a]].ip = a
          /\ objects[sessionsByAddress[a]].internalId \in DOMAIN sessions
          /\ sessions[objects[sessionsByAddress[a]].internalId] = sessionsByAddress[a]
      BY <3>1 DEF IInv, TablesAgree
    <3>3. sessionsByAddress[a] # s
      BY <3>1, <3>2 DEF ip
    <3>4. objects[sessionsByAddress[a]].internalId # id
      BY <1>1, <3>2, <3>3
    <3> QED
      BY <1>3, <1>4, <3>1, <3>2, <3>4
  <2> QED
    BY <2>1, <2>2 DEF TablesAgree
<1>7. ListedIsManaged'
  <2>1. ASSUME NEW k \in DOMAIN objects'
        PROVE  objects'[k].managed <=> objects'[k].state # "DISCONNECTED"
    <3>1. objects[k].managed <=> objects[k].state # "DISCONNECTED"
      BY <1>3 DEF IInv, ListedIsManaged
    <3> QED
      BY <1>3, <3>1
  <2>2. ASSUME NEW k \in Listed' PROVE k \in DOMAIN objects /\ k # s /\ k \in Listed
    <3>1. PICK j \in DOMAIN sessions' : k = sessions'[j]
      BY DEF Listed
    <3>2. j \in DOMAIN sessions /\ j # id /\ k = sessions[j]
      BY <1>4, <3>1
    <3>3. objects[k].internalId = j /\ k \in DOMAIN objects
      BY <3>2 DEF IInv, TablesAgree, TypeOK
    <3> QED
      BY <3>2, <3>3 DEF Listed, id
  <2>3. ASSUME NEW k \in Listed' PROVE objects'[k].managed
    BY <1>3, <2>2, <2>3 DEF IInv, ListedIsManaged
  <2> QED
    BY <2>1, <2>3 DEF ListedIsManaged
<1>8. externalQueue' \in Seq([kind: {"CLOSE_SESSION", "INVALID_SESSION"}, id: Ids])
  <2>1. id \in Ids
    BY <1>1 DEF IInv, TypeOK
  <2> DEFINE N == [kind: {"CLOSE_SESSION", "INVALID_SESSION"}, id: Ids]
  <2>2. externalQueue \in Seq(N) /\ externalQueue' = Append(externalQueue, [kind |-> "CLOSE_SESSION", id |-> id])
    BY <1>2 DEF IInv, TypeOK, id
  <2>3. [kind |-> "CLOSE_SESSION", id |-> id] \in N
    BY <2>1
  <2> HIDE DEF N
  <2>4. externalQueue' \in Seq(N)
    BY <2>2, <2>3, AppendProperties
  <2> QED
    BY <2>4 DEF N
<1> QED
  BY <1>2, <1>3, <1>5, <1>6, <1>7, <1>8

-----------------------------------------------------------------------------
(* Every other change of the tables.                                       *)

(* A change to a listed session that is not a removal: it stays managed.    *)
LEMMA UpdateKeeps ==
  ASSUME IInv, NEW s \in Listed, NEW r \in Session,
         r.internalId = objects[s].internalId, r.ip = objects[s].ip,
         r.managed, r.state # "DISCONNECTED",
         objects' = [objects EXCEPT ![s] = r],
         UNCHANGED <<sessions, sessionsByAddress>>
  PROVE  /\ objects' \in Seq(Session) /\ DOMAIN objects' = DOMAIN objects
         /\ \A k \in DOMAIN objects : objects'[k].internalId = objects[k].internalId
         /\ TablesOK' /\ TablesAgree' /\ ListedIsManaged' /\ Listed' = Listed
<1>1. s \in DOMAIN objects /\ objects \in Seq(Session)
  BY ListedFacts DEF IInv, TypeOK
<1>2. /\ objects' \in Seq(Session) /\ DOMAIN objects' = DOMAIN objects /\ objects'[s] = r
      /\ \A k \in DOMAIN objects :
           /\ objects'[k].internalId = objects[k].internalId /\ objects'[k].ip = objects[k].ip
           /\ k # s => objects'[k] = objects[k]
  BY <1>1, UpdatedSession
<1>3. TablesOK' /\ TablesAgree' /\ Listed' = Listed
  BY <1>2, SameTables
<1>4. ListedIsManaged'
  BY <1>2, <1>3 DEF IInv, ListedIsManaged
<1> QED
  BY <1>2, <1>3, <1>4

(* handlePacket only touches activity and the window of the session.        *)
LEMMA HandleKeeps ==
  ASSUME IInv, NEW s \in Listed, NEW a \in BOOLEAN,
         objects' = [objects EXCEPT ![s] = [objects[s] EXCEPT !.isActive = TRUE, !.lastUpdate = now,
                                                              !.acknowledged = a]],
         UNCHANGED <<sessions, sessionsByAddress>>
  PROVE  /\ objects' \in Seq(Session) /\ DOMAIN objects' = DOMAIN objects
         /\ \A k \in DOMAIN objects : objects'[k].internalId = objects[k].internalId
         /\ TablesOK' /\ TablesAgree' /\ ListedIsManaged' /\ Listed' = Listed
<1> DEFINE r == [objects[s] EXCEPT !.isActive = TRUE, !.lastUpdate = now, !.acknowledged = a]
<1>1. s \in DOMAIN objects /\ objects[s] \in Session /\ now \in Nat
  BY ListedFacts DEF IInv, TypeOK
<1>2. objects[s].managed /\ objects[s].state # "DISCONNECTED"
  BY <1>1 DEF IInv, ListedIsManaged
<1>3. /\ r \in Session /\ r.internalId = objects[s].internalId /\ r.ip = objects[s].ip
      /\ r.managed = objects[s].managed /\ r.state = objects[s].state
  BY <1>1 DEF Session
<1>4. objects' = [objects EXCEPT ![s] = r]
  OBVIOUS
<1> HIDE DEF r
<1> QED
  BY <1>2, <1>3, <1>4, UpdateKeeps

(* So does the flag for disconnection, which leaves the session managed.    *)
LEMMA FlagKeeps ==
  ASSUME IInv, NEW s \in Listed,
         objects' = [objects EXCEPT ![s].state = "DISCONNECTING"],
         UNCHANGED <<sessions, sessionsByAddress>>
  PROVE  /\ objects' \in Seq(Session) /\ DOMAIN objects' = DOMAIN objects
         /\ \A k \in DOMAIN objects : objects'[k].internalId = objects[k].internalId
         /\ TablesOK' /\ TablesAgree' /\ ListedIsManaged' /\ Listed' = Listed
<1> DEFINE r == [objects[s] EXCEPT !.state = "DISCONNECTING"]
<1>1. s \in DOMAIN objects /\ objects[s] \in Session
  BY ListedFacts
<1>2. objects[s].managed
  BY <1>1 DEF IInv, ListedIsManaged
<1>3. /\ r \in Session /\ r.internalId = objects[s].internalId /\ r.ip = objects[s].ip
      /\ r.managed = objects[s].managed /\ r.state = "DISCONNECTING"
  BY <1>1 DEF Session, States
<1>4. objects' = [objects EXCEPT ![s] = r]
  OBVIOUS
<1> HIDE DEF r
<1> QED
  BY <1>2, <1>3, <1>4, UpdateKeeps

(* createSession lists a new session under an id and an ip that are free.   *)
LEMMA CreateKeeps ==
  ASSUME IInv, NEW addr \in Ips, CreateSession(addr)
  PROVE  /\ objects' \in Seq(Session) /\ DOMAIN objects' = DOMAIN objects \cup {Len(objects) + 1}
         /\ Len(objects) + 1 \notin DOMAIN objects
         /\ \A k \in DOMAIN objects : objects'[k] = objects[k]
         /\ TablesOK' /\ TablesAgree' /\ ListedIsManaged' /\ nextSessionId' \in Ids
         /\ Listed' = Listed \cup {Len(objects) + 1}
<1>1. PICK id \in FreeId :
        /\ nextSessionId' = id
        /\ objects' = Append(objects,
             [internalId |-> id, ip |-> addr, state |-> "CONNECTING", managed |-> TRUE,
              isActive |-> FALSE, lastUpdate |-> now, acknowledged |-> FALSE])
        /\ sessions' = With(sessions, id, Len(objects) + 1)
        /\ sessionsByAddress' = With(sessionsByAddress, addr, Len(objects) + 1)
  BY DEF CreateSession
<1>2. id \in Ids /\ id \notin DOMAIN sessions /\ addr \notin DOMAIN sessionsByAddress
  BY DEF FreeId, CreateSession
<1> DEFINE new == Len(objects) + 1
           r == [internalId |-> id, ip |-> addr, state |-> "CONNECTING", managed |-> TRUE,
                 isActive |-> FALSE, lastUpdate |-> now, acknowledged |-> FALSE]
<1>3. objects \in Seq(Session) /\ r \in Session
  BY <1>2 DEF IInv, TypeOK, Session, States
<1>4. /\ r.internalId = id /\ r.ip = addr /\ r.state = "CONNECTING" /\ r.managed
  OBVIOUS
<1>5. objects' = Append(objects, r)
  BY <1>1
<1> HIDE DEF r
<1>6. /\ objects' \in Seq(Session) /\ objects'[new] = r /\ new \notin DOMAIN objects
      /\ DOMAIN objects' = DOMAIN objects \cup {new}
      /\ \A k \in DOMAIN objects : objects'[k] = objects[k]
  BY <1>3, <1>5, AppendProperties
<1>7. /\ DOMAIN sessions' = DOMAIN sessions \cup {id} /\ sessions'[id] = new
      /\ \A k \in DOMAIN sessions : sessions'[k] = sessions[k]
      /\ DOMAIN sessionsByAddress' = DOMAIN sessionsByAddress \cup {addr}
      /\ sessionsByAddress'[addr] = new
      /\ \A a \in DOMAIN sessionsByAddress : sessionsByAddress'[a] = sessionsByAddress[a]
  BY <1>1, <1>2 DEF With
<1>8. /\ \A k \in DOMAIN sessions : sessions[k] \in DOMAIN objects
      /\ \A a \in DOMAIN sessionsByAddress : sessionsByAddress[a] \in DOMAIN objects
  BY DEF IInv, TypeOK
<1> HIDE DEF new
<1>9. TablesOK'
  BY <1>2, <1>6, <1>7, <1>8 DEF IInv, TypeOK, TablesOK
<1>10. TablesAgree'
  <2>1. ASSUME NEW k \in DOMAIN sessions'
        PROVE  /\ objects'[sessions'[k]].internalId = k
               /\ objects'[sessions'[k]].ip \in DOMAIN sessionsByAddress'
               /\ sessionsByAddress'[objects'[sessions'[k]].ip] = sessions'[k]
    <3>1. CASE k = id
      BY <1>4, <1>6, <1>7, <3>1
    <3>2. CASE k \in DOMAIN sessions
      <4>1. /\ objects[sessions[k]].internalId = k
            /\ objects[sessions[k]].ip \in DOMAIN sessionsByAddress
            /\ sessionsByAddress[objects[sessions[k]].ip] = sessions[k]
        BY <3>2, Zenon DEF IInv, TablesAgree
      <4> QED
        BY <1>6, <1>7, <1>8, <3>2, <4>1
    <3> QED
      BY <1>7, <3>1, <3>2
  <2>2. ASSUME NEW a \in DOMAIN sessionsByAddress'
        PROVE  /\ objects'[sessionsByAddress'[a]].ip = a
               /\ objects'[sessionsByAddress'[a]].internalId \in DOMAIN sessions'
               /\ sessions'[objects'[sessionsByAddress'[a]].internalId] = sessionsByAddress'[a]
    <3>1. CASE a = addr
      BY <1>4, <1>6, <1>7, <3>1
    <3>2. CASE a \in DOMAIN sessionsByAddress
      <4>1. /\ objects[sessionsByAddress[a]].ip = a
            /\ objects[sessionsByAddress[a]].internalId \in DOMAIN sessions
            /\ sessions[objects[sessionsByAddress[a]].internalId] = sessionsByAddress[a]
        BY <3>2, Zenon DEF IInv, TablesAgree
      <4> QED
        BY <1>6, <1>7, <1>8, <3>2, <4>1
    <3> QED
      BY <1>7, <3>1, <3>2
  <2> QED
    BY <2>1, <2>2 DEF TablesAgree
<1>11. Listed' = Listed \cup {new}
  BY <1>2, <1>7 DEF Listed
<1>12. ListedIsManaged'
  BY <1>4, <1>6, <1>11 DEF IInv, ListedIsManaged
<1> QED
  BY <1>1, <1>2, <1>6, <1>9, <1>10, <1>11, <1>12 DEF new

-----------------------------------------------------------------------------
(* The steps.                                                              *)

(* The invariant in two parts, which different actions change.              *)
TablesPart ==
  objects \in Seq(Session) /\ nextSessionId \in Ids /\ TablesOK /\ TablesAgree /\ ListedIsManaged

QueuesPart ==
  /\ running \in BOOLEAN /\ shutdown \in BOOLEAN /\ sockOpen \in BOOLEAN
  /\ internalQueue \in Seq(Command)
  /\ externalQueue \in Seq([kind: {"CLOSE_SESSION", "INVALID_SESSION"}, id: Ids])
  /\ pushed \in Nat /\ now \in Nat

(* The two parts are the whole, before and after a step.                    *)
LEMMA InvParts == /\ IInv <=> TablesPart /\ QueuesPart
                  /\ IInv' <=> TablesPart' /\ QueuesPart'
BY DEF IInv, TypeOK, TablesOK, TablesPart, QueuesPart

(* A step after which nobody is gone who was not before, and the program is *)
(* told so.                                                                 *)
Stays ==
  /\ DOMAIN objects' \ Listed' = DOMAIN objects \ Listed
  /\ Listed \subseteq Listed'
  /\ \A k \in DOMAIN objects : objects'[k].internalId = objects[k].internalId
  /\ UNCHANGED externalQueue \/ \E id \in Ids : Notify("INVALID_SESSION", id)

(* A command takes the session out.                                         *)
Commanded(s) ==
  /\ internalQueue # <<>>
  /\ Head(internalQueue) = [kind |-> "INVALID_SESSION", id |-> objects[s].internalId]
  /\ internalQueue' = Tail(internalQueue)

Leaves(s) == RemoveSession(s) /\ (TimedOut(s) \/ Commanded(s))

(* With tables and sessions untouched nobody is gone.                       *)
LEMMA Untouched ==
  ASSUME IInv, UNCHANGED tableVars,
         UNCHANGED externalQueue \/ \E id \in Ids : Notify("INVALID_SESSION", id)
  PROVE  TablesPart' /\ Stays
<1>1. UNCHANGED <<objects, sessions, sessionsByAddress, nextSessionId>>
  BY DEF tableVars
<1>2. Listed' = Listed
  BY <1>1 DEF Listed
<1>3. TablesPart
  BY InvParts
<1>4. TablesPart'
  BY <1>1, <1>2, <1>3 DEF TablesPart, TablesOK, TablesAgree, ListedIsManaged
<1>5. Stays
  BY <1>1, <1>2 DEF Stays
<1> QED
  BY <1>4, <1>5

(* A notice of one kind or the other keeps the queue's type.                *)
LEMMA NotifyType ==
  ASSUME IInv, NEW kind \in {"CLOSE_SESSION", "INVALID_SESSION"}, NEW id \in Ids, Notify(kind, id)
  PROVE  /\ externalQueue' \in Seq([kind: {"CLOSE_SESSION", "INVALID_SESSION"}, id: Ids])
         /\ DOMAIN externalQueue' = DOMAIN externalQueue \cup {Len(externalQueue) + 1}
         /\ Len(externalQueue) + 1 \notin DOMAIN externalQueue
         /\ externalQueue'[Len(externalQueue) + 1] = [kind |-> kind, id |-> id]
         /\ \A n \in DOMAIN externalQueue : externalQueue'[n] = externalQueue[n]
<1> DEFINE N == [kind: {"CLOSE_SESSION", "INVALID_SESSION"}, id: Ids]
           e == [kind |-> kind, id |-> id]
<1>1. externalQueue \in Seq(N) /\ externalQueue' = Append(externalQueue, e) /\ e \in N
  BY DEF IInv, TypeOK, Notify
<1> HIDE DEF N, e
<1>2. /\ externalQueue' \in Seq(N)
      /\ DOMAIN externalQueue' = DOMAIN externalQueue \cup {Len(externalQueue) + 1}
      /\ Len(externalQueue) + 1 \notin DOMAIN externalQueue
      /\ externalQueue'[Len(externalQueue) + 1] = e
      /\ \A n \in DOMAIN externalQueue : externalQueue'[n] = externalQueue[n]
  BY <1>1, AppendProperties
<1> QED
  BY <1>2 DEF N, e

(* The command that is read, and its id.                                    *)
LEMMA ReadFacts ==
  ASSUME IInv, NEW kind, Read(kind)
  PROVE  /\ running /\ ~shutdown
         /\ Head(internalQueue).kind = kind /\ Head(internalQueue).id \in Ids
         /\ internalQueue' \in Seq(Command)
<1>1. internalQueue \in Seq(Command) /\ internalQueue # <<>>
  BY DEF IInv, TypeOK, Read
<1>2. Head(internalQueue) \in Command /\ Tail(internalQueue) \in Seq(Command)
  BY <1>1, HeadTailProperties
<1>3. Head(internalQueue).id \in Ids
  BY <1>2, IdsFacts DEF Command
<1> QED
  BY <1>2, <1>3 DEF Read

(* removeSession, as a step.                                                *)
LEMMA RemoveStep ==
  ASSUME IInv, NEW s \in Listed, RemoveSession(s),
         UNCHANGED <<running, stopVars, pushed, now>>, internalQueue' \in Seq(Command)
  PROVE  IInv'
<1>1. TablesPart'
  BY RemoveKeeps DEF IInv, TypeOK, TablesPart
<1>2. QueuesPart'
  BY RemoveKeeps DEF IInv, TypeOK, QueuesPart, stopVars
<1> QED
  BY <1>1, <1>2, InvParts

(* A change to listed sessions, as a step.                                  *)
LEMMA UpdateStep ==
  ASSUME IInv,
         objects' \in Seq(Session), DOMAIN objects' = DOMAIN objects,
         \A k \in DOMAIN objects : objects'[k].internalId = objects[k].internalId,
         TablesOK', TablesAgree', ListedIsManaged', Listed' = Listed,
         UNCHANGED <<nextSessionId, externalQueue>>
  PROVE  TablesPart' /\ Stays
BY DEF IInv, TypeOK, TablesPart, Stays

(* Every step keeps the invariant, and either nobody is gone by it or       *)
(* removeSession took one session out, for a timeout or on command.         *)
LEMMA LifecycleStep ==
  ASSUME IInv, Next
  PROVE  IInv' /\ (Stays \/ \E s \in Listed : Leaves(s))
<1>1. ASSUME NEW addr \in Ips, CreateSession(addr) PROVE IInv' /\ Stays
  <2>1. TablesPart' /\ UNCHANGED externalQueue
    BY <1>1, CreateKeeps DEF TablesPart, CreateSession
  <2>2. QueuesPart'
    BY <1>1, InvParts DEF QueuesPart, CreateSession, stopVars
  <2>3. Stays
    <3>1. /\ DOMAIN objects' = DOMAIN objects \cup {Len(objects) + 1}
          /\ Listed' = Listed \cup {Len(objects) + 1}
          /\ Len(objects) + 1 \notin DOMAIN objects
          /\ \A k \in DOMAIN objects : objects'[k] = objects[k]
      BY <1>1, CreateKeeps
    <3> QED
      BY <2>1, <3>1 DEF Stays
  <2> QED
    BY <2>1, <2>2, <2>3, InvParts
<1>2. ASSUME NEW c \in Command, PushCommand(c) PROVE IInv' /\ Stays
  <2>1. TablesPart' /\ Stays
    BY <1>2, Untouched DEF PushCommand
  <2>2. internalQueue' \in Seq(Command)
    <3>1. internalQueue \in Seq(Command) /\ internalQueue' = Append(internalQueue, c)
      BY <1>2 DEF PushCommand, IInv, TypeOK
    <3> QED
      BY <1>2, <3>1, AppendProperties
  <2>3. pushed' \in Nat
    <3>1. pushed \in Nat
      BY DEF IInv, TypeOK
    <3>2. pushed' = pushed + 1
      BY <1>2 DEF PushCommand
    <3> QED
      BY <3>1, <3>2
  <2>4. QueuesPart'
    BY <1>2, <2>2, <2>3, InvParts DEF QueuesPart, PushCommand, stopVars
  <2> QED
    BY <2>1, <2>4, InvParts
<1>3. ASSUME CloseCommand PROVE IInv' /\ Stays
  <2> DEFINE id == Head(internalQueue).id
  <2>1. id \in Ids /\ internalQueue' \in Seq(Command)
    BY <1>3, ReadFacts DEF CloseCommand
  <2>2. CASE id \in DOMAIN sessions
    <3>1. /\ objects' = [objects EXCEPT ![sessions[id]].state = "DISCONNECTING"]
          /\ UNCHANGED <<sessions, sessionsByAddress, nextSessionId, externalQueue>>
      BY <1>3, <2>2 DEF CloseCommand
    <3>2. sessions[id] \in Listed
      BY <2>2 DEF Listed
    <3>3. TablesPart' /\ Stays
      BY <3>1, <3>2, FlagKeeps, UpdateStep
    <3>4. QueuesPart'
      BY <1>3, <2>1, <3>1, InvParts DEF QueuesPart, CloseCommand, stopVars
    <3> QED
      BY <3>3, <3>4, InvParts
  <2>3. CASE id \notin DOMAIN sessions
    <3>1. Notify("INVALID_SESSION", id) /\ UNCHANGED tableVars
      BY <1>3, <2>3 DEF CloseCommand
    <3>2. TablesPart' /\ Stays
      BY <2>1, <3>1, Untouched
    <3>3. QueuesPart'
      BY <1>3, <2>1, <3>1, NotifyType, InvParts DEF QueuesPart, CloseCommand, stopVars
    <3> QED
      BY <3>2, <3>3, InvParts
  <2> QED
    BY <2>2, <2>3
<1>4. ASSUME InvalidCommand PROVE IInv' /\ (Stays \/ \E s \in Listed : Leaves(s))
  <2> DEFINE id == Head(internalQueue).id
  <2>1. internalQueue' \in Seq(Command)
    BY <1>4, ReadFacts DEF InvalidCommand
  <2>2. CASE id \in DOMAIN sessions
    <3>1. RemoveSession(sessions[id]) /\ sessions[id] \in Listed
      BY <1>4, <2>2 DEF InvalidCommand, Listed
    <3>2. IInv'
      BY <1>4, <2>1, <3>1, RemoveStep DEF InvalidCommand
    <3>3. objects[sessions[id]].internalId = id
      BY <2>2 DEF IInv, TablesAgree
    <3>4. Head(internalQueue) = [kind |-> "INVALID_SESSION", id |-> id]
      <4>1. internalQueue \in Seq(Command) /\ internalQueue # <<>> /\ Head(internalQueue).kind = "INVALID_SESSION"
        BY <1>4 DEF IInv, TypeOK, InvalidCommand, Read
      <4>2. Head(internalQueue) \in Command
        BY <4>1, HeadTailProperties
      <4> QED
        BY <4>1, <4>2 DEF Command
    <3>5. Commanded(sessions[id])
      BY <1>4, <3>3, <3>4 DEF Commanded, InvalidCommand, Read
    <3> QED
      BY <3>1, <3>2, <3>5 DEF Leaves
  <2>3. CASE id \notin DOMAIN sessions
    <3>1. UNCHANGED <<tableVars, externalQueue>>
      BY <1>4, <2>3 DEF InvalidCommand
    <3>2. TablesPart' /\ Stays
      BY <3>1, Untouched
    <3>3. QueuesPart'
      BY <1>4, <2>1, <3>1, InvParts DEF QueuesPart, InvalidCommand, stopVars
    <3> QED
      BY <3>2, <3>3, InvParts
  <2> QED
    BY <2>2, <2>3
<1>5. ASSUME EncapsulatedCommand PROVE IInv' /\ Stays
  <2>1. internalQueue' \in Seq(Command)
    BY <1>5, ReadFacts DEF EncapsulatedCommand
  <2>2. /\ UNCHANGED <<stopVars, tableVars, pushed, now>>
        /\ \/ running' = FALSE /\ UNCHANGED externalQueue
           \/ UNCHANGED running /\ \E id \in Ids : Notify("INVALID_SESSION", id)
    BY <1>5 DEF EncapsulatedCommand
  <2>3. TablesPart' /\ Stays
    BY <2>2, Untouched
  <2>4. externalQueue' \in Seq([kind: {"CLOSE_SESSION", "INVALID_SESSION"}, id: Ids])
    <3>1. CASE UNCHANGED externalQueue
      BY <3>1 DEF IInv, TypeOK
    <3>2. CASE \E id \in Ids : Notify("INVALID_SESSION", id)
      BY <3>2, NotifyType
    <3> QED
      BY <2>2, <3>1, <3>2
  <2>5. QueuesPart'
    BY <2>1, <2>2, <2>4, InvParts DEF QueuesPart, stopVars
  <2> QED
    BY <2>3, <2>5, InvParts
<1>6. ASSUME ShutdownCommand \/ EmergencyShutdownCommand PROVE IInv' /\ Stays
  <2>1. internalQueue' \in Seq(Command)
    BY <1>6, ReadFacts DEF ShutdownCommand, EmergencyShutdownCommand
  <2>2. UNCHANGED <<tableVars, externalQueue, pushed, now>>
    BY <1>6 DEF ShutdownCommand, EmergencyShutdownCommand
  <2>3. running' \in BOOLEAN /\ shutdown' \in BOOLEAN /\ sockOpen' \in BOOLEAN
    BY <1>6 DEF IInv, TypeOK, ShutdownCommand, EmergencyShutdownCommand, stopVars
  <2>4. TablesPart' /\ Stays
    BY <2>2, Untouched
  <2>5. QueuesPart'
    BY <2>1, <2>2, <2>3, InvParts DEF QueuesPart
  <2> QED
    BY <2>4, <2>5, InvParts
<1>7. ASSUME NEW s \in Listed, Update(s) PROVE IInv' /\ Leaves(s)
  <2>1. /\ RemoveSession(s) /\ TimedOut(s)
        /\ UNCHANGED <<running, stopVars, internalQueue, pushed, now>>
    BY <1>7 DEF Update
  <2>2. internalQueue' \in Seq(Command)
    BY <2>1 DEF IInv, TypeOK
  <2>3. IInv'
    BY <2>1, <2>2, RemoveStep
  <2> QED
    BY <2>1, <2>3 DEF Leaves
<1>8. ASSUME NEW s \in Listed, HandleDatagram(s) PROVE IInv' /\ Stays
  <2>1. s \in DOMAIN objects /\ objects[s] \in Session
    BY ListedFacts
  <2>2. /\ objects' = [objects EXCEPT ![s] = [objects[s] EXCEPT !.isActive = TRUE, !.lastUpdate = now,
                                                !.acknowledged = objects[s].acknowledged]]
        /\ objects[s].acknowledged \in BOOLEAN
        /\ UNCHANGED <<sessions, sessionsByAddress, nextSessionId, externalQueue>>
    BY <1>8, <2>1 DEF HandleDatagram, Active, Session
  <2>3. TablesPart' /\ Stays
    BY <2>2, HandleKeeps, UpdateStep
  <2>4. QueuesPart'
    BY <1>8, InvParts DEF QueuesPart, HandleDatagram, stopVars
  <2> QED
    BY <2>3, <2>4, InvParts
<1>9. ASSUME NEW s \in Listed, NEW empty \in BOOLEAN, HandleAcknowledge(s, empty) PROVE IInv' /\ Stays
  <2>1. s \in DOMAIN objects /\ objects[s] \in Session
    BY ListedFacts
  <2>2. /\ objects' = [objects EXCEPT ![s] = [objects[s] EXCEPT !.isActive = TRUE, !.lastUpdate = now,
                                                !.acknowledged = TRUE]]
        /\ UNCHANGED <<sessions, sessionsByAddress, nextSessionId, externalQueue>>
    BY <1>9, <2>1 DEF HandleAcknowledge, Active, Session
  <2>3. TablesPart' /\ Stays
    BY <2>2, HandleKeeps, UpdateStep
  <2>4. QueuesPart'
    BY <1>9, InvParts DEF QueuesPart, HandleAcknowledge, stopVars
  <2> QED
    BY <2>3, <2>4, InvParts
<1>10. ASSUME Clock PROVE IInv' /\ Stays
  <2>1. TablesPart' /\ Stays
    BY <1>10, Untouched DEF Clock
  <2>2. now' \in Nat
    <3>1. now \in Nat
      BY DEF IInv, TypeOK
    <3>2. now' = now + 1
      BY <1>10 DEF Clock
    <3> QED
      BY <3>1, <3>2
  <2>3. QueuesPart'
    BY <1>10, <2>2, InvParts DEF QueuesPart, Clock, stopVars
  <2> QED
    BY <2>1, <2>3, InvParts
<1>11. ASSUME SocketError \/ \E addr \in Ips : CheckSessionsThrows(addr) PROVE IInv' /\ Stays
  <2>1. UNCHANGED <<tableVars, internalQueue, externalQueue, pushed, now>>
    BY <1>11 DEF SocketError, CheckSessionsThrows
  <2>2. running' \in BOOLEAN /\ shutdown' \in BOOLEAN /\ sockOpen' \in BOOLEAN
    BY <1>11 DEF IInv, TypeOK, SocketError, CheckSessionsThrows, stopVars
  <2>3. TablesPart' /\ Stays
    BY <2>1, Untouched
  <2>4. QueuesPart'
    BY <2>1, <2>2, InvParts DEF QueuesPart
  <2> QED
    BY <2>3, <2>4, InvParts
<1> QED
  BY <1>1, <1>2, <1>3, <1>4, <1>5, <1>6, <1>7, <1>8, <1>9, <1>10, <1>11 DEF Next

(* The invariant is inductive.                                              *)
THEOREM LifecycleCorrect == Spec => []IInv
<1>1. Init => IInv
  BY LifecycleInit
<1>2. IInv /\ [Next]_vars => IInv'
  <2>1. IInv /\ Next => IInv'
    BY LifecycleStep
  <2>2. ASSUME IInv, UNCHANGED vars PROVE IInv'
    <3>1. TablesPart'
      BY <2>2, Untouched DEF vars
    <3>2. QueuesPart'
      BY <2>2, InvParts DEF vars, stopVars, QueuesPart
    <3> QED
      BY <3>1, <3>2, InvParts
  <2> QED
    BY <2>1, <2>2
<1> QED
  BY <1>1, <1>2, PTL DEF Spec

(* Tables, queues and sessions have their types.                            *)
THEOREM LifecycleTypeCorrect == Spec => []TypeOK
<1>1. IInv => TypeOK
  BY DEF IInv
<1> QED
  BY <1>1, LifecycleCorrect, PTL

(* However sessions are created, flagged, timed out and removed, and        *)
(* however ids are reused, both maps hold the same sessions.                *)
THEOREM LifecycleTablesAgree == Spec => []TablesAgree
<1>1. IInv => TablesAgree
  BY DEF IInv
<1> QED
  BY <1>1, LifecycleCorrect, PTL

(* No session without a manager is ever within reach of the loop in tick.   *)
THEOREM AlwaysManaged == Spec => []ListedIsManaged
<1>1. IInv => ListedIsManaged
  BY DEF IInv
<1> QED
  BY <1>1, LifecycleCorrect, PTL

-----------------------------------------------------------------------------
(* Who leaves, and who is told.                                            *)

(* A removal takes one session off the list, no more and no less.           *)
LEMMA RemoveUnlists ==
  ASSUME IInv, NEW s \in Listed, RemoveSession(s)
  PROVE  /\ Listed' = Listed \ {s}
         /\ DOMAIN objects' = DOMAIN objects
         /\ \A k \in DOMAIN objects : objects'[k].internalId = objects[k].internalId
         /\ Notify("CLOSE_SESSION", objects[s].internalId)
<1> DEFINE id == objects[s].internalId
<1>1. id \in DOMAIN sessions /\ sessions[id] = s
  BY ListedFacts
<1>2. /\ sessions' = Without(sessions, {id})
      /\ externalQueue' = Append(externalQueue, [kind |-> "CLOSE_SESSION", id |-> id])
      /\ objects' = IF Closes(s) THEN Close(s) ELSE objects
  BY RemoveFacts
<1>3. /\ DOMAIN objects' = DOMAIN objects
      /\ \A k \in DOMAIN objects : objects'[k].internalId = objects[k].internalId
  BY <1>2, CloseFacts
<1>4. /\ DOMAIN sessions' = DOMAIN sessions \ {id}
      /\ \A k \in DOMAIN sessions' : sessions'[k] = sessions[k]
  BY <1>2 DEF Without
<1>5. \A k \in DOMAIN sessions : sessions[k] = s => k = id
  BY DEF IInv, TablesAgree
<1> HIDE DEF id
<1>6. Listed' = Listed \ {s}
  BY <1>1, <1>4, <1>5 DEF Listed
<1> QED
  BY <1>2, <1>3, <1>6 DEF Notify, id

(* An active session is only removed by a command that names its id.        *)
THEOREM ActiveStays == Spec => ActiveLeavesOnlyByCommand
<1> DEFINE A == \A s \in Listed :
                  objects[s].isActive /\ s \notin {sessions'[id] : id \in DOMAIN sessions'}
                    => Commanded(s)
<1>1. ASSUME IInv, [Next]_vars, NEW s \in Listed, objects[s].isActive,
             s \notin {sessions'[id] : id \in DOMAIN sessions'}
      PROVE  Commanded(s)
  <2>1. s \notin Listed'
    BY <1>1 DEF Listed
  <2>2. Next
    BY <1>1, <2>1 DEF vars, tableVars, Listed
  <2>3. ~Stays
    BY <1>1, <2>1 DEF Stays
  <2>4. PICK t \in Listed : Leaves(t)
    BY <1>1, <2>2, <2>3, LifecycleStep
  <2>5. Listed' = Listed \ {t}
    BY <1>1, <2>4, RemoveUnlists DEF Leaves
  <2>6. s = t
    BY <1>1, <2>1, <2>5
  <2> QED
    BY <1>1, <2>4, <2>6 DEF Leaves, TimedOut
<1>2. IInv /\ [Next]_vars => [A]_vars
  BY <1>1
<1> HIDE DEF A
<1>3. Spec => [][A]_vars
  BY <1>2, LifecycleCorrect, PTL DEF Spec
<1> QED
  BY <1>3 DEF A, Commanded, ActiveLeavesOnlyByCommand

-----------------------------------------------------------------------------
(* The notices.                                                            *)

(* All notices of a session that is gone, and all sessions that are.        *)
AllClosed == {n \in DOMAIN externalQueue : externalQueue[n].kind = "CLOSE_SESSION"}
AllGone == DOMAIN objects \ Listed

(* What is counted is finite.                                               *)
LEMMA FiniteCounts ==
  ASSUME IInv
  PROVE  /\ IsFiniteSet(AllClosed) /\ IsFiniteSet(AllGone)
         /\ Cardinality(DOMAIN objects) = Len(objects)
         /\ \A id \in Ids : IsFiniteSet(ClosedWith(id)) /\ IsFiniteSet(GoneWith(id))
<1>1. /\ DOMAIN externalQueue = 1 .. Len(externalQueue) /\ Len(externalQueue) \in Nat
      /\ DOMAIN objects = 1 .. Len(objects) /\ Len(objects) \in Nat
  <2>1. objects \in Seq(Session)
    BY DEF IInv, TypeOK
  <2>2. externalQueue \in Seq([kind: {"CLOSE_SESSION", "INVALID_SESSION"}, id: Ids])
    BY DEF IInv, TypeOK
  <2> QED
    BY <2>1, <2>2, LenProperties
<1>2. IsFiniteSet(DOMAIN externalQueue) /\ IsFiniteSet(DOMAIN objects)
      /\ Cardinality(DOMAIN objects) = Len(objects)
  <2>1. \A n \in Nat : IsFiniteSet(1 .. n) /\ Cardinality(1 .. n) = n
    BY FS_Interval
  <2> QED
    BY <1>1, <2>1
<1>3. AllClosed \subseteq DOMAIN externalQueue /\ AllGone \subseteq DOMAIN objects
  BY DEF AllClosed, AllGone
<1>4. \A id \in Ids : ClosedWith(id) \subseteq DOMAIN externalQueue /\ GoneWith(id) \subseteq DOMAIN objects
  BY DEF ClosedWith, GoneWith
<1> QED
  BY <1>2, <1>3, <1>4, FS_Subset

(* A step that removes nobody adds nothing to either count.                 *)
LEMMA StaysCounts ==
  ASSUME IInv, Stays
  PROVE  /\ AllClosed' = AllClosed /\ AllGone' = AllGone
         /\ \A id \in Ids : ClosedWith(id)' = ClosedWith(id) /\ GoneWith(id)' = GoneWith(id)
<1>1. AllGone' = AllGone /\ \A id \in Ids : GoneWith(id)' = GoneWith(id)
  BY DEF Stays, AllGone, GoneWith
<1>2. CASE UNCHANGED externalQueue
  BY <1>1, <1>2 DEF AllClosed, ClosedWith
<1>3. CASE \E i \in Ids : Notify("INVALID_SESSION", i)
  <2>1. PICK i \in Ids : Notify("INVALID_SESSION", i)
    BY <1>3
  <2> DEFINE last == Len(externalQueue) + 1
  <2>2. /\ DOMAIN externalQueue' = DOMAIN externalQueue \cup {last}
        /\ externalQueue'[last] = [kind |-> "INVALID_SESSION", id |-> i]
        /\ \A n \in DOMAIN externalQueue : externalQueue'[n] = externalQueue[n]
    BY <2>1, NotifyType
  <2> HIDE DEF last
  <2>3. externalQueue'[last].kind # "CLOSE_SESSION"
        /\ \A id \in Ids : externalQueue'[last] # [kind |-> "CLOSE_SESSION", id |-> id]
    BY <2>2
  <2>4. AllClosed' = AllClosed
    BY <2>2, <2>3 DEF AllClosed
  <2>5. \A id \in Ids : ClosedWith(id)' = ClosedWith(id)
    BY <2>2, <2>3 DEF ClosedWith
  <2> QED
    BY <1>1, <2>4, <2>5
<1> QED
  BY <1>2, <1>3 DEF Stays

(* A removal adds one to both counts of its id, and to no other's.          *)
LEMMA RemoveCounts ==
  ASSUME IInv, NEW s \in Listed, RemoveSession(s)
  PROVE  LET last == Len(externalQueue) + 1
         IN  /\ last \notin AllClosed /\ s \notin AllGone
             /\ AllClosed' = AllClosed \cup {last} /\ AllGone' = AllGone \cup {s}
             /\ \A id \in Ids :
                  IF id = objects[s].internalId
                  THEN /\ last \notin ClosedWith(id) /\ ClosedWith(id)' = ClosedWith(id) \cup {last}
                       /\ s \notin GoneWith(id) /\ GoneWith(id)' = GoneWith(id) \cup {s}
                  ELSE ClosedWith(id)' = ClosedWith(id) /\ GoneWith(id)' = GoneWith(id)
<1> DEFINE last == Len(externalQueue) + 1
<1>1. s \in DOMAIN objects /\ objects[s].internalId \in Ids
  BY ListedFacts DEF IInv, TypeOK
<1>2. PICK own \in Ids : own = objects[s].internalId
  BY <1>1
<1>3. /\ Listed' = Listed \ {s}
      /\ DOMAIN objects' = DOMAIN objects
      /\ \A k \in DOMAIN objects : objects'[k].internalId = objects[k].internalId
      /\ Notify("CLOSE_SESSION", own)
  BY <1>2, RemoveUnlists
<1> DEFINE e == [kind |-> "CLOSE_SESSION", id |-> own]
<1>4. /\ DOMAIN externalQueue' = DOMAIN externalQueue \cup {last}
      /\ last \notin DOMAIN externalQueue
      /\ externalQueue'[last] = e
      /\ \A n \in DOMAIN externalQueue : externalQueue'[n] = externalQueue[n]
  BY <1>3, NotifyType
<1>5. e.kind = "CLOSE_SESSION" /\ \A id \in Ids : id # own => e # [kind |-> "CLOSE_SESSION", id |-> id]
  OBVIOUS
<1> HIDE DEF last
<1>6. last \notin AllClosed /\ s \notin AllGone
  BY <1>4 DEF AllClosed, AllGone
<1>7. AllGone' = AllGone \cup {s}
  BY <1>1, <1>3 DEF AllGone
<1>8. AllClosed' = AllClosed \cup {last}
  <2> HIDE DEF e
  <2> QED
    BY <1>4, <1>5 DEF AllClosed
<1>9. /\ last \notin ClosedWith(own) /\ ClosedWith(own)' = ClosedWith(own) \cup {last}
      /\ s \notin GoneWith(own) /\ GoneWith(own)' = GoneWith(own) \cup {s}
  <2>1. /\ ClosedWith(own)' = {n \in DOMAIN externalQueue' : externalQueue'[n] = e}
        /\ ClosedWith(own) = {n \in DOMAIN externalQueue : externalQueue[n] = e}
    BY DEF ClosedWith
  <2> HIDE DEF e
  <2>2. last \notin ClosedWith(own) /\ ClosedWith(own)' = ClosedWith(own) \cup {last}
    BY <1>4, <2>1
  <2>3. s \notin GoneWith(own) /\ GoneWith(own)' = GoneWith(own) \cup {s}
    BY <1>1, <1>2, <1>3 DEF GoneWith
  <2> QED
    BY <2>2, <2>3
<1>10. ASSUME NEW id \in Ids, id # own
       PROVE  ClosedWith(id)' = ClosedWith(id) /\ GoneWith(id)' = GoneWith(id)
  <2>1. externalQueue'[last] # [kind |-> "CLOSE_SESSION", id |-> id]
    BY <1>4, <1>5, <1>10
  <2>2. ClosedWith(id)' = ClosedWith(id)
    BY <1>4, <2>1 DEF ClosedWith
  <2>3. GoneWith(id)' = GoneWith(id)
    BY <1>1, <1>2, <1>3, <1>10 DEF GoneWith
  <2> QED
    BY <2>2, <2>3
<1> QED
  BY <1>2, <1>6, <1>7, <1>8, <1>9, <1>10 DEF last

(* Equal counts stay equal when each grows by one.                          *)
LEMMA BothGrow ==
  ASSUME NEW S, NEW T, NEW x, NEW y, IsFiniteSet(S), IsFiniteSet(T),
         x \notin S, y \notin T, Cardinality(S) = Cardinality(T)
  PROVE  Cardinality(S \cup {x}) = Cardinality(T \cup {y})
BY FS_AddElement

(* The number of notices is the number of sessions gone, by id and in all.  *)
CountsAgree ==
  ClosedNoticeOncePerSession /\ Cardinality(AllClosed) = Cardinality(AllGone)

(* A step keeps the counts equal.                                           *)
LEMMA CountsStep ==
  ASSUME IInv, CountsAgree, Next
  PROVE  CountsAgree'
<1>1. CASE Stays
  BY <1>1, StaysCounts DEF CountsAgree, ClosedNoticeOncePerSession
<1>2. ASSUME NEW s \in Listed, RemoveSession(s) PROVE CountsAgree'
  <2>1. ASSUME NEW id \in Ids PROVE Cardinality(ClosedWith(id)') = Cardinality(GoneWith(id)')
    <3>1. IsFiniteSet(ClosedWith(id)) /\ IsFiniteSet(GoneWith(id))
          /\ Cardinality(ClosedWith(id)) = Cardinality(GoneWith(id))
      BY FiniteCounts DEF CountsAgree, ClosedNoticeOncePerSession
    <3>2. CASE id = objects[s].internalId
      BY <1>2, <3>1, <3>2, RemoveCounts, BothGrow
    <3>3. CASE id # objects[s].internalId
      BY <1>2, <3>1, <3>3, RemoveCounts
    <3> QED
      BY <3>2, <3>3
  <2>2. Cardinality(AllClosed') = Cardinality(AllGone')
    BY <1>2, FiniteCounts, RemoveCounts, BothGrow DEF CountsAgree
  <2> QED
    BY <2>1, <2>2 DEF CountsAgree, ClosedNoticeOncePerSession
<1> QED
  BY <1>1, <1>2, LifecycleStep DEF Leaves

(* The counts agree from the start, when they are zero.                     *)
THEOREM CountsCorrect == Spec => [](IInv /\ CountsAgree)
<1>1. Init => IInv /\ CountsAgree
  <2> SUFFICES ASSUME Init PROVE CountsAgree
    BY LifecycleInit
  <2>1. DOMAIN externalQueue = {} /\ DOMAIN objects = {}
    BY DEF Init
  <2>2. AllClosed = {} /\ AllGone = {} /\ \A id \in Ids : ClosedWith(id) = {} /\ GoneWith(id) = {}
    BY <2>1 DEF AllClosed, AllGone, ClosedWith, GoneWith
  <2> QED
    BY <2>2 DEF CountsAgree, ClosedNoticeOncePerSession
<1>2. IInv /\ CountsAgree /\ [Next]_vars => (IInv /\ CountsAgree)'
  <2>1. IInv /\ CountsAgree /\ Next => (IInv /\ CountsAgree)'
    BY CountsStep, LifecycleStep
  <2>2. ASSUME IInv, CountsAgree, UNCHANGED vars PROVE CountsAgree'
    <3>1. Stays
      BY <2>2, Untouched DEF vars
    <3> QED
      BY <2>2, <3>1, StaysCounts DEF CountsAgree, ClosedNoticeOncePerSession
  <2>3. IInv /\ UNCHANGED vars => IInv'
    BY Untouched, InvParts DEF vars, stopVars, QueuesPart
  <2> QED
    BY <2>1, <2>2, <2>3
<1> QED
  BY <1>1, <1>2, PTL DEF Spec

(* The embedding program hears of each session that is gone exactly once.   *)
THEOREM NoticesCorrect == Spec => []ClosedNoticeOncePerSession
<1>1. IInv /\ CountsAgree => ClosedNoticeOncePerSession
  BY DEF CountsAgree
<1> QED
  BY <1>1, CountsCorrect, PTL

(* A shutdown that goes through finds no session listed, so all that were   *)
(* ever created are gone, and the notices count them.                       *)
LEMMA ShutdownStep ==
  ASSUME IInv, CountsAgree, Next, ~shutdown, shutdown', Head(internalQueue).kind = "SHUTDOWN"
  PROVE  /\ sockOpen /\ ~sockOpen' /\ Listed' = {}
         /\ Len(objects') = Cardinality(AllClosed')
<1>1. ShutdownCommand
  BY DEF Next, CreateSession, CheckSessionsThrows, SocketError, PushCommand, CloseCommand,
         InvalidCommand, EncapsulatedCommand, EmergencyShutdownCommand, Read, Update,
         HandleDatagram, HandleAcknowledge, Clock, stopVars
<1>2. ~ShutdownThrows
  BY <1>1 DEF ShutdownCommand, stopVars
<1>3. /\ DOMAIN sessions = {} /\ sockOpen /\ ~sockOpen'
      /\ UNCHANGED <<objects, sessions, externalQueue>>
  BY <1>1, <1>2 DEF ShutdownCommand, ShutdownThrows, tableVars
<1>4. Listed = {} /\ Listed' = {}
  BY <1>3 DEF Listed
<1>5. AllGone = DOMAIN objects
  BY <1>4 DEF AllGone
<1>6. Len(objects) = Cardinality(AllClosed)
  BY <1>5, FiniteCounts DEF CountsAgree
<1>7. Len(objects') = Len(objects) /\ AllClosed' = AllClosed
  BY <1>3 DEF AllClosed
<1> QED
  BY <1>3, <1>4, <1>6, <1>7

(* SHUTDOWN goes through only when every session ever created is gone and   *)
(* has been reported, and the socket is still there to be closed.           *)
THEOREM ShutdownCorrect == Spec => ShutdownLeavesNobody
<1> DEFINE A == ~shutdown /\ shutdown' /\ Head(internalQueue).kind = "SHUTDOWN" =>
                  /\ sockOpen /\ ~sockOpen' /\ Listed' = {}
                  /\ Len(objects') = Cardinality({n \in DOMAIN externalQueue' :
                                                    externalQueue'[n].kind = "CLOSE_SESSION"})
<1>1. IInv /\ CountsAgree /\ [Next]_vars => [A]_vars
  BY ShutdownStep DEF AllClosed
<1> HIDE DEF A
<1>2. Spec => [][A]_vars
  BY <1>1, CountsCorrect, PTL DEF Spec
<1> QED
  BY <1>2, PTL DEF A, ShutdownLeavesNobody

-----------------------------------------------------------------------------
(* The refinement.  Who is listed, as the registry sees them, depends only  *)
(* on the table of ids and on the ips and flags of the sessions in it.      *)

(* The same table over sessions that look the same to the registry.         *)
LEMMA MembersSame ==
  ASSUME IInv, UNCHANGED sessions,
         \A s \in Listed : /\ objects'[s].ip = objects[s].ip
                           /\ objects'[s].state = "DISCONNECTING" <=> objects[s].state = "DISCONNECTING"
  PROVE  Members' = Members
<1>1. ASSUME NEW id \in DOMAIN sessions PROVE MemberOf(id)' = MemberOf(id)
  <2>1. sessions[id] \in Listed /\ sessions'[id] = sessions[id]
    BY DEF Listed
  <2> QED
    BY <2>1 DEF MemberOf
<1> QED
  BY <1>1 DEF Members

(* The flag for disconnection is a Flag of the member.                      *)
LEMMA FlagMaps ==
  ASSUME IInv, NEW id \in DOMAIN sessions,
         objects' = [objects EXCEPT ![sessions[id]].state = "DISCONNECTING"],
         UNCHANGED sessions
  PROVE  /\ MemberOf(id) \in Members
         /\ Members' = (Members \ {MemberOf(id)}) \cup {[id |-> MemberOf(id).id, ip |-> MemberOf(id).ip, flagged |-> TRUE]}
<1> DEFINE s == sessions[id]
           r == [objects[s] EXCEPT !.state = "DISCONNECTING"]
<1>1. s \in Listed /\ s \in DOMAIN objects /\ objects[s] \in Session /\ objects \in Seq(Session)
  <2>1. s \in Listed
    BY DEF Listed
  <2> QED
    BY <2>1, ListedFacts DEF IInv, TypeOK
<1>2. r \in Session /\ r.internalId = objects[s].internalId /\ r.ip = objects[s].ip /\ r.state = "DISCONNECTING"
  BY <1>1 DEF Session, States
<1>3. objects' = [objects EXCEPT ![s] = r]
  OBVIOUS
<1> HIDE DEF r
<1>4. objects'[s] = r /\ \A k \in DOMAIN objects : k # s => objects'[k] = objects[k]
  BY <1>1, <1>2, <1>3, UpdatedSession
<1>5. MemberOf(id)' = [id |-> MemberOf(id).id, ip |-> MemberOf(id).ip, flagged |-> TRUE]
  <2>1. MemberOf(id)' = [id |-> id, ip |-> objects[s].ip, flagged |-> TRUE]
    BY <1>2, <1>4 DEF MemberOf
  <2>2. MemberOf(id).id = id /\ MemberOf(id).ip = objects[s].ip
    BY DEF MemberOf
  <2> QED
    BY <2>1, <2>2
<1>6. ASSUME NEW k \in DOMAIN sessions, k # id PROVE MemberOf(k)' = MemberOf(k) /\ MemberOf(k) # MemberOf(id)
  <2>1. sessions[k] # s /\ sessions[k] \in DOMAIN objects
    BY <1>6 DEF IInv, TypeOK, TablesAgree
  <2>2. MemberOf(k)' = MemberOf(k)
    BY <1>4, <2>1 DEF MemberOf
  <2>3. MemberOf(k).id = k /\ MemberOf(id).id = id
    BY DEF MemberOf
  <2> QED
    BY <1>6, <2>2, <2>3
<1>7. Members' = {MemberOf(k)' : k \in DOMAIN sessions}
  BY DEF Members
<1> QED
  BY <1>5, <1>6, <1>7 DEF Members

(* Removal is a Leave of the member.                                        *)
LEMMA LeaveMaps ==
  ASSUME IInv, NEW s \in Listed, RemoveSession(s)
  PROVE  \E m \in Members : /\ Members' = Members \ {m}
                            /\ externalQueue' = Append(externalQueue, [kind |-> "CLOSE_SESSION", id |-> m.id])
<1> DEFINE id == objects[s].internalId
<1>1. id \in DOMAIN sessions /\ sessions[id] = s
  BY ListedFacts
<1>2. /\ sessions' = Without(sessions, {id})
      /\ externalQueue' = Append(externalQueue, [kind |-> "CLOSE_SESSION", id |-> id])
      /\ objects' = IF Closes(s) THEN Close(s) ELSE objects
  BY RemoveFacts
<1>3. \A k \in DOMAIN objects : k # s => objects'[k] = objects[k]
  BY <1>2, CloseFacts
<1>4. DOMAIN sessions' = DOMAIN sessions \ {id} /\ \A k \in DOMAIN sessions' : sessions'[k] = sessions[k]
  BY <1>2 DEF Without
<1> HIDE DEF id
<1>5. ASSUME NEW k \in DOMAIN sessions, k # id PROVE MemberOf(k)' = MemberOf(k) /\ MemberOf(k) # MemberOf(id)
  <2>1. sessions[k] # sessions[id] /\ sessions[k] \in DOMAIN objects
    BY <1>1, <1>5 DEF IInv, TypeOK, TablesAgree
  <2>2. MemberOf(k)' = MemberOf(k)
    BY <1>1, <1>3, <1>4, <1>5, <2>1 DEF MemberOf
  <2>3. MemberOf(k).id = k /\ MemberOf(id).id = id
    BY DEF MemberOf
  <2> QED
    BY <1>5, <2>2, <2>3
<1>6. Members' = {MemberOf(k)' : k \in DOMAIN sessions'}
  BY DEF Members
<1>7. Members' = Members \ {MemberOf(id)}
  BY <1>4, <1>5, <1>6 DEF Members
<1>8. MemberOf(id) \in Members /\ MemberOf(id).id = id
  BY <1>1 DEF Members, MemberOf
<1> QED
  BY <1>2, <1>7, <1>8

(* Creation is an Enter under an id and an ip nobody has.                   *)
LEMMA EnterMaps ==
  ASSUME IInv, NEW addr \in Ips, CreateSession(addr)
  PROVE  \E id \in Ids :
           /\ \A m \in Members : m.id # id /\ m.ip # addr
           /\ Members' = Members \cup {[id |-> id, ip |-> addr, flagged |-> FALSE]}
<1>1. PICK id \in FreeId :
        /\ objects' = Append(objects,
             [internalId |-> id, ip |-> addr, state |-> "CONNECTING", managed |-> TRUE,
              isActive |-> FALSE, lastUpdate |-> now, acknowledged |-> FALSE])
        /\ sessions' = With(sessions, id, Len(objects) + 1)
  BY DEF CreateSession
<1> DEFINE new == Len(objects) + 1
           r == [internalId |-> id, ip |-> addr, state |-> "CONNECTING", managed |-> TRUE,
                 isActive |-> FALSE, lastUpdate |-> now, acknowledged |-> FALSE]
<1>2. id \in Ids /\ id \notin DOMAIN sessions /\ addr \notin DOMAIN sessionsByAddress
  BY DEF FreeId, CreateSession
<1>3. objects \in Seq(Session) /\ r \in Session /\ r.ip = addr /\ r.state = "CONNECTING"
  BY <1>2 DEF IInv, TypeOK, Session, States
<1>4. objects' = Append(objects, r)
  BY <1>1
<1> HIDE DEF r
<1>5. objects'[new] = r /\ \A k \in DOMAIN objects : objects'[k] = objects[k]
  BY <1>3, <1>4, AppendProperties
<1>6. /\ DOMAIN sessions' = DOMAIN sessions \cup {id} /\ sessions'[id] = new
      /\ \A k \in DOMAIN sessions : sessions'[k] = sessions[k]
  BY <1>1, <1>2 DEF With
<1> HIDE DEF new
<1>7. ASSUME NEW k \in DOMAIN sessions PROVE MemberOf(k)' = MemberOf(k)
  <2>1. sessions[k] \in DOMAIN objects
    BY DEF IInv, TypeOK
  <2> QED
    BY <1>5, <1>6, <2>1 DEF MemberOf
<1>8. MemberOf(id)' = [id |-> id, ip |-> addr, flagged |-> FALSE]
  BY <1>3, <1>5, <1>6 DEF MemberOf
<1>9. Members' = {MemberOf(k)' : k \in DOMAIN sessions'}
  BY DEF Members
<1>10. Members' = Members \cup {[id |-> id, ip |-> addr, flagged |-> FALSE]}
  BY <1>6, <1>7, <1>8, <1>9 DEF Members
<1>11. ASSUME NEW k \in DOMAIN sessions PROVE MemberOf(k).id # id /\ MemberOf(k).ip # addr
  <2>1. objects[sessions[k]].ip \in DOMAIN sessionsByAddress
    BY Zenon DEF IInv, TablesAgree
  <2> QED
    BY <1>2, <2>1 DEF MemberOf
<1>12. \A m \in Members : m.id # id /\ m.ip # addr
  BY <1>11 DEF Members
<1> QED
  BY <1>2, <1>10, <1>12

(* A command is refused for a session that does not take any.               *)
LEMMA RefuseMaps ==
  ASSUME IInv, NEW id \in Ids, id \notin DOMAIN sessions \/ ~IsConnected(sessions[id])
  PROVE  \A m \in Members : m.id = id => m.flagged
<1>1. ASSUME NEW k \in DOMAIN sessions, MemberOf(k).id = id PROVE MemberOf(k).flagged
  <2>1. k = id /\ sessions[k] \in Listed
    BY <1>1 DEF MemberOf, Listed
  <2>2. objects[sessions[k]].state # "DISCONNECTED"
    BY <2>1, ListedFacts DEF IInv, ListedIsManaged
  <2>3. objects[sessions[k]].state = "DISCONNECTING"
    BY <2>1, <2>2 DEF IsConnected
  <2> QED
    BY <2>3 DEF MemberOf
<1> QED
  BY <1>1 DEF Members

(* Each step of the tables is a step of the registry or leaves it alone.    *)
LEMMA RegistryStep ==
  ASSUME IInv, Next
  PROVE  Registry!Next \/ UNCHANGED <<Members, externalQueue, shutdown, ~sockOpen>>
<1>1. ASSUME NEW addr \in Ips, CreateSession(addr) PROVE Registry!Next
  <2>1. PICK id \in Ids : /\ \A m \in Members : m.id # id /\ m.ip # addr
                          /\ Members' = Members \cup {[id |-> id, ip |-> addr, flagged |-> FALSE]}
    BY <1>1, EnterMaps
  <2>2. ~shutdown /\ UNCHANGED <<externalQueue, shutdown, ~sockOpen>>
    BY <1>1 DEF CreateSession, stopVars
  <2>3. Registry!Enter(id, addr)
    BY <2>1, <2>2 DEF Registry!Enter
  <2> QED
    BY <2>3 DEF Registry!Next
<1>2. ASSUME NEW id \in Ids, id \notin DOMAIN sessions \/ ~IsConnected(sessions[id]),
             Notify("INVALID_SESSION", id), UNCHANGED <<stopVars, tableVars>>
      PROVE  Registry!Next
  <2>1. Members' = Members
    BY <1>2, MembersSame DEF tableVars
  <2>2. \A m \in Members : m.id = id => m.flagged
    BY <1>2, RefuseMaps
  <2>3. Registry!Refuse(id)
    BY <1>2, <2>1, <2>2 DEF Registry!Refuse, Registry!Tell, Notify, stopVars
  <2> QED
    BY <2>3 DEF Registry!Next
<1>3. ASSUME CloseCommand PROVE Registry!Next
  <2> DEFINE id == Head(internalQueue).id
  <2>1. id \in Ids /\ UNCHANGED stopVars
    BY <1>3, ReadFacts DEF CloseCommand
  <2>2. CASE id \in DOMAIN sessions
    <3>1. /\ objects' = [objects EXCEPT ![sessions[id]].state = "DISCONNECTING"]
          /\ UNCHANGED <<sessions, externalQueue>>
      BY <1>3, <2>2 DEF CloseCommand
    <3>2. /\ MemberOf(id) \in Members
          /\ Members' = (Members \ {MemberOf(id)}) \cup {[id |-> MemberOf(id).id, ip |-> MemberOf(id).ip, flagged |-> TRUE]}
      BY <2>2, <3>1, FlagMaps
    <3>3. Registry!Flag(MemberOf(id))
      BY <2>1, <3>1, <3>2 DEF Registry!Flag, stopVars
    <3> QED
      BY <3>2, <3>3 DEF Registry!Next
  <2>3. CASE id \notin DOMAIN sessions
    <3>1. Notify("INVALID_SESSION", id) /\ UNCHANGED tableVars
      BY <1>3, <2>3 DEF CloseCommand
    <3> QED
      BY <1>2, <2>1, <2>3, <3>1
  <2> QED
    BY <2>2, <2>3
<1>4. ASSUME NEW s \in Listed, RemoveSession(s), UNCHANGED stopVars PROVE Registry!Next
  <2>1. PICK m \in Members :
          /\ Members' = Members \ {m}
          /\ externalQueue' = Append(externalQueue, [kind |-> "CLOSE_SESSION", id |-> m.id])
    BY <1>4, LeaveMaps
  <2>2. Registry!Leave(m)
    BY <1>4, <2>1 DEF Registry!Leave, Registry!Tell, stopVars
  <2> QED
    BY <2>2 DEF Registry!Next
<1>5. ASSUME UNCHANGED <<objects, sessions, externalQueue, stopVars>>
      PROVE  UNCHANGED <<Members, externalQueue, shutdown, ~sockOpen>>
  <2>1. Members' = Members
    BY <1>5, MembersSame
  <2> QED
    BY <1>5, <2>1 DEF stopVars
<1>6. ASSUME InvalidCommand PROVE Registry!Next \/ UNCHANGED <<Members, externalQueue, shutdown, ~sockOpen>>
  <2> DEFINE id == Head(internalQueue).id
  <2>1. CASE id \in DOMAIN sessions
    BY <1>4, <1>6, <2>1 DEF InvalidCommand, Listed
  <2>2. CASE id \notin DOMAIN sessions
    BY <1>5, <1>6, <2>2 DEF InvalidCommand, tableVars
  <2> QED
    BY <2>1, <2>2
<1>7. ASSUME EncapsulatedCommand PROVE Registry!Next \/ UNCHANGED <<Members, externalQueue, shutdown, ~sockOpen>>
  <2>1. UNCHANGED <<stopVars, tableVars>>
    BY <1>7 DEF EncapsulatedCommand
  <2>2. CASE UNCHANGED externalQueue
    BY <1>5, <2>1, <2>2 DEF tableVars
  <2>3. CASE ~UNCHANGED externalQueue
    <3>1. PICK id \in Ids : /\ ~(id \in DOMAIN sessions /\ IsConnected(sessions[id]))
                            /\ Notify("INVALID_SESSION", id)
      BY <1>7, <2>3 DEF EncapsulatedCommand
    <3> QED
      BY <1>2, <2>1, <3>1
  <2> QED
    BY <2>2, <2>3
<1>8. ASSUME ShutdownCommand PROVE Registry!Next \/ UNCHANGED <<Members, externalQueue, shutdown, ~sockOpen>>
  <2>1. UNCHANGED <<objects, sessions, externalQueue>>
    BY <1>8 DEF ShutdownCommand, tableVars
  <2>2. CASE ShutdownThrows
    BY <1>5, <1>8, <2>1, <2>2 DEF ShutdownCommand
  <2>3. CASE ~ShutdownThrows
    <3>1. Members = {} /\ Members' = Members
      <4>1. Members' = Members
        BY <2>1, MembersSame
      <4> QED
        BY <2>3, <4>1 DEF ShutdownThrows, Members
    <3>2. shutdown' = TRUE /\ (~sockOpen)' = TRUE
      BY <1>8, <2>3 DEF ShutdownCommand
    <3>3. ~(~sockOpen)
      BY <2>3 DEF ShutdownThrows
    <3>4. Registry!Shut
      BY <2>1, <3>1, <3>2, <3>3 DEF Registry!Shut
    <3> QED
      BY <3>4 DEF Registry!Next
  <2> QED
    BY <2>2, <2>3
<1>9. ASSUME EmergencyShutdownCommand PROVE Registry!Next
  <2>1. UNCHANGED <<objects, sessions, externalQueue, sockOpen>> /\ shutdown' = TRUE
    BY <1>9 DEF EmergencyShutdownCommand, tableVars
  <2>2. Members' = Members
    BY <2>1, MembersSame
  <2>3. Registry!Abandon
    BY <2>1, <2>2 DEF Registry!Abandon
  <2> QED
    BY <2>3 DEF Registry!Next
<1>10. ASSUME NEW s \in Listed, NEW r \in Session, r.ip = objects[s].ip, r.state = objects[s].state,
              r.internalId = objects[s].internalId,
              objects' = [objects EXCEPT ![s] = r], UNCHANGED <<sessions, externalQueue, stopVars>>
       PROVE  UNCHANGED <<Members, externalQueue, shutdown, ~sockOpen>>
  <2>1. s \in DOMAIN objects /\ objects \in Seq(Session)
    BY ListedFacts DEF IInv, TypeOK
  <2>2. objects'[s] = r /\ \A k \in DOMAIN objects : k # s => objects'[k] = objects[k]
    BY <1>10, <2>1, UpdatedSession
  <2>3. \A k \in Listed : /\ objects'[k].ip = objects[k].ip
                          /\ objects'[k].state = "DISCONNECTING" <=> objects[k].state = "DISCONNECTING"
    BY <1>10, <2>2, ListedFacts
  <2>4. Members' = Members
    BY <1>10, <2>3, MembersSame
  <2> QED
    BY <1>10, <2>4 DEF stopVars
<1>11. ASSUME NEW s \in Listed, HandleDatagram(s) \/ \E empty \in BOOLEAN : HandleAcknowledge(s, empty)
       PROVE  UNCHANGED <<Members, externalQueue, shutdown, ~sockOpen>>
  <2> DEFINE r == [objects[s] EXCEPT !.isActive = TRUE, !.lastUpdate = now]
             q == [objects[s] EXCEPT !.isActive = TRUE, !.lastUpdate = now, !.acknowledged = TRUE]
  <2>1. objects[s] \in Session /\ now \in Nat /\ s \in DOMAIN objects /\ objects \in Seq(Session)
    BY ListedFacts DEF IInv, TypeOK
  <2>2. /\ r \in Session /\ r.internalId = objects[s].internalId /\ r.ip = objects[s].ip /\ r.state = objects[s].state
        /\ q \in Session /\ q.internalId = objects[s].internalId /\ q.ip = objects[s].ip /\ q.state = objects[s].state
    BY <2>1 DEF Session
  <2>3. objects' = [objects EXCEPT ![s] = r] \/ objects' = [objects EXCEPT ![s] = q]
    BY <1>11, <2>1 DEF HandleDatagram, HandleAcknowledge, Active
  <2>4. UNCHANGED <<sessions, externalQueue, stopVars>>
    BY <1>11 DEF HandleDatagram, HandleAcknowledge
  <2> HIDE DEF r, q
  <2> QED
    BY <1>10, <2>2, <2>3, <2>4
<1>12. ASSUME NEW s \in Listed, Update(s) PROVE Registry!Next
  BY <1>4, <1>12 DEF Update
<1>13. ASSUME Clock \/ \E c \in Command : PushCommand(c)
       PROVE  UNCHANGED <<Members, externalQueue, shutdown, ~sockOpen>>
  BY <1>5, <1>13 DEF Clock, PushCommand, tableVars
<1>14. ASSUME NEW addr \in Ips, CheckSessionsThrows(addr)
       PROVE  UNCHANGED <<Members, externalQueue, shutdown, ~sockOpen>>
  BY <1>5, <1>14 DEF CheckSessionsThrows, tableVars
<1>15. ASSUME SocketError PROVE Registry!Next
  <2>1. sockOpen /\ sockOpen' = FALSE /\ UNCHANGED <<objects, sessions, externalQueue, shutdown>>
    BY <1>15 DEF SocketError, tableVars
  <2>2. Members' = Members
    BY <2>1, MembersSame
  <2>3. ~(~sockOpen) /\ (~sockOpen)' = TRUE
    BY <2>1
  <2>4. Registry!Lose
    BY <2>1, <2>2, <2>3 DEF Registry!Lose
  <2> QED
    BY <2>4 DEF Registry!Next
<1> QED
  BY <1>1, <1>3, <1>6, <1>7, <1>8, <1>9, <1>11, <1>12, <1>13, <1>14, <1>15 DEF Next

(* Whatever the commands, timeouts and reused ids, what the embedding       *)
(* program sees of the tables is the registry it was promised: ids and ips  *)
(* held once, every departure reported once and in the same step, commands  *)
(* refused only where nobody takes them, nobody admitted after a shutdown.  *)
THEOREM RegistryRefinement == Spec => RefinesSessionRegistry
<1>1. Init => Registry!Init
  BY DEF Init, Registry!Init, Members
<1>2. IInv /\ [Next]_vars => [Registry!Next]_(Registry!regVars)
  <2> SUFFICES ASSUME IInv, [Next]_vars PROVE [Registry!Next]_(Registry!regVars)
    OBVIOUS
  <2>1. CASE Next
    BY <2>1, RegistryStep DEF Registry!regVars
  <2>2. CASE UNCHANGED vars
    <3>1. Members' = Members
      BY <2>2, MembersSame DEF vars, tableVars
    <3> QED
      BY <2>2, <3>1 DEF vars, stopVars, Registry!regVars
  <2> QED
    BY <2>1, <2>2
<1> QED
  BY <1>1, <1>2, LifecycleCorrect, PTL DEF Spec, RefinesSessionRegistry, Registry!Spec
=============================================================================
