--------------------------- MODULE Startup_proofs ---------------------------
(***************************************************************************)
(* Proofs about Startup, for any ports and any number of calls.             *)
(***************************************************************************)
EXTENDS Startup, TLAPS

\* What is left after the head is taken.
LEMMA TailElements ==
  ASSUME NEW S, NEW q \in Seq(S), q # <<>>
  PROVE  /\ Head(q) \in S /\ Head(q) = q[1] /\ 1 \in DOMAIN q
         /\ Tail(q) \in Seq(S)
         /\ DOMAIN Tail(q) = 1 .. Len(q) - 1
         /\ \A n \in DOMAIN Tail(q) : n + 1 \in DOMAIN q /\ Tail(q)[n] = q[n + 1]
         /\ \A n \in DOMAIN q : n # 1 => (n - 1 \in DOMAIN Tail(q) /\ Tail(q)[n - 1] = q[n])
  OBVIOUS

\* A queue with one task more.
LEMMA AppendElements ==
  ASSUME NEW S, NEW q \in Seq(S), NEW e \in S
  PROVE  /\ Append(q, e) \in Seq(S)
         /\ Len(Append(q, e)) = Len(q) + 1
         /\ DOMAIN Append(q, e) = DOMAIN q \cup {Len(q) + 1}
         /\ \A n \in DOMAIN q : Append(q, e)[n] = q[n]
         /\ Append(q, e)[Len(q) + 1] = e
  OBVIOUS

\* A sequence with one element replaced.
LEMMA ReplacedElement ==
  ASSUME NEW S, NEW q \in Seq(S), NEW i \in DOMAIN q, NEW e \in S
  PROVE  /\ [q EXCEPT ![i] = e] \in Seq(S)
         /\ DOMAIN [q EXCEPT ![i] = e] = DOMAIN q
         /\ [q EXCEPT ![i] = e][i] = e
         /\ \A j \in DOMAIN q : j # i => [q EXCEPT ![i] = e][j] = q[j]
  OBVIOUS

-----------------------------------------------------------------------------

\* Init establishes the types.
LEMMA StartupInit == Init => TypeOK
<1> SUFFICES ASSUME Init PROVE TypeOK
  OBVIOUS
<1>1. /\ servers \in Seq(Server) /\ micro \in Seq(Task) /\ attempts \in Seq(Attempt)
      /\ DOMAIN micro = {} /\ DOMAIN attempts = {} /\ calls \in Nat /\ resumed \in Nat
  BY DEF Init
<1>2. running \in BOOLEAN /\ nodeOk \in BOOLEAN /\ turn \in BOOLEAN /\ ready \in BOOLEAN
  BY Zenon DEF Init
<1> QED BY <1>1, <1>2, Zenon DEF TypeOK

\* An event of a socket leaves the attempt to its server.
LEMMA SocketEvent ==
  ASSUME attempts \in Seq(Attempt), NEW i \in DOMAIN attempts,
         Listening(i) \/ BindFails(i) \/ SocketFails(i)
  PROVE  /\ attempts' \in Seq(Attempt) /\ DOMAIN attempts' = DOMAIN attempts
         /\ Len(attempts') = Len(attempts)
         /\ \A j \in DOMAIN attempts : attempts'[j].server = attempts[j].server
<1>0. attempts[i] \in Attempt
  OBVIOUS
<1>1. PICK a \in Attempt : attempts' = [attempts EXCEPT ![i] = a] /\ a.server = attempts[i].server
  <2>1. CASE BindFails(i) \/ SocketFails(i)
    <3>1. [attempts[i] EXCEPT !.sock = "closed"] \in Attempt
      BY <1>0 DEF Attempt
    <3> QED BY <1>0, <2>1, <3>1 DEF BindFails, SocketFails, CloseOnError, Attempt
  <2>2. CASE Listening(i)
    <3>1. PICK thrown \in {"none", "Unable to bind", "buffer size"} :
            attempts' = [attempts EXCEPT ![i].sock = "listening", ![i].ready = TRUE, ![i].thrown = thrown]
      BY <2>2 DEF Listening, ThrownBySocketRun
    <3>2. [attempts[i] EXCEPT !.sock = "listening", !.ready = TRUE, !.thrown = thrown] \in Attempt
      BY <1>0 DEF Attempt
    <3> QED BY <1>0, <3>1, <3>2 DEF Attempt
  <2> QED BY <2>1, <2>2
<1> QED BY <1>1, ReplacedElement

\* Every step keeps them.
LEMMA StartupTypes == TypeOK /\ [Next]_vars => TypeOK'
<1> SUFFICES ASSUME TypeOK, [Next]_vars PROVE TypeOK'
  OBVIOUS
<1>0. /\ servers \in Seq(Server) /\ micro \in Seq(Task) /\ attempts \in Seq(Attempt)
      /\ Len(servers) \in Nat /\ DOMAIN servers = 1 .. Len(servers)
      /\ \A n \in DOMAIN micro : micro[n].server \in DOMAIN servers
      /\ \A i \in DOMAIN attempts : attempts[i] \in Attempt /\ attempts[i].server \in DOMAIN servers
      /\ \A n \in DOMAIN micro : micro[n] \in Task
  BY DEF TypeOK
<1>1. ASSUME NEW port \in Ports, Call(port) PROVE TypeOK'
  <2>1. CASE ~nodeOk
    <3>1. /\ UNCHANGED <<servers, micro, nodeOk, ready, attempts, resumed>>
          /\ calls' = calls + 1
      BY <1>1, <2>1 DEF Call
    <3>2. running' \in BOOLEAN /\ turn' \in BOOLEAN
      BY <1>1, <2>1, Zenon DEF Call
    <3>3. calls' \in Nat
      BY <3>1 DEF TypeOK
    <3> QED BY <3>1, <3>2, <3>3, Zenon DEF TypeOK
  <2>2. CASE nodeOk
    <3> DEFINE new == [port |-> port, ready |-> FALSE]
               task == [task |-> "run", server |-> Len(servers) + 1]
    <3>1. new \in Server /\ task \in Task /\ task.server = Len(servers) + 1
      BY <1>0 DEF Server, Task
    <3>2. servers' = Append(servers, new) /\ micro' = Append(micro, task)
      BY <1>1, <2>2 DEF Call
    <3> HIDE DEF new, task
    <3>3. servers' \in Seq(Server) /\ DOMAIN servers' = DOMAIN servers \cup {Len(servers) + 1}
      BY <1>0, <3>1, <3>2, AppendElements
    <3>4. micro' \in Seq(Task) /\ \A n \in DOMAIN micro' : micro'[n].server \in DOMAIN servers'
      BY <1>0, <3>1, <3>2, <3>3, AppendElements
    <3>5. /\ UNCHANGED <<running, nodeOk, ready, attempts, resumed>>
          /\ turn' = TRUE /\ calls' = calls + 1
      BY <1>1, <2>2 DEF Call
    <3>6. calls' \in Nat
      BY <3>5 DEF TypeOK
    <3>7. \A i \in DOMAIN attempts' : attempts'[i].server \in DOMAIN servers'
      BY <1>0, <3>3, <3>5
    <3> QED BY <3>3, <3>4, <3>5, <3>6, <3>7, Zenon DEF TypeOK
  <2> QED BY <2>1, <2>2
<1>2. ASSUME EndTurn PROVE TypeOK'
  BY <1>2 DEF EndTurn, TypeOK
<1>3. ASSUME RunTask PROVE TypeOK'
  <2>0. micro # <<>> /\ Len(servers) \in DOMAIN servers
    <3>1. micro # <<>> /\ 1 \in DOMAIN micro
      BY <1>3, <1>0, TailElements DEF RunTask, NextTask
    <3> QED BY <3>1, <1>0
  <2>1. PICK sock \in {"none", "binding"} :
          /\ attempts' = Attempted(Len(servers), sock)
          /\ micro' = Resume(Tail(micro), Len(servers), sock)
    BY <1>3 DEF RunTask, ThisServer
  <2> DEFINE new == NewAttempt(Len(servers), sock)
             e == [task |-> "serverRun", server |-> Len(servers)]
             f == [task |-> "caller", server |-> Len(servers)]
  <2>2. new \in Attempt /\ new.server = Len(servers)
    BY <1>0 DEF Attempt, NewAttempt
  <2>3. /\ e \in Task /\ e.server = Len(servers)
        /\ f \in Task /\ f.server = Len(servers)
    BY <1>0 DEF Task
  <2>4. attempts' = Append(attempts, new) /\ micro' = Append(Append(Tail(micro), e), f)
    BY <2>1 DEF Attempted, Resume, ResumeServer, Resolve
  <2> HIDE DEF new, e, f
  <2>5. attempts' \in Seq(Attempt) /\ \A i \in DOMAIN attempts' : attempts'[i].server \in DOMAIN servers
    BY <1>0, <2>0, <2>2, <2>4, AppendElements
  <2>6. Tail(micro) \in Seq(Task) /\ \A n \in DOMAIN Tail(micro) : Tail(micro)[n].server \in DOMAIN servers
    BY <1>0, <2>0, TailElements
  <2>7. micro' \in Seq(Task) /\ \A n \in DOMAIN micro' : micro'[n].server \in DOMAIN servers
    <3> DEFINE q == Append(Tail(micro), e)
    <3>1. q \in Seq(Task) /\ \A n \in DOMAIN q : q[n].server \in DOMAIN servers
      BY <2>0, <2>3, <2>6, AppendElements
    <3>2. micro' = Append(q, f)
      BY <2>4
    <3> HIDE DEF q
    <3> QED BY <2>0, <2>3, <3>1, <3>2, AppendElements
  <2> QED BY <1>3, <2>5, <2>7 DEF RunTask, TypeOK
<1>4. micro # <<>> => /\ Tail(micro) \in Seq(Task)
                      /\ \A n \in DOMAIN Tail(micro) : Tail(micro)[n].server \in DOMAIN servers
  BY <1>0, TailElements
<1>5. ASSUME ServerRunTask PROVE TypeOK'
  <2> DEFINE s == Head(micro).server
  <2>0. s \in DOMAIN servers /\ servers[s] \in Server
    BY <1>0, <1>5, TailElements DEF ServerRunTask, NextTask
  <2>1. servers' = [servers EXCEPT ![s] = [servers[s] EXCEPT !.ready = TRUE]]
    BY <1>5 DEF ServerRunTask
  <2>2. [servers[s] EXCEPT !.ready = TRUE] \in Server
    BY <2>0 DEF Server
  <2> HIDE DEF s
  <2>3. servers' \in Seq(Server) /\ DOMAIN servers' = DOMAIN servers
    BY <1>0, <2>0, <2>1, <2>2, ReplacedElement
  <2> QED BY <1>4, <1>5, <2>3 DEF ServerRunTask, NextTask, TypeOK
<1>6. ASSUME CallerTask PROVE TypeOK'
  BY <1>4, <1>6 DEF CallerTask, NextTask, TypeOK
<1>7. ASSUME NEW i \in DOMAIN attempts, Listening(i) \/ BindFails(i) \/ SocketFails(i)
      PROVE  TypeOK'
  <2>2. /\ attempts' \in Seq(Attempt) /\ DOMAIN attempts' = DOMAIN attempts
        /\ \A j \in DOMAIN attempts : attempts'[j].server = attempts[j].server
    BY <1>0, <1>7, SocketEvent
  <2>3. running' \in BOOLEAN
    BY <1>7, Zenon DEF Listening, BindFails, SocketFails, TypeOK
  <2> QED BY <1>0, <1>7, <2>2, <2>3 DEF Listening, BindFails, SocketFails, TypeOK
<1>8. ASSUME UNCHANGED vars PROVE TypeOK'
  BY <1>8 DEF vars, TypeOK
<1> QED BY <1>1, <1>2, <1>3, <1>5, <1>6, <1>7, <1>8 DEF Next

\* The fields of NodeBERakNet and its servers keep their types.
THEOREM StartupTypeCorrect == Spec => []TypeOK
BY StartupInit, StartupTypes, PTL DEF Spec

-----------------------------------------------------------------------------

\* The latest server is ready, or a task is queued that will see to it: one
\* that is about to read this.server, or its own.
LatestDue ==
  servers # <<>> =>
    \/ servers[Len(servers)].ready
    \/ \E n \in DOMAIN micro :
         \/ micro[n].task = "run"
         \/ micro[n].task = "serverRun" /\ micro[n].server = Len(servers)

\* The server of a queued caller is ready, or becomes so before it is resumed.
CallersDue ==
  \A n \in DOMAIN micro :
    micro[n].task = "caller" =>
      /\ ready
      /\ \/ servers[micro[n].server].ready
         \/ \E m \in DOMAIN micro :
              m < n /\ micro[m].task = "serverRun" /\ micro[m].server = micro[n].server

Flags == /\ (ready => servers # <<>>) /\ LatestDue /\ CallersDue

\* What is due when a task is taken off and nothing but it changes.
LEMMA FlagsPreserved ==
  ASSUME TypeOK, Flags, [Next]_vars PROVE Flags'
<1>0. /\ servers \in Seq(Server) /\ micro \in Seq(Task) /\ attempts \in Seq(Attempt)
      /\ Len(servers) \in Nat /\ DOMAIN servers = 1 .. Len(servers)
      /\ Len(micro) \in Nat /\ DOMAIN micro = 1 .. Len(micro)
      /\ \A n \in DOMAIN micro : micro[n] \in Task /\ micro[n].server \in DOMAIN servers
  BY DEF TypeOK
<1>1. ASSUME NEW port \in Ports, Call(port) PROVE Flags'
  <2>1. CASE ~nodeOk
    BY <1>1, <2>1 DEF Call, Flags, LatestDue, CallersDue
  <2>2. CASE nodeOk
    <3> DEFINE new == [port |-> port, ready |-> FALSE]
               task == [task |-> "run", server |-> Len(servers) + 1]
    <3>1. new \in Server /\ task \in Task /\ task.task = "run"
      BY <1>0 DEF Server, Task
    <3>2. servers' = Append(servers, new) /\ micro' = Append(micro, task) /\ ready' = ready
      BY <1>1, <2>2 DEF Call
    <3> HIDE DEF new, task
    <3>3. /\ DOMAIN servers' = DOMAIN servers \cup {Len(servers) + 1} /\ servers' # <<>>
          /\ \A s \in DOMAIN servers : servers'[s] = servers[s]
      BY <1>0, <3>1, <3>2, AppendElements
    <3>4. /\ DOMAIN micro' = DOMAIN micro \cup {Len(micro) + 1}
          /\ \A n \in DOMAIN micro : micro'[n] = micro[n]
          /\ micro'[Len(micro) + 1].task = "run"
      BY <1>0, <3>1, <3>2, AppendElements
    <3>5. LatestDue'
      BY <3>4 DEF LatestDue
    <3>6. CallersDue'
      <4> SUFFICES ASSUME NEW n \in DOMAIN micro', micro'[n].task = "caller"
                   PROVE  /\ ready'
                          /\ \/ servers'[micro'[n].server].ready
                             \/ \E m \in DOMAIN micro' :
                                  m < n /\ micro'[m].task = "serverRun" /\ micro'[m].server = micro'[n].server
        BY DEF CallersDue
      <4>1. n \in DOMAIN micro /\ micro'[n] = micro[n]
        BY <3>4
      <4>2. servers'[micro'[n].server] = servers[micro[n].server]
        BY <1>0, <3>3, <4>1
      <4> QED BY <3>2, <3>4, <4>1, <4>2 DEF Flags, CallersDue
    <3> QED BY <3>3, <3>5, <3>6 DEF Flags
  <2> QED BY <2>1, <2>2
<1>2. ASSUME micro # <<>> PROVE
        /\ DOMAIN Tail(micro) = 1 .. Len(micro) - 1 /\ Tail(micro) \in Seq(Task)
        /\ 1 \in DOMAIN micro /\ Head(micro) = micro[1]
        /\ \A n \in DOMAIN Tail(micro) : n + 1 \in DOMAIN micro /\ Tail(micro)[n] = micro[n + 1]
        /\ \A n \in DOMAIN micro : n # 1 => (n - 1 \in DOMAIN Tail(micro) /\ Tail(micro)[n - 1] = micro[n])
  BY <1>0, <1>2, TailElements
<1>3. ASSUME RunTask PROVE Flags'
  <2>0. /\ micro # <<>> /\ micro[1].task = "run" /\ servers' = servers /\ ready' = TRUE
        /\ Len(servers) \in DOMAIN servers /\ servers # <<>>
    <3>1. micro # <<>> /\ Head(micro).task = "run" /\ servers' = servers /\ ready' = TRUE
      BY <1>3 DEF RunTask, NextTask
    <3>2. micro[1].server \in DOMAIN servers
      BY <1>0, <1>2, <3>1
    <3> QED BY <1>0, <1>2, <3>1, <3>2
  <2> DEFINE e == [task |-> "serverRun", server |-> Len(servers)]
             f == [task |-> "caller", server |-> Len(servers)]
             q == Append(Tail(micro), e)
             k == Len(micro) - 1
  <2>1. micro' = Append(q, f)
    BY <1>3 DEF RunTask, ThisServer, Resume, ResumeServer, Resolve
  <2>2. /\ e \in Task /\ e.task = "serverRun" /\ e.server = Len(servers)
        /\ f \in Task /\ f.task = "caller" /\ f.server = Len(servers)
    BY <1>0 DEF Task
  <2>3. k \in Nat /\ Len(Tail(micro)) = k
    BY <1>0, <1>2, <2>0
  <2> HIDE DEF e, f
  <2>4. /\ q \in Seq(Task) /\ DOMAIN q = DOMAIN Tail(micro) \cup {k + 1} /\ Len(q) = k + 1
        /\ q[k + 1] = e /\ \A n \in DOMAIN Tail(micro) : q[n] = Tail(micro)[n]
    BY <1>2, <2>0, <2>2, <2>3, AppendElements
  <2> HIDE DEF q, k
  <2>5. /\ DOMAIN micro' = DOMAIN Tail(micro) \cup {k + 1, k + 2}
        /\ micro'[k + 1] = e /\ micro'[k + 2] = f
        /\ \A n \in DOMAIN Tail(micro) : micro'[n] = Tail(micro)[n]
    <3>1. /\ DOMAIN micro' = DOMAIN q \cup {Len(q) + 1} /\ micro'[Len(q) + 1] = f
          /\ \A n \in DOMAIN q : micro'[n] = q[n]
      BY <2>1, <2>2, <2>4, AppendElements
    <3>2. Len(q) + 1 = k + 2
      BY <2>3, <2>4
    <3> QED BY <2>4, <3>1, <3>2
  <2>6. LatestDue'
    BY <2>0, <2>2, <2>5 DEF LatestDue
  <2>7. CallersDue'
    <3> SUFFICES ASSUME NEW n \in DOMAIN micro', micro'[n].task = "caller"
                 PROVE  /\ ready'
                        /\ \/ servers'[micro'[n].server].ready
                           \/ \E m \in DOMAIN micro' :
                                m < n /\ micro'[m].task = "serverRun" /\ micro'[m].server = micro'[n].server
      BY DEF CallersDue
    <3>1. CASE n = k + 2
      BY <2>0, <2>2, <2>3, <2>5, <3>1
    <3>2. CASE n = k + 1
      BY <2>2, <2>5, <3>2
    <3>3. CASE n \in DOMAIN Tail(micro)
      <4>1. n + 1 \in DOMAIN micro /\ micro'[n] = micro[n + 1]
        BY <1>2, <2>0, <2>5, <3>3
      <4>2. CASE servers[micro[n + 1].server].ready
        BY <2>0, <4>1, <4>2
      <4>3. CASE ~servers[micro[n + 1].server].ready
        <5>1. PICK m \in DOMAIN micro :
                m < n + 1 /\ micro[m].task = "serverRun" /\ micro[m].server = micro[n + 1].server
          BY <4>1, <4>3 DEF Flags, CallersDue
        <5>2. m # 1 /\ m - 1 < n
          BY <1>0, <1>2, <2>0, <3>3, <5>1
        <5>3. m - 1 \in DOMAIN micro' /\ micro'[m - 1] = micro[m]
          BY <1>2, <2>0, <2>5, <5>2
        <5> QED BY <2>0, <4>1, <5>1, <5>2, <5>3
      <4> QED BY <4>2, <4>3
    <3> QED BY <2>5, <3>1, <3>2, <3>3
  <2> QED BY <2>0, <2>6, <2>7 DEF Flags
<1>4. ASSUME ServerRunTask PROVE Flags'
  <2> DEFINE h == micro[1].server
  <2>0. /\ micro # <<>> /\ micro[1].task = "serverRun" /\ micro' = Tail(micro) /\ ready' = ready
        /\ servers' = [servers EXCEPT ![h].ready = TRUE]
    BY <1>2, <1>4 DEF ServerRunTask, NextTask
  <2>1. h \in DOMAIN servers /\ servers[h] \in Server /\ h = micro[1].server
        /\ Len(servers) \in DOMAIN servers
    <3>1. h \in DOMAIN servers
      BY <1>0, <1>2, <2>0
    <3> HIDE DEF h
    <3>2. servers[h] \in Server /\ Len(servers) \in DOMAIN servers
      BY <1>0, <3>1
    <3> QED BY <3>1, <3>2 DEF h
  <2>2. /\ DOMAIN servers' = DOMAIN servers /\ Len(servers') = Len(servers) /\ servers' # <<>>
        /\ servers'[h].ready /\ \A s \in DOMAIN servers : servers[s].ready => servers'[s].ready
    <3>1. [servers[h] EXCEPT !.ready = TRUE] \in Server /\ [servers[h] EXCEPT !.ready = TRUE].ready
      <4> HIDE DEF h
      <4> QED BY <2>1 DEF Server
    <3>2. servers' = [servers EXCEPT ![h] = [servers[h] EXCEPT !.ready = TRUE]]
      BY <2>0
    <3> HIDE DEF h
    <3>3. /\ servers' \in Seq(Server) /\ DOMAIN servers' = DOMAIN servers
          /\ servers'[h].ready /\ \A s \in DOMAIN servers : s # h => servers'[s] = servers[s]
      BY <1>0, <2>1, <3>1, <3>2, ReplacedElement
    <3>4. \A s \in DOMAIN servers : servers[s].ready => servers'[s].ready
      BY <3>3
    <3>5. Len(servers') = Len(servers)
      BY <1>0, <3>3
    <3>6. servers' # <<>>
      BY <2>1, <3>3
    <3> QED BY <3>3, <3>4, <3>5, <3>6
  <2>3. LatestDue'
    <3>1. CASE servers[Len(servers)].ready
      <4>1. servers'[Len(servers')].ready
        BY <2>1, <2>2, <3>1
      <4> QED BY <4>1 DEF LatestDue
    <3>2. CASE ~servers[Len(servers)].ready
      <4>1. PICK n \in DOMAIN micro :
              \/ micro[n].task = "run"
              \/ micro[n].task = "serverRun" /\ micro[n].server = Len(servers)
        BY <2>1, <3>2 DEF Flags, LatestDue
      <4>2. CASE n = 1
        BY <2>0, <2>2, <4>1, <4>2 DEF LatestDue
      <4>3. CASE n # 1
        <5>1. n - 1 \in DOMAIN micro' /\ micro'[n - 1] = micro[n]
          BY <1>2, <2>0, <4>3
        <5>2. Len(servers') = Len(servers)
          BY <2>2
        <5> QED BY <4>1, <5>1, <5>2, Zenon DEF LatestDue
      <4> QED BY <4>2, <4>3
    <3> QED BY <3>1, <3>2
  <2>4. CallersDue'
    <3> SUFFICES ASSUME NEW n \in DOMAIN micro', micro'[n].task = "caller"
                 PROVE  /\ ready'
                        /\ \/ servers'[micro'[n].server].ready
                           \/ \E m \in DOMAIN micro' :
                                m < n /\ micro'[m].task = "serverRun" /\ micro'[m].server = micro'[n].server
      BY DEF CallersDue
    <3>1. n + 1 \in DOMAIN micro /\ micro'[n] = micro[n + 1] /\ micro[n + 1].server \in DOMAIN servers
      BY <1>0, <1>2, <2>0
    <3>2. CASE servers[micro[n + 1].server].ready
      BY <2>0, <2>2, <3>1, <3>2 DEF Flags, CallersDue
    <3>3. CASE ~servers[micro[n + 1].server].ready
      <4>1. PICK m \in DOMAIN micro :
              m < n + 1 /\ micro[m].task = "serverRun" /\ micro[m].server = micro[n + 1].server
        BY <3>1, <3>3 DEF Flags, CallersDue
      <4>2. ready'
        BY <2>0, <3>1 DEF Flags, CallersDue
      <4>3. CASE m = 1
        BY <2>2, <3>1, <4>1, <4>2, <4>3
      <4>4. CASE m # 1
        <5>1. m - 1 \in DOMAIN micro' /\ micro'[m - 1] = micro[m] /\ m - 1 < n
          BY <1>0, <1>2, <2>0, <4>1, <4>4
        <5> QED BY <3>1, <4>1, <4>2, <5>1
      <4> QED BY <4>3, <4>4
    <3> QED BY <3>2, <3>3
  <2> QED BY <2>0, <2>2, <2>3, <2>4 DEF Flags
<1>5. ASSUME CallerTask PROVE Flags'
  <2>0. /\ micro # <<>> /\ micro[1].task = "caller" /\ micro' = Tail(micro)
        /\ servers' = servers /\ ready' = ready
    BY <1>2, <1>5 DEF CallerTask, NextTask
  <2>1. LatestDue'
    BY <1>2, <2>0 DEF Flags, LatestDue
  <2>2. CallersDue'
    <3> SUFFICES ASSUME NEW n \in DOMAIN micro', micro'[n].task = "caller"
                 PROVE  /\ ready'
                        /\ \/ servers'[micro'[n].server].ready
                           \/ \E m \in DOMAIN micro' :
                                m < n /\ micro'[m].task = "serverRun" /\ micro'[m].server = micro'[n].server
      BY DEF CallersDue
    <3>1. n + 1 \in DOMAIN micro /\ micro'[n] = micro[n + 1]
      BY <1>2, <2>0
    <3>2. CASE servers[micro[n + 1].server].ready
      BY <2>0, <3>1, <3>2 DEF Flags, CallersDue
    <3>3. CASE ~servers[micro[n + 1].server].ready
      <4>1. PICK m \in DOMAIN micro :
              m < n + 1 /\ micro[m].task = "serverRun" /\ micro[m].server = micro[n + 1].server
        BY <3>1, <3>3 DEF Flags, CallersDue
      <4>2. m # 1 /\ m - 1 < n
        BY <1>0, <2>0, <4>1
      <4>3. m - 1 \in DOMAIN micro' /\ micro'[m - 1] = micro[m]
        BY <1>2, <2>0, <4>2
      <4> QED BY <2>0, <3>1, <4>1, <4>2, <4>3 DEF Flags, CallersDue
    <3> QED BY <3>2, <3>3
  <2> QED BY <2>0, <2>1, <2>2 DEF Flags
<1>6. ASSUME \/ EndTurn \/ UNCHANGED vars
             \/ \E i \in DOMAIN attempts : Listening(i) \/ BindFails(i) \/ SocketFails(i)
      PROVE  Flags'
  <2>1. UNCHANGED <<servers, micro, ready>>
    BY <1>6 DEF EndTurn, Listening, BindFails, SocketFails, vars
  <2> QED BY <2>1 DEF Flags, LatestDue, CallersDue
<1> QED BY <1>1, <1>3, <1>4, <1>5, <1>6 DEF Next

\* The flags are due or set, always.
LEMMA FlagsCorrect == Spec => [](TypeOK /\ Flags)
<1>1. Init => Flags
  <2> SUFFICES ASSUME Init PROVE Flags
    OBVIOUS
  <2>1. DOMAIN micro = {} /\ servers = <<>> /\ ready = FALSE
    BY DEF Init
  <2> QED BY <2>1 DEF Flags, LatestDue, CallersDue
<1>2. TypeOK /\ Flags /\ [Next]_vars => Flags'
  BY FlagsPreserved
<1> QED BY <1>1, <1>2, StartupInit, StartupTypes, PTL DEF Spec

\* Whenever the event loop is idle, a ready NodeBERakNet has a ready server:
\* with no task queued, none is due.
THEOREM AlwaysReadyTogether == Spec => []ReadyTogether
<1>1. TypeOK /\ Flags => ReadyTogether
  <2> SUFFICES ASSUME TypeOK, Flags, Idle, ready
               PROVE  servers # <<>> /\ servers[Len(servers)].ready
    BY DEF ReadyTogether
  <2>1. DOMAIN micro = {}
    BY DEF Idle
  <2> QED BY <2>1 DEF Flags, LatestDue
<1> QED BY <1>1, FlagsCorrect, PTL

\* A caller that awaited run is resumed behind the task that readies its server.
THEOREM AlwaysFindsReady == Spec => []CallerFindsReady
<1>1. TypeOK /\ Flags => CallerFindsReady
  <2> SUFFICES ASSUME TypeOK, Flags, NEW n \in DOMAIN micro, micro[n].task = "caller"
               PROVE  ready /\ (n = 1 => servers[micro[n].server].ready)
    BY DEF CallerFindsReady
  <2>1. DOMAIN micro = 1 .. Len(micro) /\ Len(micro) \in Nat
    BY DEF TypeOK
  <2>2. ~ \E m \in DOMAIN micro : m < 1
    BY <2>1
  <2> QED BY <2>2 DEF Flags, CallersDue
<1> QED BY <1>1, FlagsCorrect, PTL

-----------------------------------------------------------------------------

RunsFirst == \A n, m \in DOMAIN micro : n < m /\ micro[m].task = "run" => micro[n].task = "run"
RunsLast == \A n, m \in DOMAIN micro : n < m /\ micro[n].task = "run" => micro[m].task = "run"

\* Calls of one turn wait side by side: before or behind all other tasks, and
\* behind them while a turn may add one.
Shape == (RunsFirst /\ ~turn) \/ RunsLast

\* The calls that wait are those after the attempts, in order.
RunsWait ==
  /\ Len(attempts) <= Len(servers)
  /\ \A s \in Len(attempts) + 1 .. Len(servers) :
       \E n \in DOMAIN micro : micro[n].task = "run" /\ micro[n].server = s
  /\ \A n \in DOMAIN micro : micro[n].task = "run" => Len(attempts) < micro[n].server
  /\ \A n, m \in DOMAIN micro :
       n < m /\ micro[n].task = "run" /\ micro[m].task = "run" => micro[n].server < micro[m].server

\* An attempt whose server is further than the attempts have come waits for
\* calls that are next, all of them.
AttemptsReach ==
  \A i \in DOMAIN attempts :
    /\ i <= attempts[i].server
    /\ \A j \in DOMAIN attempts :
         i <= j /\ j <= attempts[i].server => attempts[j].server = attempts[i].server
    /\ Len(attempts) < attempts[i].server
         => attempts[i].server = Len(servers) /\ RunsFirst /\ ~turn

Overlap == Shape /\ RunsWait /\ AttemptsReach

\* Nothing of it depends on more than these four variables.
LEMMA OverlapUnchanged ==
  ASSUME Overlap, UNCHANGED <<micro, turn, attempts, servers>> PROVE Overlap'
BY DEF Overlap, Shape, RunsFirst, RunsLast, RunsWait, AttemptsReach

\* Only who an attempt was for matters, and how many servers there are.
LEMMA OverlapSameServers ==
  ASSUME Overlap, UNCHANGED <<micro, turn>>, Len(servers') = Len(servers),
         Len(attempts') = Len(attempts), DOMAIN attempts' = DOMAIN attempts,
         \A i \in DOMAIN attempts : attempts'[i].server = attempts[i].server
  PROVE  Overlap'
BY DEF Overlap, Shape, RunsFirst, RunsLast, RunsWait, AttemptsReach

\* A task that is no call is taken off; if it resumes a caller, a turn begins.
LEMMA OverlapTail ==
  ASSUME TypeOK, Overlap, micro # <<>>, micro[1].task # "run", ~turn, micro' = Tail(micro),
         attempts' = attempts, Len(servers') = Len(servers), turn' \in BOOLEAN
  PROVE  Overlap'
<1>0. /\ Len(micro) \in Nat /\ DOMAIN micro = 1 .. Len(micro) /\ 1 \in DOMAIN micro
      /\ Len(attempts) \in Nat /\ DOMAIN attempts = 1 .. Len(attempts)
      /\ Len(servers) \in Nat /\ DOMAIN servers = 1 .. Len(servers)
      /\ \A i \in DOMAIN attempts : attempts[i].server \in DOMAIN servers
      /\ \A n \in DOMAIN micro : micro[n].server \in DOMAIN servers
  <2>1. micro \in Seq(Task) /\ attempts \in Seq(Attempt) /\ servers \in Seq(Server)
    BY DEF TypeOK
  <2> QED BY <2>1 DEF TypeOK
<1>1. /\ DOMAIN micro' = 1 .. Len(micro) - 1
      /\ \A n \in DOMAIN micro' : n + 1 \in DOMAIN micro /\ micro'[n] = micro[n + 1]
      /\ \A n \in DOMAIN micro : n # 1 => (n - 1 \in DOMAIN micro' /\ micro'[n - 1] = micro[n])
  <2>1. micro \in Seq(Task)
    BY DEF TypeOK
  <2> QED BY <2>1, TailElements
<1>2. RunsLast'
  <2>1. CASE RunsLast
    BY <1>0, <1>1, <2>1 DEF RunsLast
  <2>2. CASE RunsFirst
    <3>1. \A m \in DOMAIN micro : m # 1 => micro[m].task # "run"
      BY <1>0, <2>2 DEF RunsFirst
    <3> QED BY <1>0, <1>1, <3>1 DEF RunsLast
  <2> QED BY <2>1, <2>2 DEF Overlap, Shape
<1>3. RunsWait'
  <2>1. \A s \in Len(attempts) + 1 .. Len(servers) :
          \E n \in DOMAIN micro' : micro'[n].task = "run" /\ micro'[n].server = s
    <3> SUFFICES ASSUME NEW s \in Len(attempts) + 1 .. Len(servers)
                 PROVE  \E n \in DOMAIN micro' : micro'[n].task = "run" /\ micro'[n].server = s
      OBVIOUS
    <3>1. PICK n \in DOMAIN micro : micro[n].task = "run" /\ micro[n].server = s
      BY DEF Overlap, RunsWait
    <3>2. n - 1 \in DOMAIN micro' /\ micro'[n - 1] = micro[n]
      BY <1>1, <3>1
    <3> QED BY <3>1, <3>2
  <2>2. \A n \in DOMAIN micro' : micro'[n].task = "run" => Len(attempts) < micro'[n].server
    BY <1>1 DEF Overlap, RunsWait
  <2>3. \A n, m \in DOMAIN micro' :
          n < m /\ micro'[n].task = "run" /\ micro'[m].task = "run" => micro'[n].server < micro'[m].server
    <3> SUFFICES ASSUME NEW n \in DOMAIN micro', NEW m \in DOMAIN micro',
                        n < m, micro'[n].task = "run", micro'[m].task = "run"
                 PROVE  micro'[n].server < micro'[m].server
      OBVIOUS
    <3>1. n + 1 < m + 1
      BY <1>1
    <3> QED BY <1>1, <3>1 DEF Overlap, RunsWait
  <2> QED BY <2>1, <2>2, <2>3 DEF Overlap, RunsWait
<1>4. \A i \in DOMAIN attempts : ~(Len(attempts) < attempts[i].server)
  <2> SUFFICES ASSUME NEW i \in DOMAIN attempts, Len(attempts) < attempts[i].server PROVE FALSE
    OBVIOUS
  <2>1. RunsFirst /\ attempts[i].server \in Len(attempts) + 1 .. Len(servers)
    BY <1>0 DEF Overlap, AttemptsReach
  <2>2. PICK n \in DOMAIN micro : micro[n].task = "run"
    BY <2>1 DEF Overlap, RunsWait
  <2> QED BY <1>0, <2>1, <2>2 DEF RunsFirst
<1>5. AttemptsReach'
  BY <1>4 DEF Overlap, AttemptsReach
<1> QED BY <1>2, <1>3, <1>5 DEF Overlap, Shape

\* The next call is taken off, and its attempt goes to the last server.
LEMMA OverlapRun ==
  ASSUME TypeOK, Overlap, RunTask PROVE Overlap'
<1>0. /\ Len(micro) \in Nat /\ DOMAIN micro = 1 .. Len(micro)
      /\ Len(attempts) \in Nat /\ DOMAIN attempts = 1 .. Len(attempts)
      /\ Len(servers) \in Nat /\ DOMAIN servers = 1 .. Len(servers)
      /\ \A i \in DOMAIN attempts : attempts[i].server \in DOMAIN servers
      /\ \A n \in DOMAIN micro : micro[n].server \in DOMAIN servers
      /\ micro \in Seq(Task) /\ attempts \in Seq(Attempt)
  <2>1. micro \in Seq(Task) /\ attempts \in Seq(Attempt) /\ servers \in Seq(Server)
    BY DEF TypeOK
  <2> QED BY <2>1 DEF TypeOK
<1>1. micro # <<>> /\ Head(micro).task = "run" /\ ~turn /\ turn' = turn /\ servers' = servers
  BY DEF RunTask, NextTask
<1>2. /\ 1 \in DOMAIN micro /\ micro[1].task = "run"
      /\ Tail(micro) \in Seq(Task) /\ DOMAIN Tail(micro) = 1 .. Len(micro) - 1
      /\ \A n \in DOMAIN Tail(micro) : n + 1 \in DOMAIN micro /\ Tail(micro)[n] = micro[n + 1]
      /\ \A n \in DOMAIN micro : n # 1 => (n - 1 \in DOMAIN Tail(micro) /\ Tail(micro)[n - 1] = micro[n])
  BY <1>0, <1>1, TailElements
<1> DEFINE k == Len(attempts) + 1
           L == Len(servers)
<1>3. RunsFirst
  BY <1>0, <1>2 DEF Overlap, Shape, RunsFirst, RunsLast
<1>4. micro[1].server = k /\ k <= L
  <2>1. Len(attempts) < micro[1].server /\ micro[1].server \in 1 .. L
    BY <1>0, <1>2 DEF Overlap, RunsWait
  <2>2. PICK n \in DOMAIN micro : micro[n].task = "run" /\ micro[n].server = k
    BY <1>0, <2>1 DEF Overlap, RunsWait
  <2>3. n # 1 => micro[1].server < k
    BY <1>0, <1>2, <2>2 DEF Overlap, RunsWait
  <2> QED BY <1>0, <2>1, <2>2, <2>3
<1>5. PICK new \in Attempt : new.server = L /\ attempts' = Append(attempts, new)
  <2>1. PICK sock \in {"none", "binding"} : attempts' = Attempted(Len(servers), sock)
    BY DEF RunTask, ThisServer
  <2>2. NewAttempt(L, sock) \in Attempt /\ NewAttempt(L, sock).server = L
    BY <1>0 DEF NewAttempt, Attempt
  <2> QED BY <2>1, <2>2 DEF Attempted
<1>6. /\ DOMAIN attempts' = DOMAIN attempts \cup {k} /\ Len(attempts') = k
      /\ attempts'[k].server = L /\ \A i \in DOMAIN attempts : attempts'[i] = attempts[i]
  BY <1>0, <1>5, AppendElements
<1>7. PICK e \in Task, f \in Task :
        e.task = "serverRun" /\ f.task = "caller" /\ micro' = Append(Append(Tail(micro), e), f)
  <2>1. micro' = Resume(Tail(micro), L, "binding")
    BY DEF RunTask, ThisServer, Resume, ResumeServer, Resolve
  <2>2. /\ [task |-> "serverRun", server |-> L] \in Task /\ [task |-> "caller", server |-> L] \in Task
        /\ [task |-> "serverRun", server |-> L].task = "serverRun"
        /\ [task |-> "caller", server |-> L].task = "caller"
    BY <1>0 DEF Task
  <2> QED BY <2>1, <2>2 DEF Resume, ResumeServer, Resolve
<1> DEFINE t == Len(micro) - 1
<1>8. /\ DOMAIN micro' = DOMAIN Tail(micro) \cup {t + 1, t + 2} /\ t \in Nat
      /\ \A n \in DOMAIN Tail(micro) : micro'[n] = Tail(micro)[n]
      /\ micro'[t + 1].task # "run" /\ micro'[t + 2].task # "run"
  <2> DEFINE q == Append(Tail(micro), e)
  <2>0. t \in Nat /\ Len(Tail(micro)) = t
    BY <1>0, <1>2
  <2> HIDE DEF t
  <2>1. /\ q \in Seq(Task) /\ DOMAIN q = DOMAIN Tail(micro) \cup {t + 1} /\ Len(q) = t + 1
        /\ q[t + 1] = e /\ \A n \in DOMAIN Tail(micro) : q[n] = Tail(micro)[n]
    BY <1>2, <2>0, AppendElements
  <2>2. micro' = Append(q, f) /\ Len(q) + 1 = t + 2
    BY <1>7, <2>0, <2>1
  <2> HIDE DEF q
  <2>3. /\ DOMAIN micro' = DOMAIN q \cup {Len(q) + 1} /\ micro'[Len(q) + 1] = f
        /\ \A n \in DOMAIN q : micro'[n] = q[n]
    BY <2>1, <2>2, AppendElements
  <2>4. t + 1 \in DOMAIN q
    BY <2>1
  <2> QED BY <1>7, <2>0, <2>1, <2>2, <2>3, <2>4
<1>9. \A n \in DOMAIN micro' : micro'[n].task = "run" =>
        n \in DOMAIN Tail(micro) /\ n + 1 \in DOMAIN micro /\ micro'[n] = micro[n + 1]
  BY <1>2, <1>8
<1>10. RunsFirst'
  <2> SUFFICES ASSUME NEW n \in DOMAIN micro', NEW m \in DOMAIN micro', n < m, micro'[m].task = "run"
               PROVE  micro'[n].task = "run"
    BY DEF RunsFirst
  <2>1. m \in DOMAIN Tail(micro) /\ m + 1 \in DOMAIN micro /\ micro'[m] = micro[m + 1]
    BY <1>9
  <2>2. n \in DOMAIN Tail(micro)
    BY <1>2, <1>8, <2>1
  <2>3. n + 1 \in DOMAIN micro /\ micro'[n] = micro[n + 1] /\ n + 1 < m + 1
    BY <1>2, <1>8, <2>1, <2>2
  <2> QED BY <1>3, <2>1, <2>3 DEF RunsFirst
<1>11. RunsWait'
  <2>1. \A s \in k + 1 .. L : \E n \in DOMAIN micro' : micro'[n].task = "run" /\ micro'[n].server = s
    <3> SUFFICES ASSUME NEW s \in k + 1 .. L
                 PROVE  \E n \in DOMAIN micro' : micro'[n].task = "run" /\ micro'[n].server = s
      OBVIOUS
    <3>1. PICK n \in DOMAIN micro : micro[n].task = "run" /\ micro[n].server = s
      BY <1>0 DEF Overlap, RunsWait
    <3>2. n # 1
      BY <1>0, <1>4, <3>1
    <3>3. n - 1 \in DOMAIN micro' /\ micro'[n - 1] = micro[n]
      BY <1>2, <1>8, <3>2
    <3> QED BY <3>1, <3>3
  <2>2. \A n \in DOMAIN micro' : micro'[n].task = "run" => k < micro'[n].server
    <3> SUFFICES ASSUME NEW n \in DOMAIN micro', micro'[n].task = "run" PROVE k < micro'[n].server
      OBVIOUS
    <3>1. n + 1 \in DOMAIN micro /\ micro'[n] = micro[n + 1] /\ 1 < n + 1
      BY <1>2, <1>9
    <3> QED BY <1>2, <1>4, <3>1 DEF Overlap, RunsWait
  <2>3. \A n, m \in DOMAIN micro' :
          n < m /\ micro'[n].task = "run" /\ micro'[m].task = "run" => micro'[n].server < micro'[m].server
    <3> SUFFICES ASSUME NEW n \in DOMAIN micro', NEW m \in DOMAIN micro',
                        n < m, micro'[n].task = "run", micro'[m].task = "run"
                 PROVE  micro'[n].server < micro'[m].server
      OBVIOUS
    <3>1. /\ n + 1 \in DOMAIN micro /\ micro'[n] = micro[n + 1]
          /\ m + 1 \in DOMAIN micro /\ micro'[m] = micro[m + 1] /\ n + 1 < m + 1
      BY <1>2, <1>9
    <3> QED BY <3>1 DEF Overlap, RunsWait
  <2> QED BY <1>1, <1>4, <1>6, <2>1, <2>2, <2>3 DEF RunsWait
<1>12. AttemptsReach'
  <2>1. \A i \in DOMAIN attempts : k <= attempts[i].server => attempts[i].server = L
    BY <1>0 DEF Overlap, AttemptsReach
  <2> SUFFICES ASSUME NEW i \in DOMAIN attempts'
               PROVE  /\ i <= attempts'[i].server
                      /\ \A j \in DOMAIN attempts' :
                           i <= j /\ j <= attempts'[i].server => attempts'[j].server = attempts'[i].server
                      /\ Len(attempts') < attempts'[i].server
                           => attempts'[i].server = Len(servers') /\ RunsFirst' /\ ~turn'
    BY DEF AttemptsReach
  <2>2. CASE i = k
    <3>1. \A j \in DOMAIN attempts' : i <= j => j = k
      BY <1>0, <1>6, <2>2
    <3> QED BY <1>1, <1>4, <1>6, <1>10, <2>2, <3>1
  <2>3. CASE i \in DOMAIN attempts
    <3>1. i <= attempts'[i].server /\ attempts'[i] = attempts[i]
      BY <1>6, <2>3 DEF Overlap, AttemptsReach
    <3>2. ASSUME NEW j \in DOMAIN attempts', i <= j, j <= attempts'[i].server
          PROVE  attempts'[j].server = attempts'[i].server
      <4>1. CASE j \in DOMAIN attempts
        BY <1>6, <2>3, <3>1, <3>2, <4>1 DEF Overlap, AttemptsReach
      <4>2. CASE j = k
        BY <1>6, <2>1, <2>3, <3>1, <3>2, <4>2
      <4> QED BY <1>6, <4>1, <4>2
    <3>3. Len(attempts') < attempts'[i].server => attempts'[i].server = L
      <4>1. k < attempts[i].server => k <= attempts[i].server
        BY <1>0, <2>3
      <4> QED BY <1>6, <2>1, <2>3, <3>1, <4>1
    <3> QED BY <1>1, <1>10, <3>1, <3>2, <3>3
  <2> QED BY <1>6, <2>2, <2>3
<1> QED BY <1>1, <1>10, <1>11, <1>12 DEF Overlap, Shape

\* A call is added behind all tasks, by a turn or with nothing queued.
LEMMA OverlapCall ==
  ASSUME TypeOK, Overlap, NEW port \in Ports, Call(port) PROVE Overlap'
<1>0. /\ Len(micro) \in Nat /\ DOMAIN micro = 1 .. Len(micro)
      /\ Len(attempts) \in Nat /\ DOMAIN attempts = 1 .. Len(attempts)
      /\ Len(servers) \in Nat /\ DOMAIN servers = 1 .. Len(servers)
      /\ \A i \in DOMAIN attempts : attempts[i].server \in DOMAIN servers
      /\ \A n \in DOMAIN micro : micro[n].server \in DOMAIN servers
      /\ micro \in Seq(Task) /\ attempts \in Seq(Attempt) /\ servers \in Seq(Server)
  <2>1. micro \in Seq(Task) /\ attempts \in Seq(Attempt) /\ servers \in Seq(Server)
    BY DEF TypeOK
  <2> QED BY <2>1 DEF TypeOK
<1>1. attempts' = attempts /\ turn' = TRUE /\ (turn \/ micro = <<>>)
  BY DEF Call
<1>2. \A i \in DOMAIN attempts : ~(Len(attempts) < attempts[i].server)
  <2> SUFFICES ASSUME NEW i \in DOMAIN attempts, Len(attempts) < attempts[i].server PROVE FALSE
    OBVIOUS
  <2>1. ~turn /\ attempts[i].server \in Len(attempts) + 1 .. Len(servers)
    BY <1>0 DEF Overlap, AttemptsReach
  <2>2. \E n \in DOMAIN micro : micro[n].task = "run"
    BY <2>1 DEF Overlap, RunsWait
  <2> QED BY <1>0, <1>1, <2>1, <2>2
<1>3. AttemptsReach'
  BY <1>1, <1>2 DEF Overlap, AttemptsReach
<1>4. RunsLast
  BY <1>0, <1>1 DEF Overlap, Shape, RunsLast
<1>5. CASE ~nodeOk
  <2>1. servers' = servers /\ micro' = micro
    BY <1>5 DEF Call
  <2> QED BY <1>1, <1>3, <1>4, <2>1 DEF Overlap, Shape, RunsLast, RunsWait
<1>6. CASE nodeOk
  <2> DEFINE new == [port |-> port, ready |-> FALSE]
             task == [task |-> "run", server |-> Len(servers) + 1]
             k == Len(micro) + 1
  <2>1. new \in Server /\ task \in Task /\ task.task = "run" /\ task.server = Len(servers) + 1
    BY <1>0 DEF Server, Task
  <2>2. servers' = Append(servers, new) /\ micro' = Append(micro, task)
    BY <1>6 DEF Call
  <2> HIDE DEF new, task
  <2>3. Len(servers') = Len(servers) + 1
    BY <1>0, <2>1, <2>2, AppendElements
  <2>4. /\ DOMAIN micro' = DOMAIN micro \cup {k}
        /\ \A n \in DOMAIN micro : micro'[n] = micro[n]
        /\ micro'[k] = task
    BY <1>0, <2>1, <2>2, AppendElements
  <2>5. RunsLast'
    <3> SUFFICES ASSUME NEW n \in DOMAIN micro', NEW m \in DOMAIN micro', n < m, micro'[n].task = "run"
                 PROVE  micro'[m].task = "run"
      BY DEF RunsLast
    <3>1. CASE m = k
      BY <2>1, <2>4, <3>1
    <3>2. CASE m \in DOMAIN micro
      <4>1. n \in DOMAIN micro
        BY <1>0, <2>4, <3>2
      <4> QED BY <1>4, <2>4, <3>2, <4>1 DEF RunsLast
    <3> QED BY <2>4, <3>1, <3>2
  <2>6. RunsWait'
    <3>1. ASSUME NEW s \in Len(attempts) + 1 .. Len(servers) + 1
          PROVE  \E n \in DOMAIN micro' : micro'[n].task = "run" /\ micro'[n].server = s
      <4>1. CASE s = Len(servers) + 1
        BY <2>1, <2>4, <4>1
      <4>2. CASE s # Len(servers) + 1
        <5>1. s \in Len(attempts) + 1 .. Len(servers)
          BY <1>0, <4>2
        <5> QED BY <2>4, <5>1 DEF Overlap, RunsWait
      <4> QED BY <4>1, <4>2
    <3>2. \A n \in DOMAIN micro' : micro'[n].task = "run" => Len(attempts) < micro'[n].server
      BY <1>0, <2>1, <2>4 DEF Overlap, RunsWait
    <3>3. ASSUME NEW n \in DOMAIN micro', NEW m \in DOMAIN micro',
                 n < m, micro'[n].task = "run", micro'[m].task = "run"
          PROVE  micro'[n].server < micro'[m].server
      <4>1. n \in DOMAIN micro
        BY <1>0, <2>4, <3>3
      <4>2. CASE m = k
        BY <1>0, <2>1, <2>4, <4>1, <4>2
      <4>3. CASE m \in DOMAIN micro
        BY <2>4, <3>3, <4>1, <4>3 DEF Overlap, RunsWait
      <4> QED BY <2>4, <4>2, <4>3
    <3>4. Len(attempts) <= Len(servers) + 1
      BY <1>0 DEF Overlap, RunsWait
    <3> QED BY <1>1, <2>3, <3>1, <3>2, <3>3, <3>4 DEF RunsWait
  <2> QED BY <1>3, <2>5, <2>6 DEF Overlap, Shape
<1> QED BY <1>5, <1>6

\* Every step keeps calls, attempts and servers in step.
LEMMA OverlapPreserved ==
  ASSUME TypeOK, TypeOK', Overlap, [Next]_vars PROVE Overlap'
<1>0. /\ micro \in Seq(Task) /\ attempts \in Seq(Attempt) /\ servers \in Seq(Server)
      /\ \A n \in DOMAIN micro : micro[n] \in Task /\ micro[n].server \in DOMAIN servers
  BY DEF TypeOK
<1>1. ASSUME NEW port \in Ports, Call(port) PROVE Overlap'
  BY <1>1, OverlapCall
<1>2. ASSUME RunTask PROVE Overlap'
  BY <1>2, OverlapRun
<1>3. ASSUME EndTurn PROVE Overlap'
  BY <1>3 DEF EndTurn, Overlap, Shape, RunsFirst, RunsLast, RunsWait, AttemptsReach
<1>4. ASSUME CallerTask PROVE Overlap'
  <2>1. /\ micro # <<>> /\ micro[1].task # "run" /\ ~turn /\ micro' = Tail(micro)
        /\ attempts' = attempts /\ servers' = servers
    BY <1>0, <1>4, TailElements DEF CallerTask, NextTask
  <2>2. turn' \in BOOLEAN
    BY DEF TypeOK
  <2> QED BY <2>1, <2>2, OverlapTail
<1>5. ASSUME ServerRunTask PROVE Overlap'
  <2>1. /\ micro # <<>> /\ micro[1].task # "run" /\ ~turn /\ micro' = Tail(micro) /\ attempts' = attempts
    BY <1>0, <1>5, TailElements DEF ServerRunTask, NextTask
  <2>2. Len(servers') = Len(servers)
    BY <1>0, <1>5 DEF ServerRunTask
  <2>3. turn' \in BOOLEAN
    BY DEF TypeOK
  <2> QED BY <2>1, <2>2, <2>3, OverlapTail
<1>6. ASSUME NEW i \in DOMAIN attempts, Listening(i) \/ BindFails(i) \/ SocketFails(i) PROVE Overlap'
  <2>1. UNCHANGED <<micro, turn, servers>>
    BY <1>6 DEF Listening, BindFails, SocketFails
  <2>2. /\ Len(attempts') = Len(attempts) /\ DOMAIN attempts' = DOMAIN attempts
        /\ \A j \in DOMAIN attempts : attempts'[j].server = attempts[j].server
    BY <1>0, <1>6, SocketEvent
  <2> QED BY <2>1, <2>2, OverlapSameServers
<1>7. ASSUME UNCHANGED vars PROVE Overlap'
  BY <1>7, OverlapUnchanged DEF vars
<1> QED BY <1>1, <1>2, <1>3, <1>4, <1>5, <1>6, <1>7 DEF Next

\* However calls of run overlap, each leads to one attempt, and the attempts of
\* overlapping calls all go to the last of their servers.
THEOREM OverlapCorrect == Spec => []OverlappingCallsInitialiseTheLast
<1>1. Init => Overlap
  <2> SUFFICES ASSUME Init PROVE Overlap
    OBVIOUS
  <2>1. /\ DOMAIN micro = {} /\ DOMAIN attempts = {} /\ Len(attempts) = 0 /\ Len(servers) = 0
    BY DEF Init
  <2> QED BY <2>1 DEF Overlap, Shape, RunsLast, RunsWait, AttemptsReach
<1>2. TypeOK /\ TypeOK' /\ Overlap /\ [Next]_vars => Overlap'
  BY OverlapPreserved
<1>3. TypeOK /\ Overlap => OverlappingCallsInitialiseTheLast
  <2> SUFFICES ASSUME TypeOK, Overlap, Idle
               PROVE  /\ Len(attempts) = Len(servers)
                      /\ \A i \in DOMAIN attempts : LET s == attempts[i].server IN
                           i <= s /\ \A j \in i .. s : attempts[j].server = s
    BY DEF OverlappingCallsInitialiseTheLast
  <2>0. /\ Len(attempts) \in Nat /\ DOMAIN attempts = 1 .. Len(attempts)
        /\ Len(servers) \in Nat /\ DOMAIN servers = 1 .. Len(servers)
        /\ \A i \in DOMAIN attempts : attempts[i].server \in DOMAIN servers
    BY DEF TypeOK
  <2>1. DOMAIN micro = {}
    BY DEF Idle
  <2>2. Len(attempts) = Len(servers)
    <3>1. ASSUME Len(attempts) < Len(servers) PROVE FALSE
      <4>1. Len(servers) \in Len(attempts) + 1 .. Len(servers)
        BY <2>0, <3>1
      <4> QED BY <2>1, <4>1 DEF Overlap, RunsWait
    <3>2. Len(attempts) <= Len(servers)
      BY DEF Overlap, RunsWait
    <3>3. Len(attempts) \in Nat /\ Len(servers) \in Nat
      BY <2>0
    <3> QED BY <3>1, <3>2, <3>3
  <2>3. \A i \in DOMAIN attempts : i .. attempts[i].server \subseteq DOMAIN attempts
    BY <2>0, <2>2
  <2> QED BY <2>0, <2>2, <2>3 DEF Overlap, AttemptsReach
<1> QED BY <1>1, <1>2, <1>3, StartupTypeCorrect, PTL DEF Spec

=============================================================================
