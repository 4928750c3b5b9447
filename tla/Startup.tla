------------------------------ MODULE Startup ------------------------------
(***************************************************************************)
(* From NodeBERakNet.run to a bound socket.  run is an async method that    *)
(* awaits its init and reads this.server after the await; it starts         *)
(* RakNetServer.run without awaiting it and sets its own ready flag.  That  *)
(* one swallows whatever the constructors of Socket and SessionManager      *)
(* throw, and sets a second ready flag.  Whether the port could be had is   *)
(* known only when the socket's "listening" or "error" event comes.         *)
(*                                                                          *)
(* Microtasks run first in, first out, to the last one, before the event    *)
(* loop takes the next event.  Code of the embedding program runs in turns  *)
(* of its own and when a promise it awaits has resolved; it may call run    *)
(* again in either, as often as it likes.                                   *)
(***************************************************************************)
EXTENDS Integers, Sequences

CONSTANTS
  Ports,
  MaxCalls  \* bound of the model: calls of NodeBERakNet.run

ASSUME StartupAssumption == MaxCalls \in Nat

VARIABLES
  running,   \* FALSE once the process has exited or died of an exception
  nodeOk,    \* process.version is at least MIN_NODEJS_VERSION
  turn,      \* TRUE while code of the embedding program runs
  micro,     \* the queue of microtasks
  ready,     \* NodeBERakNet.ready
  servers,   \* every RakNetServer made; this.server is the last one
  attempts,  \* every execution of RakNetServer.init, with its Socket
  calls,     \* history: calls of NodeBERakNet.run
  resumed    \* history: callers that awaited run and were resumed

vars == <<running, nodeOk, turn, micro, ready, servers, attempts, calls, resumed>>

Server == [port: Ports, ready: BOOLEAN]

\* sock "none": the constructor of Socket has thrown.
Attempt == [server: Nat, sock: {"none", "binding", "listening", "closed"},
            ready: BOOLEAN, thrown: {"none", "Unable to bind", "buffer size"}]

\* "run" and "serverRun": what follows the await in NodeBERakNet.run and in
\* RakNetServer.run.  "caller": what follows `await run()` in its caller.  The
\* server of "run" is the one its call has made.
Task == [task: {"run", "serverRun", "caller"}, server: Nat]

Init ==
  /\ running = TRUE /\ nodeOk \in BOOLEAN
  /\ turn = FALSE /\ micro = <<>>
  /\ ready = FALSE /\ servers = <<>> /\ attempts = <<>>
  /\ calls = 0 /\ resumed = 0

\* The event loop may take its next event.
Idle == running /\ ~turn /\ micro = <<>>

\* NodeBERakNet.run up to its await.
Call(port) ==
  /\ running /\ (turn \/ micro = <<>>)
  /\ calls < MaxCalls /\ calls' = calls + 1
  /\ turn' = TRUE
  /\ IF nodeOk
     THEN /\ servers' = Append(servers, [port |-> port, ready |-> FALSE])
          /\ micro' = Append(micro, [task |-> "run", server |-> Len(servers) + 1])
          /\ UNCHANGED running
     ELSE running' = FALSE /\ UNCHANGED <<servers, micro>>
  /\ UNCHANGED <<nodeOk, ready, attempts, resumed>>

EndTurn ==
  /\ running /\ turn
  /\ turn' = FALSE
  /\ UNCHANGED <<running, nodeOk, micro, ready, servers, attempts, calls, resumed>>

NextTask(task) == running /\ ~turn /\ micro # <<>> /\ Head(micro).task = task

\* this.server, read when the await is over.
ThisServerOffByOne == Len(servers) - 1
ThisServer == Len(servers)

\* Each call makes a Socket of its own, for a server that has one already too.
NewAttempt(s, sock) == [server |-> s, sock |-> sock, ready |-> FALSE, thrown |-> "none"]
AttemptedOnce(s, sock) ==
  IF \E i \in DOMAIN attempts : attempts[i].server = s
  THEN attempts ELSE Append(attempts, NewAttempt(s, sock))
Attempted(s, sock) == Append(attempts, NewAttempt(s, sock))

\* RakNetServer.run is resumed whatever happened in init.
ResumeServerUnlessThrown(q, s, sock) ==
  IF sock = "none" THEN q ELSE Append(q, [task |-> "serverRun", server |-> s])
ResumeServer(q, s, sock) == Append(q, [task |-> "serverRun", server |-> s])

\* The promise of NodeBERakNet.run resolves at its end.
ResolveWithSocket(q, s, sock) ==
  IF sock = "none" THEN q ELSE Append(q, [task |-> "caller", server |-> s])
Resolve(q, s, sock) == Append(q, [task |-> "caller", server |-> s])

\* server.run() runs to its own await first: init makes the socket, which binds
\* later, and the manager with its listeners and its interval.
ResumeAfterTwoAwaits(q, s, sock) == ResumeServer(Resolve(q, s, sock), s, sock)
Resume(q, s, sock) == Resolve(ResumeServer(q, s, sock), s, sock)

RunTask ==
  /\ NextTask("run")
  /\ \E sock \in {"none", "binding"} :
       /\ attempts' = Attempted(ThisServer, sock)
       /\ micro' = Resume(Tail(micro), ThisServer, sock)
  /\ ready' = TRUE
  /\ UNCHANGED <<running, nodeOk, turn, servers, calls, resumed>>

ServerRunTask ==
  /\ NextTask("serverRun")
  /\ servers' = [servers EXCEPT ![Head(micro).server].ready = TRUE]
  /\ micro' = Tail(micro)
  /\ UNCHANGED <<running, nodeOk, turn, ready, attempts, calls, resumed>>

CallerTask ==
  /\ NextTask("caller")
  /\ turn' = TRUE
  /\ resumed' = resumed + 1
  /\ micro' = Tail(micro)
  /\ UNCHANGED <<running, nodeOk, ready, servers, attempts, calls>>

Binding(i) == i \in DOMAIN attempts /\ attempts[i].sock = "binding"

\* bind is passed an `ip`, which is no option of it: it takes the port of every
\* address.
PortOf(i) == servers[attempts[i].server].port
PortFree(i) ==
  \A j \in DOMAIN attempts : PortOf(j) = PortOf(i) => attempts[j].sock # "listening"

\* Socket.run, called with socket.ready just set; the system may refuse the
\* sizes of the buffers.  Nothing catches an exception of a listener.
ThrownBySocketRun(isReady, sizesAccepted) ==
  IF ~isReady THEN "Unable to bind" ELSE IF sizesAccepted THEN "none" ELSE "buffer size"

Listening(i) ==
  /\ Idle /\ Binding(i) /\ PortFree(i)
  /\ \E sizesAccepted \in BOOLEAN :
       LET thrown == ThrownBySocketRun(TRUE, sizesAccepted) IN
         /\ attempts' = [attempts EXCEPT ![i].sock = "listening", ![i].ready = TRUE,
                                         ![i].thrown = thrown]
         /\ running' = (thrown = "none")
  /\ UNCHANGED <<nodeOk, turn, micro, ready, servers, calls, resumed>>

\* The "error" listener logs and closes.
LogError(i) == UNCHANGED attempts
CloseOnError(i) == attempts' = [attempts EXCEPT ![i].sock = "closed"]

BindFails(i) ==
  /\ Idle /\ Binding(i)
  /\ CloseOnError(i)
  /\ UNCHANGED <<running, nodeOk, turn, micro, ready, servers, calls, resumed>>

SocketFails(i) ==
  /\ Idle /\ attempts[i].sock = "listening"
  /\ CloseOnError(i)
  /\ UNCHANGED <<running, nodeOk, turn, micro, ready, servers, calls, resumed>>

Next ==
  \/ \E port \in Ports : Call(port)
  \/ EndTurn \/ RunTask \/ ServerRunTask \/ CallerTask
  \/ \E i \in DOMAIN attempts : Listening(i) \/ BindFails(i) \/ SocketFails(i)

\* JavaScript runs a turn and the microtasks behind it to their end.  The event
\* loop gets to every bind that has ended, however many turns come between.
Fairness ==
  /\ WF_vars(EndTurn)
  /\ WF_vars(RunTask \/ ServerRunTask \/ CallerTask)
  /\ \A i \in 1 .. MaxCalls : SF_vars(Binding(i) /\ (Listening(i) \/ BindFails(i)))

Spec == Init /\ [][Next]_vars /\ Fairness

-----------------------------------------------------------------------------
(* Properties.                                                             *)

TypeOK ==
  /\ running \in BOOLEAN /\ nodeOk \in BOOLEAN /\ turn \in BOOLEAN /\ ready \in BOOLEAN
  /\ servers \in Seq(Server)
  /\ micro \in Seq(Task) /\ \A n \in DOMAIN micro : micro[n].server \in DOMAIN servers
  /\ attempts \in Seq(Attempt) /\ \A i \in DOMAIN attempts : attempts[i].server \in DOMAIN servers
  /\ calls \in Nat /\ resumed \in Nat

(* server.run() is not awaited (NodeBERakNet.js:53), so ready runs ahead of *)
(* the server's own flag; but no event can come between the two: whenever   *)
(* the event loop is idle, a ready NodeBERakNet has a ready server, calls   *)
(* that overlap and inits that failed included.                             *)
ReadyTogether == Idle /\ ready => servers # <<>> /\ servers[Len(servers)].ready

(* A caller that awaited run finds both flags set: on the server its call   *)
(* was given, which need not be the one its call made, nor be this.server   *)
(* any more.                                                                *)
CallerFindsReady ==
  \A n \in DOMAIN micro :
    micro[n].task = "caller" => ready /\ (n = 1 => servers[micro[n].server].ready)

(* this.server is read after the await, so calls of run that overlap        *)
(* initialise the last of their servers, once for each of them, and the     *)
(* others never: the attempt of call i goes to a server made no earlier,    *)
(* with all attempts up to that server's own.  None is lost.                *)
OverlappingCallsInitialiseTheLast ==
  Idle =>
    /\ Len(attempts) = Len(servers)
    /\ \A i \in DOMAIN attempts :
         LET s == attempts[i].server IN i <= s /\ \A j \in i .. s : attempts[j].server = s

(* Every call of run resumes its caller, bound or not, unless the process   *)
(* is gone.                                                                 *)
CallsResume == \A n \in 1 .. MaxCalls : calls = n ~> (resumed >= n \/ ~running)

(* Every socket that was made ends up bound or closed: none is left between *)
(* bind and its events.                                                     *)
SocketsSettle == \A i \in 1 .. MaxCalls : Binding(i) ~> (~Binding(i) \/ ~running)

(* Socket.js:68 has an error for a socket that cannot be bound, "Unable to  *)
(* bind on socket ...": whoever binds in vain is told so.                   *)
BindFailureIsReported ==
  \A i \in DOMAIN attempts :
    attempts[i].sock = "closed" /\ ~attempts[i].ready => attempts[i].thrown = "Unable to bind"

=============================================================================
