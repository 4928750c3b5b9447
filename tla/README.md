# NodeBE-RakNet: a TLA+ verification project

NodeBE-RakNet is a RakNet server library for Node.js. It was at an early
stage when these models were written: the offline handshake works, most of
what comes after it is present but not reached. The models say what the code
does, its slips included. Paths below are relative to the repository
(`src/server/...`, `src/protocol/...`).

## The system

| component | state | operations | module |
|---|---|---|---|
| event loop and receive path (`SessionManager.js`, `RakNetServer.js`) | message slot, shared `binarystream`, tick and byte counters, two queues | message and error events; the interval callback: `recieveStream`, `recievePacket`, `tick` | `RakNetServer` |
| offline handshake (`OfflineMessageHandler.js`) | packet pool | one branch per offline message, replies, `createSession` | `RakNetServer` |
| session tables (`SessionManager.js`) | `sessions`, `sessionsByAddress`, `nextSessionId` | `createSession`, `checkSessions`, `removeSession`, `removeSessionInternal` | `RakNetServer`, `SessionLifecycle`, abstractly `ConnectionTable`, `SessionRegistry` |
| session (`Session.js`) | state, activity, windows, split packets, queues | `handlePacket`, `handleEncapsulatedPacket`, `update`, `close`, flags | `SessionLifecycle`, `ReliableWindow`, abstractly `DuplicateFilter` |
| acknowledgement records (`AcknowledgePacket.js`) | the list of numbers | `encodePayload`, `decodePayload` | `Acknowledge` |
| embedding interface (`ServerHandler.js`, `ITCProtocol.js`, `ServerInstance.js`) | none of its own | senders of commands, `handlePacket` as the poll of notices | `Embedding`, abstractly `Mailbox`; the queues also in `RakNetServer`, `SessionLifecycle` |
| socket (`Socket.js`) | bound, ready, open or closed | constructor, `run`, `writePacket`, `close`, events | in `Startup` and `RakNetServer` |
| startup (`NodeBERakNet.js`, `RakNetServer.run`) | two ready flags, the microtask queue | `init`, `run` | `Startup` |
| messages and address codec (`src/protocol/*`) | the fields of pooled packets | encode, decode | `Messages` over `ByteStream` |
| encapsulated packets, datagrams | none | none that works | see *Not modelled* |

How they interact. A datagram raises the socket's "message" event, which
overwrites a slot of one message (`socket.msg`, `socket.rinfo`). Ten
milliseconds apart, the interval callback reads one command of the embedding
program, then calls `recievePacket` until it returns nothing: the slot is
appended to a stream shared by all calls, the sender taken from the slot, a
session looked up by the sender's ip alone, and, if there is none, the offline
handler answers. It sends its reply first and calls `createSession` after it.
All of this runs in one try block, whose catch is `process.exit(1)`.
Then `tick` pushes a bandwidth report for the embedding program, which polls.

Node runs callbacks to completion. So nothing interleaves inside a callback,
and everything interleaves between callbacks.

What is hard here: the slot and the stream are read and written by different
parties at different times; the table of sessions is two maps that are written
together and read apart; a reply promises a session that is made later;
ids are reused at once; messages arrive late, twice or never; and
exceptions end an operation in the middle, or the process. PROJECT.json lists these hazards
line by line, with the properties that are about them.

### What the assembled server does not reach

Some code is guarded by a slip and never runs in the assembled server. The
models take this from the code, and these are the places:

- `recieveStream` dispatches on `let id = 0` (SessionManager.js:354), and 0 is
  the branch that returns: a command is taken off the queue and dropped.
- `Datagram.BITFLAG_VALID` and its like are fields of instances read off the
  class (SessionManager.js:240): no datagram reaches a session.
- `ipSec` and `block` are never filled (SessionManager.js:230, 456), `tick`
  iterates over a Map iterator with `for ... in` (152), and `shutdown` stays
  false.
- `Session.handleEncapsulatedPacketRoute` compares with `ConnectionRequest.ID`
  and its like, which the classes do not have: no session is ever connected.
- `PacketReliability.isSequencedOrOrdered` is no static method, so nothing
  behind the reliable window of `handleEncapsulatedPacket` runs.

`RakNetServer` models the program as assembled. `SessionLifecycle`,
`ReliableWindow` and `Acknowledge` model classes by their methods, called as
their callers in the code are written to call them; they say at the top that
these callers do not get there yet.

## Modules

`RakNetServer.tla`: the assembled server. `phase` says where the interval
callback is; one action stands for each method it calls, one per branch for
`recievePacket`, and one per iteration of the loop in `createSession`. The
environment (datagrams, a socket error, commands, the poll) acts only while
`phase` is idle. Datagrams are records of what the handlers' branches read.
The stream is a sequence of datagrams, of which the first decides, as it does
in the bytes. A datagram may be cut short; what the stream library does when a
read goes past the end is not known, so decoding one either throws
(`CutShortThrows`) or goes on with fields that are no numbers. The OpenConnectionReply2
of an IPv6 socket holds an address whose writer lacks its arguments, and `encode` may throw
(`EncodeThrows`, for `SocketVersion` = 6). Both exceptions end the process, as
`checkSessions` does past the limit. Byte counts are counts of datagrams; `sendBytes` is "0" or
"NaN", because dgram's `send` returns undefined. The tick counter is kept up to
the period of its mask. `writes`, `arrivals`, `taken` and `delivered` are
history variables.

`ConnectionTable.tla`: what the two maps promise together. One table by ip,
entries admitted under an ip and an id that are free, never changed or
dropped; the process may die at any time (`ExitHasCause` says over what), and
admits nobody after that. `RakNetServer` implements it.

`SessionLifecycle.tla`: sessions as objects with an identity, the two maps as
references to them, `flagForDisconnection`, `close`, `removeSession` (which
closes, which removes, before it removes), `update`, and the part of
`handlePacket` that is about activity and about acknowledgements, with a queue
of commands and the notices to the embedding program. Of the commands it has
those that act on sessions or end the server: CLOSE_SESSION, INVALID_SESSION,
ENCAPSULATED, SHUTDOWN and EMERGENCY_SHUTDOWN, each with the exception it may
end in. The socket's error event closes the socket with the sessions listed; a
session may still be created after it, for the datagram in the slot, and a
SHUTDOWN after it throws when it closes the socket again. `createSession` past the limit
ends the process, as in `RakNetServer`. `running` turns FALSE when the process dies of an exception. The others (RAW,
SET_OPTION, BLOCK_ADDRESS, ...) touch none of this state and are left out.

`ReliableWindow.tla`: `handleEncapsulatedPacket` with its window of reliable
messages, `handleSplit` by its outcomes. The loop that moves the window is one
step to the first gap. Every message behind the window ends in an exception or
a return, which is recorded in `outcome`.

`DuplicateFilter.tla`: what a receive window promises. Each index is taken at
most once and only within reach of the first one missing. `ReliableWindow`
implements it, with WINDOW_SIZE + 1 indexes in reach: the code accepts the
index equal to `reliableWindowEnd`.

`Acknowledge.tla`: `encodePayload` one number at a time, after the sort by
decimal strings, then `decodePayload` one record at a time, on what was
encoded or on what the wire brings.

`SessionRegistry.tla`: what the two maps, the flags and the notices promise
the embedding program. Members with an id, an ip and a flag; enter, be flagged,
leave with one notice, be told that nobody takes commands under an id. What it is served through may
be lost with members listed (`Lose`); it is shut only when it is empty and
nothing was lost (`Shut`). `SessionLifecycle` implements it.

`Startup.tla`: calls of `run` up to their `await`, the microtasks that finish
them, the turns of the embedding program between which microtasks run, the
sockets that bind and report back in events of their own, and the exceptions
`RakNetServer.init` swallows.

`Embedding.tla`: the two queues between the embedding program and RakNet. The
senders of `ServerHandler` are sequences of "push" and "throw", the branches of
its `handlePacket` a table in their order, with the names each needs; a branch
that needs a name that does not exist throws, after the notice was taken.
Whether nodebe-binarystream has static readers is not known: `statics` is
chosen at the start. The stream* methods are called in any order.
`recieveStream` reads with the id 0. `Mailbox.tla` is what a queue between two
programs promises; both queues implement it.

`ByteStream.tla`, `Messages.tla`: a stream is a sequence of bytes that know
which value they are of, so that a read with another width or from elsewhere is
`Torn`. A message class is the pair of call sequences of `encodePayload` and
`decodePayload`; the calls are made one a step, on an object that for offline
messages is shared by all datagrams of the class. `writeAddress` and
`readAddress` are as in `Packet.js`, for versions 4 and 6 and those that are neither, with the index of a part where its number
was meant, and `this` where an address was. An address call carries the number
of its address, of which `NewIncomingConnection` writes as many as the message
has. `ends` is a history of where the header and each call left the stream.
Hosts have at least the four parts that `writeAddress` writes. `readAddress` reads
29 bytes for version 6, and peers send as many. `writeAddress` calls
`writeLShort` and `writeData` for it without a value: the model takes the first to write two
bytes, the second to append `EmptyData` bytes, any number, or either to throw
(`WriteThrows`). The server does this itself: with an IPv6 socket,
SessionManager.js:211 gives the peer's address version 6 and
OfflineMessageHandler.js:86 puts it into the reply. `Misread` says that this
happened and that the lengths differ; a read past the end gives `Torn`, or the
library throws (`ReadThrows`).

`MC*.tla` give the constants their small values. Operators that stand directly
before an operator of the code and differ from it by one detail (such as
`KeepSlot` before `ClearSlot`) are deviations; no specification uses them. They
serve to confirm that a property notices when the code is changed that way.

## Runs

| run | question | bounds |
|---|---|---|
| `server_every` | do slot, stream, tables and replies ever mix two datagrams up, or lose count of bytes? | every kind of datagram, one cut short among them, from two peers behind one ip and from two with one clientID; three arrivals, two commands; IPv4 |
| `server_limit` | over what does the process end, what does an accepted peer have then, do the two maps make one table, does every callback end, are bytes reported, is the slot emptied? | limit 1, three peers on three ips, two datagrams that may be cut short, three arrivals, one command; IPv6 |
| `session_lifecycle` | do tables and notices agree, whatever closes and removes sessions, however the socket is lost and the server ends? | three sessions over three ips and two ids, room for two at a time, three commands, two instants with a timeout of zero |
| `reliable_window` | does a message pass twice, does the window lose its place? | ten indexes and none, window of three |
| `acknowledge` | what of a list of numbers arrives? | lists of up to four of {0, 1, 2, 9, 10, 11}; three records of a peer; caps of 5 and 3 |
| `startup` | what do overlapping calls of `run` leave behind? | three calls, two ports, constructors that throw, binds that fail |
| `messages` | does decode find what encode wrote? | two values for each kind of field, one of the names with a character of two bytes, versions 4, 6 and 5, which is unknown, up to three addresses, no bytes from writeData(), two datagrams through a packet |
| `embedding` | is any command or notice repeated, reordered or stuck when what handles it throws? | two of each, of every kind; every subset of the static readers |

Why the bounds are enough. In `server_every` the smallest collision needs two
datagrams in the slot or one tick with a datagram and the call after it; the
theorems then remove the bounds for all but the liveness properties. `server_limit` needs one session more than the limit and one
datagram more than that, which is three, and its IPv6 socket adds the exceptions of `encode` to
everything an IPv4 one does. In `session_lifecycle` a mix-up of two sessions with
one id needs a removal and a creation, and a third session that keeps another
id; three objects give all combinations. With two sessions listed the third is
past the limit; a third ip is needed to ask for it. With a timeout of zero two
instants are enough: a session made in the first is due in the second unless it was heard of
in between. The ips are interchangeable, so the run uses their symmetry. The window run is exhaustive for its
indexes, and the theorems hold for every width. The numbers of `acknowledge`
are those where string order and number order part; a run of three, a gap, a repetition and a descent all
fit in four numbers; the theorems hold for lists of any length. In `startup` two
calls overlap and a third comes before, between or after them; two ports make
binds succeed and collide. In `messages` a value that moved to another field,
width or datagram is seen with two values, and two addresses beyond the first
are fewer, as many and more than the loop of the run (`SystemAddresses` = 2)
expects; the theorems hold for any values, addresses and datagrams. In
`embedding` an exception needs one notice and its harm a second.

Four runs end in a violation. Each states what a comment or an error message of
the repository says, and the counterexample is what the code does:

- `doc_guid_in_use`: MessageIdentifiers.js:28 ("GUID and IP not already in
  use"); two peers with one GUID both get a session.
- `doc_unconnected_ping`: MessageIdentifiers.js:12 ("Ping from an unconnected
  system. Reply ..."); a peer without a session gets no reply when another peer
  of its ip has one.
- `doc_min_mtu`: Session.js:24 (MTU at least 400); the constructor compares
  with a field it has not assigned.
- `doc_unable_to_bind`: Socket.js:68 ("Unable to bind on socket ..."); a port
  that is taken never leads to this error.

### Fairness

`RakNetServer` assumes weak fairness of the interval callback's steps:
`setInterval` fires again and again, and JavaScript runs a callback to its end.
Nothing is assumed there of the network or of the embedding program. `Startup`
assumes weak fairness of turns and of microtasks, which JavaScript runs to the
last, and strong fairness of a socket's bind event: turns come between, but the
system answers a bind in the end. It assumes nothing of socket errors.
`Embedding` assumes weak fairness of `recieveStream`, which every tick calls,
and of `handlePacket`: a program that embeds RakNet polls (one that does not
has no use for notices). The other specifications have no fairness and no
liveness properties.

CHECK_DEADLOCK is off where the system may really stop: after
`process.exit(1)` (`server_limit`, `session_lifecycle`), when a list or the last datagram has been
decoded or the encoder has thrown (`acknowledge`, `messages`), and when the
bounds of the model are used up (`embedding`).

## Proofs

All theorems hold for every value of the constants that satisfies the named
assumptions (`ConstantsAssumption`, `ReliableWindowAssumption`, `LifecycleAssumption`,
`AcknowledgeAssumption`, `StartupAssumption`, `EmbeddingAssumption`,
`MessagesAssumption`), with sets of any size: any number of peers, ips and
datagrams, any limit.

`RakNetServer_proofs.tla`. None of the safety properties is inductive alone.
The argument is in layers:

1. `Loop` is the type invariant with the shape of the receive loop: outside
   `recievePacket` the stream is empty; within it, either no call was made and
   the stream is empty, or one was and the slot is empty; while `createSession`
   runs its arguments are there; and a message in the slot is the latest
   arrival, from the sender `rinfo` names. This makes the shared stream
   harmless: only the first call of a tick finds bytes, and they are one
   datagram with its own sender. `LoopCorrect` proves it, `TypeCorrect` follows.
2. `Tables` adds to `TablesAgree` that the pending call's ip is free
   (`TablesCorrect`, `TablesAlwaysAgree`).
3. `RepliesInv` adds that every answered datagram arrived before the one in the
   slot, that the last reply's MTU is that of the pending call (`BackedInv`),
   that a process that ended within `createSession` did so over a full table
   (`FullInv`), that the pending call was announced or the socket is closed (`AnnouncedInv`),
   and that once a session was not announced no
   datagram is left that could make another (`LastInv`) (`RepliesCorrect`), from which
   `NeverCrossTalk`, `AlwaysAnsweredInOrderOnce`, `RepliesAreBacked` and
   `SessionsAreAnnounced` follow.
4. `ExitsHaveCause` needs in addition which datagram the pending call was made for
   (`RequestInv`); `ThrowCause` says what the exceptions of decode and encode are
   about, whether the table is full or not. It and `SessionsHaveMinMtu` (for a server whose own MTU is at
   least 400: the run `doc_min_mtu` shows it is needed) use these layers.
5. `Refinement`: `Spec => RefinesConnectionTable`; `createSession` is the one
   step that maps to `Admit`, all others stutter or `Die`.
6. `BytesAlwaysConserved`. The bytes the queued reports stand for are a set
   (`QueuedBytes`), and their sum is its cardinality, so that a push adds a set
   (`SumDownAppend`) and a poll removes one and moves the rest
   (`SumDownTail`, by a bijection between the rest and what it becomes); a sum by recursion over the queue could not be
   reasoned about.
7. `CallbackAlwaysAdvances`: nothing comes between the steps of a callback, and
   each of them decreases `StepsLeft`, which is at most six, or ends the process.
   The search of `createSession` for an id has no bound of its own. `IdsInOrder`
   gives it one: the ids in use are 0, 1, 2, ... without a gap and
   `nextSessionId` is the last of them, so it looks at two. That holds for the
   assembled server, where `removeSession` is never reached. With
   `SlotAlwaysEmptied`, that the receive loop never ends at its bound and so never
   leaves a datagram in the slot, this is the safety part of `CallbackCompletes`
   and `SlotDrained`. TLC checked these definitions on the instances of
   `server_every` and `server_limit` before they were proved.

`ReliableWindow_proofs.tla`. `Held` is the strengthening: what is in the map
has passed and lies beyond the start, what has passed is in the map or before
the start, everything before the start has passed. From it `AlwaysAdmittedOnce`,
`AlwaysFrontier` and `WindowRefinement`, for every width and set of indexes.

`SessionLifecycle_proofs.tla`. `TypeOK`, `TablesAgree` and `ListedIsManaged`
are inductive only together (`LifecycleCorrect`): `removeSession` looks the
session up by its id and deletes it by its ip, which is one session because the
tables agree, and a session is closed and taken off both tables or neither
because a listed one is managed. `LifecycleStep` shows besides that a step
either leaves everybody where they are or is one `removeSession`, for a
timeout or on a command that names the id. `ActiveStays` follows. The number of
notices of an id and the number of its sessions that are gone then grow
together (`CountsStep`), from which `NoticesCorrect`; the same sum over all ids,
with what SHUTDOWN needs to get past its loop and its `close`, gives
`ShutdownCorrect`: an action property, because after an error event the socket
is closed with sessions listed, and only SHUTDOWN promises that nobody is left.

The refinement to `SessionRegistry` (`RegistryRefinement`) maps each session in
the tables to a member. `MembersSame`, `FlagMaps`, `LeaveMaps`, `EnterMaps` and
`RefuseMaps` say what a change of the maps does to the members, `RegistryStep`
goes through the actions.

`Startup_proofs.tla`. A call's microtasks wait behind those of earlier calls, and
`this.server` is read when they run; the invariant says which tasks are in the
queue for which calls (`Shape`, `RunsWait`), that a due task is about the latest
server (`LatestDue`), that a caller's task stands behind the tasks that set its
flags (`CallersDue`), and how often a server was initialised
(`AttemptsReach`). `AlwaysReadyTogether`, `AlwaysFindsReady` and
`OverlapCorrect` follow for any number of overlapping calls.

`Embedding_proofs.tla`. `Inv` says of every queue and list that it is a sequence of
messages. With it `QueuesAreMailboxes`: for any number of messages, each step
maps to a step of both mailboxes or stutters.

`Acknowledge_proofs.tla`. While the encoder works (`Encoding`) the numbers it has
passed are at most `last`, those from `start` to `last` are among them, and
what it has written are the heads of the runs before `start`. Afterwards
(`Arriving`) what the decoder has read and what it has still to read are
together the heads of all runs, and the count it was given is large enough.
`NeverInvented` and `HeadsAlwaysArrive` follow for lists of any length. Of the
sort only this is used, that it neither loses numbers nor adds any; where its
order is not the order of numbers the encoder throws. `AlwaysBounded` holds for
records from anywhere.

`Messages_proofs.tla`. The layouts of the classes are gone through once, class by
class, in lemmas about constants: `EncodeFacts` (what `encodePayload` calls),
`DecodeFacts` (which of them the calls of `decodePayload` read). `Consumed` counts
these: every call of decode reads the next call of encode, but for the
`systemAddress` calls past the last address and the length of
`OpenConnectionRequest1`, which read nothing. For `NewIncomingConnection` the
lemmas hold for any number of addresses up to the one more than
`SystemAddresses` that it reads. The steps then no longer mention classes. `StreamInv` says that
what call n wrote lies between `ends[n]` and `ends[n + 1]`, `OffsetInv` that the
reader stands at the end of the last call it consumed (or, after a name with
a character of two bytes, one before it, with nothing left to read), from
which each read finds its own value whole (`BytesRead`, `NameRead`,
`AddressRead`) and none is `Torn`. `FieldsInv` and `AddressInv` collect what
was read: of the addresses, that the first decides what the caller gets and
the last one of version 4 or 6 what it shows. All of this is `Inv`. A
version-6 address that `writeAddress` wrote breaks it: `EnterBehind` is the step
that reads one, into `Behind`, where each of the two calls left has a known
distance from the end of the stream (`BehindScalar`, `BehindReads`).
`Thrown` is what remains when the library throws. The inductive invariant `IInv` is
the disjunction of the three. `FieldsAlwaysSurvive`,
`OnlyThePortAlwaysSurvives`, `LastAddressAlwaysDecides` and `TypeCorrect` follow
from `MessagesInvariant`, whatever an earlier datagram left in the object.

Only model-checked: the liveness properties `CallbackCompletes`,
`BytesReported`, `SlotDrained`, `CallsResume` and `SocketsSettle`, and the
fairness of the mailboxes in `RefinesMailboxes` (`QueuesAreMailboxes` proves the
rest of it). Liveness under fairness is beyond the prover, and so is the step
from `CallbackAlwaysAdvances` to `CallbackCompletes`: that a callback that has
steps left can take one.

## Not modelled, and why

- The bytes of a single value: they are nodebe-binarystream's, which is not in
  the repository. Of malformed datagrams `RakNetServer` has those that are cut
  short, with both outcomes a read past the end may have; `Messages` has none.
  `ByteStream` keeps what the classes rely on, widths and places.
- `ConnectionRequestAccepted`: its constructor names variables that are not
  declared, so there is never such an object.
- The 16 bytes of a version-6 host and the constants around it: no code of the
  repository reads them.
- `EncapsulatedPacket` and `Datagram`: `toBinary` and `toInternalBinary` return
  undefined (`return` stands alone on its line), `__length` names an undeclared
  variable and returns nothing, `fromBinary` reads `stream.readShort` without
  calling it. There is no layout to check.
- The send side of a session (`addEncapsulatedToQueue`, `addToQueue`, `sendDatagram`,
  the recovery queue): what is queued becomes undefined, what would send it is
  hidden behind a field of the same name, and splitting calls a function that
  does not exist. Nothing is ever sent, so there is no order or count of
  messages to state anything about.
- Code behind the window of `handleEncapsulatedPacket`: ordered and sequenced
  channels, routing by packet id; see *What the assembled server does not reach*.
- The window of datagram numbers: `handlePacket` passes ACK and NACK through it,
  which have no number, instead of datagrams. `HandleAcknowledge` models what
  follows; the commented assertion at Session.js:419 ("received packet before
  window start") would fail for the first of them.
- The comment at MessageIdentifiers.js:14 ("Only reply if we have open
  connections"): `handle` has one branch for both kinds of ping, so the reply
  is sent when the table is full, too. `AnswerPing` in `RakNetServer` does the same; no
  run is spent on it.
- Logging; the sizes of socket buffers but for what `Startup` says of them.

## Plan

1. Theorems that bound the other liveness properties as `CallbackAlwaysAdvances`
   does for the callback: the tasks left before a call of `run` resumes, the ticks
   left before bytes are reported.
2. A larger instance of `server_limit` with a fourth arrival for the liveness
   properties; its safety part holds there (2.4 million states).
3. When the send side of sessions works: the split and message counters, the
   recovery queue, and the composition of two sessions over a lossy network.
