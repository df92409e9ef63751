# Verification of Project_MMORPG's server

TLA+ models of the server under `src/Server`, the TLC runs that check them and
the proofs that TLAPS checks about them. The models are of the hand-written
code: `ServerCore` (sessions over I/O completion ports), `GameServer` (the game),
`DummyClient`, and the `PacketGenerator` that writes both ends' packet headers at
every build. `Libraries` (protobuf), the `*.pb.*` files and `P1` (build products of
an Unreal client, no source) are not.

`PROJECT.json` has the machine-readable side: the lines each definition stands
for, the runs, the mutants, the hazards and the theorems.

## 1. The system

One `ServerService` has a `Listener`, an `IocpCore` (one completion port) and
five worker threads that do nothing but `IocpCore::Dispatch`. Everything happens
in completion handlers, so **the handlers of one session, and of all sessions,
run on different threads at once**. What is serialised is only what a mutex, an
atomic, or "there is at most one outstanding operation of this kind" serialises.

| component | state | operations | talks to |
|---|---|---|---|
| `Session`, send path | `_sendQueue`, `_sendRegistered` (atomic), `_sendEvent`, a mutex | `Send`, `RegisterSend`, `ProcessSend`, `HandleError`, `Disconnect` | every handler that replies or broadcasts; overlapped `WSASend` |
| `Session`/`PacketSession`/`RecvBuffer`, receive path | `_recvEvent`, the buffer and its two cursors, no lock | `RegisterRecv`, `ProcessRecv`, `OnRecv`, `OnWrite`, `OnRead`, `Clean` | `OnRecvPacket`; overlapped `WSARecv` |
| `Session`, life cycle | `_connected` (atomic), `_disconnectEvent`, references from events, registries and players | `ProcessConnect`, `Disconnect`, `ProcessDisconnect`, `RegisterConnect` | `Service`, `GameSessionManager`, `Listener` |
| `Listener` | accept events, each with the session that will be accepted next | `StartListen`, `StartAccept`, `RegisterAccept`, `ProcessAccept` | `AcceptEx`, `Service::CreateSession`, `ProcessConnect` |
| `Service`, `ServerService`, `ClientService` | `_sessions`, `_sessionCount`, a mutex | `Start`, `CreateSession`, `AddSession`, `RemoveSession` | called by `main` and by sessions |
| `GameSessionManager` | the set of game sessions, a mutex | `Add`, `Remove` | `OnConnected`, `OnDisconnected` |
| packet handlers, `Room`, `Player` | player ids, `_players` per session, `Room::_players`, a mutex | `Handle_C_LOGIN`, `Handle_C_ENTER_GAME`, `Handle_C_CHAT`, `Enter`, `Broadcast` | `Session::Send` of all members |
| `ServerPacketHandler`, `ClientPacketHandler` | the table `GPacketHandler` | `Init`, `HandlePacket`, `MakeSerializedPacket` | protobuf, the handlers |
| `IocpCore` | the port | `RegisterSocket`, `Dispatch` | every handler, by `owner` of the event |
| `PacketGenerator` | the lists of packets and the next id, in one run | `parse_proto`, the template | the `.proto` file, both ends' headers |
| `main` of both programs, `ThreadManager` | the threads | start, `Launch`, `Join` | the services |

What makes this code hard to get right, and to test:

* *Locks within locks.* `Room::Broadcast` takes one session's lock after the other
  while it has the room's; completions hold the sessions' locks on other threads.
* *Concurrency.* A `Send` finds `_sendRegistered` set while `ProcessSend` is
  about to clear it; `Disconnect` is called by whichever handler fails first;
  logins draw ids and chats reach the room at the same time.
* *Ordering.* `ProcessConnect` registers the session in two registries under two
  locks, and only then posts the receive; `ProcessDisconnect` takes it out and
  crashes the server when it is not there; a player enters the room before the
  reply that says so is queued.
* *Partial failure.* Every overlapped call can be refused at once
  (`WSASend`, `WSARecv`, `DisconnectEx`, `AcceptEx`), complete with zero bytes,
  or complete later; each has its own path, and failed completions are
  dispatched like successful ones.
* *Bounds.* Sizes and ids are 16 bits, the receive buffer has ten chunks and is
  compacted with `memcpy`, there are as many accept events as `_maxSessionCount`.
* *Liveness.* A queued buffer must not wait for a wake-up that has already been
  consumed; a disconnected session must leave the registries.

What makes each component correct is listed with its module below.

## 2. The modules

| module | models | abstract module it implements | proofs |
|---|---|---|---|
| `SessionSend` | send path of one session | `SendChannel`: a FIFO channel | `SessionSendProofs` |
| `PacketRecv` | receive path of one session | `PacketStream`: one call per packet | `PacketRecvProofs` |
| `SessionLifecycle` | accept, connect, receive loop, disconnect, registries | `SessionRegistry`: connected, registered and removed once, in order | `SessionLifecycleProofs` |
| `GameRoom` | handlers, players, room | `ChatRoom`: an atomic room | `GameRoomProofs` |
| `ChatDelivery` | `Broadcast` over the send paths of all members, with all locks | - | `ChatDeliveryProofs` |
| `PacketCodec` | header, sizes, handler table, a chat end to end | - | `PacketCodecProofs` |
| `PacketGenerator` | the ids that builds of both ends give to packets | - | `PacketGeneratorProofs` |
| `ServiceStart` | both mains, `Start`, listening, first accepts | - | `ServiceStartProofs` |

`MCSessionLifecycle`, `MCGameRoom` and `MCChatDelivery` add a symmetry set.

The whole system in one product would be beyond TLC. `ChatDelivery` is the product
of the two parts that share locks, the room and the sessions' send paths, with the
steps between two changes of a lock taken as one. The others compose by assume and
guarantee: `SessionLifecycle` establishes `OneReceiver`, which lets `PacketRecv` have
one program counter and `GameRoom` and `ChatDelivery` name a running handler by its
session; it has `Send` as "at most one outstanding `WSASend`", which is what
`ExclusiveSendEvent` of `SessionSend` shows; `GameRoom` puts packets at the end of a
session's queue, and `SendChannel` says what becomes of them there; `PacketCodec`
shows that what the server sends is framed by its own size, whatever clients say,
which is what `PacketRecv` takes of a peer's stream (a client frames what fits, see
there), and takes the ids from the handler table, on which `PacketGenerator` shows
both ends to agree.

### SessionSend

An action is the code between two points at which another thread or the kernel
can see the state; `pc` names the next one. `lock` is the mutex of `WRITE_LOCK`.
`Send` pushes and exchanges `_sendRegistered` under the lock, `RegisterSend`
moves the queue into `_sendEvent`, `WSASend` posts it, is refused softly or with
a lost connection (`HandleError` and `SendFailed`), and `Complete` is the kernel.
`ProcessSend` clears the event *outside* the lock, then looks at the queue under
it. `OtherDisconnect` is any other handler of the session.

* `ExclusiveSendEvent`: one thread or the kernel uses `_sendEvent`, never two.
* `BuffersPinned`: while the kernel has the buffers, the event keeps them and the
  reference to the session.
* `NoStrandedBuffer`: on a connected session a queued buffer has somebody who
  will send it - the lost wake-up cannot happen.
* `NothingOvertaken`: what is transmitted, given up or queued is in order.
* `ImplementsChannel`: refinement of `SendChannel`.
* `EventuallySent`: under fairness an accepted buffer leaves the queue as long as
  the session stays connected.

### PacketRecv

The buffer holds offsets of the peer's stream, so a byte that is lost, doubled or
read at the wrong place shows. `RecvBuffer` is modelled with its real cursors,
`OnWrite`/`OnRead` with their overflow branches, `Clean` with its `memcpy`: where
source and destination overlap the result is any content (undefined behaviour).

* `ReceiveHasRoom`: a receive always has room for a chunk, so it never completes
  with zero bytes for lack of room (which would read as a disconnect).
* `WindowIsStream`: the unread bytes are the stream's next bytes, which includes
  that `memcpy` is never called with overlapping ranges.
* `NoPacketLeft`: no complete packet is in the buffer when a receive is posted.
* `NeverOverflows`: the two overflow disconnects are dead code.
* `ImplementsStream`: refinement of `PacketStream`; `EveryPacketHandled`: liveness.

The constructor raises the number of chunks to at least 2; the server passes 10.
The proofs need 3, and with 2 `WindowIsStream` is violated (a mutant shows it).

### SessionLifecycle

Three kinds of completions per session and one per accept event; a worker
dequeues one and goes through the handler statement by statement. An outstanding
operation and its undelivered completion are one state. `refused` sessions are
those whose `DisconnectEx` was refused at once (the code does not retry);
`RemoveSession`'s `ASSERT_CRASH` is the label `crashed`.

* `RemoveNeverCrashes`: the registry is never asked to remove what it does not
  have, however many handlers disconnect.
* `OneReceiver`: one thread at most is in a session's receive path - the buffer
  and `_players` have no lock.
* `RegistriesAgree`: who can be found is registered and counted, who receives can
  be found, and who is registered and no longer connected is being taken out (or
  its `DisconnectEx` was refused).
* `ImplementsRegistry`: refinement of `SessionRegistry`, which has the two registries,
  who is connected and who is closed, and nothing of workers and completions: a
  session connects, is registered, published, dropped, closed, withdrawn and
  deregistered, once and in this order. That it never comes back, although late
  completions still run, is part of it.
* `NoDeafSession`: a connected session has a receive outstanding or a thread that
  will post one. Sessions in `deaf` are the exception, as the code is: their
  `WSARecv` was refused with an error that is only logged.
* `NoSlotLost`: every accept event waits or is in the hands of one thread.
* `DisconnectedIsReleased` (liveness): a disconnected session loses its last
  reference - except after a refused `DisconnectEx`, and except when it has
  logged in, because the player and the session own each other
  (the `TODO` at `Player.h:10`).

### GameRoom

The handlers of all sessions, interleaved, at most `Workers` at a time.
`Room::Broadcast` is one step per member under the room's lock.

* `IdsIdentify`: a player id is one player of the whole server.
* `EnterReplyMeansMember`: who was told `S_ENTER_GAME` is in the room.
* `ImplementsChat`: although sent member by member, chats are heard by all who
  are in the room, once, in one order: refinement of `ChatRoom`.

### ChatDelivery

Worker threads take packets and completions from one port. A thread in
`Room::Broadcast` has the room's lock and goes through the members by id (a
`map`), taking the lock of each session for `Session::Send` and keeping it for
`RegisterSend`; `ProcessSend` takes the session's lock on another thread. `holder`
says who has which lock. A `WSASend` is refused (softly or with a lost connection),
fails after it has sent a part, or completes; a peer may go at any time. `lost`
has what was given up.

* `OneConversation`: no two clients hear two chats in different orders, and what
  one client says, `S_ENTER_GAME` included, comes in the order it was said -
  whatever sends fail. (That the reply may come *after another's* chat is what the
  code does: the player enters the room first.)
* `NoChatMissed`: for a member for which no send has failed, wire, event and queue in
  a row are the chats said since it entered, each once and in the order of the
  broadcasts, with one `S_ENTER_GAME` somewhere between them. Missing are only the
  last chat while `Broadcast` has not come to this member, and the reply while
  `Handle_C_ENTER_GAME` has still to send it.
* `NoCircularWait`: workers do not wait for each other's locks in a circle, nor one
  for itself (`std::mutex` is not reentrant). It is stronger than that: a chain of
  waiting workers is at most two long, room then session.
* `EveryPacketDelivered` (liveness): although threads wait for each other's locks,
  a packet for a member gets to its peer, unless a failed send gave it up or the
  session is disconnected.

### PacketCodec

`MakeSerializedPacket` with its casts to 16 bits, the handler table and a chat
from a client through `Handle_C_CHAT` to `Handle_S_CHAT`. A text is named by its
length, and a client says texts of any length: nothing in the code asks whether
they fit. A message's size is protobuf's (tag, varint, text); `SerializeToArray`
into too few bytes writes nothing, and `ParseFromArray` does not take a payload of
zeros (both external; that a text is valid UTF-8, as a proto3 `string` must be, is
taken for granted). `MakeSerializedPacket` ignores what `SerializeToArray` returns.
So a text that does not fit has one of three ends:

* the payload's size is cut, the payload is not written, and `HandlePacket` calls
  no handler because it cannot be parsed ("unparsed");
* the payload's size is cut to exactly zero: what arrives is an empty chat;
* the packet's size is cut to less than a header, so that the header and what is
  serialised overrun the `SendBuffer`: the process crashes, or goes on and sends
  bytes that are no packet ("crashed", "torn").

The properties:

* `ServerNeverCuts`: whatever clients say, the `S_CHAT` that the server makes is
  whole and framed by its own size. It rests on `S_CHAT` being no larger than the
  `C_CHAT` that was parsed; one more field would break it (the mutant).
* `ChatComesThrough`: a text that fits is what the other client's handler is given;
  of one that does not fit no handler is given a part, or anything but an empty chat.
* `EveryIdHasAnEntry` does **not** hold, see section 5.

### PacketGenerator

The ids of packets are written down nowhere: each build of each end runs
`PacketGenerator` over the `.proto` file and counts. A file is the sequence of the
kinds of its lines; lines are added at its end at any time, also between the builds
of the two ends and during a run, which has read the file at its start.

* `EndsUnderstandEachOther`: what an end sends has one id, at which the other end,
  built at any other time and with the prefixes the other way round, has that
  packet's handler, or none if it is older - never another's.

That lines are only ever added at the end is an assumption on the developers: one
that is inserted in the middle renumbers what follows, and both ends have to be
built again.

### ServiceStart

The server's `main` (each call of `StartListen`, each `RegisterAccept`, each
`Launch`), the workers' `ProcessAccept`, the client's `main` with `RegisterConnect`,
the kernel's backlog. Any call may be refused; `main`'s `ASSERT_CRASH` and the use
of a null session are crashes. A failed `ConnectEx` runs `ProcessConnect`
(`IocpCore.cpp:41`): the client then has a session that counts as connected and never
receives ("unconnected"). On a connection that was made, the client's `WSARecv` may
be refused as well: `HandleError` disconnects, or only logs the error, and the session
stays connected without a receive ("deaf").

* `AcceptedOnce`: a connection is with one accept event and one worker, and is never
  lost: whoever got a connection is in the backlog, with an accept event whose
  completion is in the port or in the hands of a worker, served or given up; and
  who is given up is closed, or its worker is about to do it.
* `EveryClientServed` (liveness): also who came before a worker ran is served or
  given up, unless the server crashes.
* `DroppedClientLearns` (liveness): who is given up after the connection was made
  gets its connection closed, since the accept event's next session replaces the
  last reference to this one. A deaf client is the exception, as the code is: it has
  no receive outstanding that could tell it.
* `NagleDisabled` does **not** hold, see section 5.

## 3. The runs

| run | what it shows | bounds | distinct states |
|---|---|---|---|
| `send` | safety, refinement, liveness of the send path | 3 threads, 6 sends | 39 801 |
| `recv` | safety, refinement, liveness of the receive path | every stream of 19 bytes; header 3, packets 3-5, chunk 6, 3 chunks | 106 534 |
| `lifecycle` | registries, refinement, receive path, accept events | 3 workers, 2 accept events, 3 sessions | 690 962 |
| `lifecycle_live` | disconnected sessions are released | 2 workers, 1 accept event, 2 sessions | 40 344 |
| `room` | ids, membership, refinement | 2 sessions, 4 packets each, 2 workers | 2.25 million |
| `delivery` | order and completeness of chats, no deadlock | 3 threads, 2 members, 2 chats, 2 failures | 874 153 |
| `delivery_live` | every packet is delivered | 3 threads, 2 members, 1 chat, 2 failures | 175 285 |
| `codec` | cut sizes, texts, the table | the code's own widths, every text up to twice 2^16 | 327 689 |
| `codec_ids` | violation: section 5 | id 65535 | - |
| `generator` | the ends' ids agree | every file of up to 4 lines, builds at any time | 441 654 |
| `start` | connections while the server starts | 2 accept events, 2 workers, 3 client sessions | 259 668 |
| `start_nagle` | violation: section 5 | 1 of each | - |

Why the bounds are enough. In `SessionSend` a race is between at most a sender,
the thread in `ProcessSend` and the kernel, so three threads include a bystander
that disconnects; six sends fill the queue behind an outstanding batch more than
once. The receive path is scaled down in proportion: the stream is longer than
the buffer (18 bytes), so `Clean` runs with the cursors equal, and with a
remainder to move, and a receive ends everywhere in a header and a packet. In
`SessionLifecycle` three sessions over two accept events reuse an event, and three
workers are a receive, a send and a disconnect of one session at a time. Four
packets are login, entering and two chats. In `ChatDelivery` a broadcast, a reply
and a completion are under way at once, two chats can be put in two orders before
two members, and two failures strike both members or one twice. In `PacketCodec` texts up to two
moduli (`MaxText`) are cut in every way: to any payload size, to none, to less than a
header. Four lines are two
packets in either direction, or a packet behind lines that are none, with builds of
the ends before and after each. In `ServiceStart` there are more clients than
accept events. Symmetry is used in safety runs only (`lifecycle`, `room`,
`delivery`), on sets whose members are interchangeable (members of a room are not:
`Broadcast` goes by their ids).

Deadlock is checked in every run: where a system may stop, a disjunct `Quiescent`
says when (nothing outstanding, everybody idle), so anything else is an error.

## 4. Fairness

Always weak fairness of the steps of a thread that is inside a handler: the
operating system schedules threads, and no handler waits except for a mutex
whose holder is itself inside a handler.

* `SessionSend`: `WF` of each thread's steps, of the kernel finishing a `WSASend`
  it accepted, and of *some* idle worker taking the completion - workers return to
  `GetQueuedCompletionStatus` without a time limit.
* `PacketRecv`: `WF` of the session's own steps; **none** on the peer or on
  `ProcessRecv`, so `EveryPacketHandled` speaks of what has arrived.
* `SessionLifecycle`: strong fairness per completion, because the port's queue is
  first in, first out and workers keep coming back; a `WSARecv` is bound to
  complete only once its socket was disconnected. No fairness on clients.
* `ChatDelivery`: `WF` of each thread's way back to the port, and per session of its
  `WSASend` coming to an end. Nothing is assumed of the order in which threads get
  a mutex: with a bounded number of packets it is wanted only so often.
* `ServiceStart`: `WF` of both mains, the workers, the client's handlers and of the
  kernel matching a waiting connection with a posted `AcceptEx`, which includes
  that an `AcceptEx` is not refused for ever. None on `Establish`.

## 5. Disagreements with comments

* `ServerPacketHandler.h:9` says of the handler table "pkdId : 0~65535". It has
  `UINT16_MAX`, that is 65535, entries: the last id has none, and `HandlePacket`
  (line 44) does not check. Run `codec_ids`.
* `Listener.cpp:44` says that the Nagle algorithm is disabled; the call sets
  `TCP_NODELAY` to `false`, and accepted sessions inherit it. Run `start_nagle`.

Noticed and not made a run, as no doc, comment or test says otherwise: a chat that is
too long for 16 bits is cut without a word (section 2, `PacketCodec`).

Noticed and not made a run: `Listener.cpp:40` says that leftover data is discarded
while `SetLinger(0, 0)` leaves the default (it is sent in the background);
`NetAddress.cpp:17` ignores its `port` argument for 7777, which is what both mains
pass; the generator's template names `MakeSendBuffer` what the headers in the
repository, and the handlers, call `MakeSerializedPacket`, so that these headers
are not the output of that template (`GenPackets.bat`, which the projects call
before they build, is not in the repository);
`Session.h:59` marks `ProcessConnect` "Only-use Client", the `Listener` calls it;
`_maxSessionCount` bounds the accepts that wait, not the sessions.

## 6. What is proved

TLAPS proves the following for every value of the constants, under the
assumptions named in the modules.

* **SessionSendProofs** (`SendAssumption`: the mark of a free mutex is no thread).
  `IInv` has four layers above the types: the mutex is held exactly inside its
  scopes (`LockInv`); whoever uses `_sendEvent` has set `_sendRegistered`, so it
  is a token (`TokenInv`); the token is not left set by nobody on a connected
  session, and nothing is queued while it is clear (`WakeupInv`); what the kernel
  has is pinned (`PinInv`). None of the safety properties is inductive without
  the layers below it. From it: `TypeCorrect`, `SendEventIsExclusive`,
  `BuffersArePinned`, `NoBufferIsStranded`, and `Refinement`. `InOrder`
  (`NothingOvertaken`) has a second invariant, on the states of the channel to
  which the refinement maps: the queue has consecutive numbers, and what is before
  them is on the wire, in order, or dropped (`OrderInv`).
* **PacketRecvProofs** (`RecvAssumption`: a packet is smaller than a chunk, at
  least three chunks). `IInv`: the stream splits into packets (`StreamInv`), the
  cursors follow a boundary and the window is the stream (`CursorInv`), the room
  that `Clean` leaves (`RoomInv`). The argument of `Clean`: after `OnRecv` less
  than one packet is unread; when it moves, less than a chunk is free, so the
  read cursor is beyond the first chunk, and the ranges do not overlap. From it:
  `TypeCorrect`, `RoomForAChunk`, `WindowStaysStream`, `NothingLeftBehind`,
  `OverflowsNever`, `Refinement`.
* **GameRoomProofs** (`RoomAssumption`: finitely many sessions). `IInv`: ids that
  are in use were issued (`IssuedInv`), the lock is held exactly inside `Broadcast`,
  which starts before the first player (`LockInv`), who is entering owns the player
  (`EnterInv`). From it: `TypeCorrect`, `PlayersAreDistinct`, `ToldIsMember`,
  `Refinement`: a broadcast in progress is mapped to having been said at the moment
  the lock was taken, with what is left to send appended.
* **SessionLifecycleProofs** (`LifecycleAssumption`). No lock protects a session as
  a whole; it is handed on, and `IInv` says how: one that waits in an accept event
  is known to nobody (`WaitingIsUnknown`), the worker that connects it has it to
  itself (`NewIsAlone`), then one thread or the kernel has the right to its receive
  path (`OneReceiver`), a connected one is in `GSessionManager` or on its way there
  (`ConnectedIsKnown`), and one thread takes it out (`RemoverIsAlone`). From it:
  `TypeCorrect`, `RemoveFindsSession`, `ReceiverIsAlone`, `RegistriesStayTogether`,
  `NobodyIsDeaf`, `SlotsAreKept`, `NobodyComesBack` (stated in the proofs' module, a
  consequence of `Refinement`'s property in the concrete terms). That a registered
  session without a connection is being removed is a part of its own
  (`LeavingIsPursued`). `Refinement`: whoever changes a registry has one of these
  rights, and so finds the session in the state that `SessionRegistry`'s step asks
  for; whoever only knows a session can at most break its connection, which is then
  published (`KnownIsPublished`). `DeadAreOnlyInTransit` has a second invariant on
  top, of what an accept event in a worker's hands refers to, a session got in vain
  by a refused `AcceptEx` included (`HoldersInv`): a closed session that has left the
  service and has not logged in is kept by completions and by workers on their way
  back to the port, and by nothing that lasts.
* **ChatDeliveryProofs** (`DeliveryAssumption`: ids are positive, finitely many).
  The argument does not ask who has the right to send. `Path(s)`, the wire, the
  event and the queue of s in a row, only ever loses packets, except in `Send`,
  which puts one at its end. `PathInv`: a path has its own `S_ENTER_GAME` and
  chats, in the order of the log, none of its own before `S_ENTER_GAME`. What makes
  that inductive is what threads are about to send (`TodoInv`), that whoever sends
  a chat has the room's lock and its chat is the last of the log (`RoomLockInv`),
  that the log has each speaker's chats in order (`LogInv`), and that a session
  handles one packet at a time (`HandlerInv`). From it: `TypeCorrect`,
  `ClientsSeeOneConversation`. `NoChatMissed` needs more. `SendRightInv`, per session:
  `_sendRegistered` is the right to move its queue, which one thread has or the
  pending `WSASend`, and its lock is held inside `RegisterSend` only. `DueInv`: packet
  by packet, a path is the part of the log that is due. It is stated with positions
  instead of `SubSeq` (`AllOf`, `AllAround`), because a step then appends one packet
  or moves some from queue to event and from event to wire, which leaves the path as
  it is. From both (`RightAndDue`): `NothingMissed`, `WaitingEnds` (`NoCircularWait`)
  and `SomebodySends`: what is queued for a connected session is with a pending
  `WSASend` or with a thread in its send path that waits for no lock.
* **PacketCodecProofs** (`CodecAssumption`: the chat ids and the header fit the
  width), for texts of every length. `SerializeExact`: nothing is cut off a message
  that fits. `SerializeCut`: of one that does not fit, no payload is written, or the
  packet is smaller than its header; only when the payload's size is cut to zero does
  nothing follow the header. `IInv` says what a
  packet can be at the server (`ToServer`: whole, or unwritten and cut) and at a client
  (`ToClient`: whole, and what was said unless that was cut to nothing). From it:
  `TypeCorrect`, `ServerCutsNothing` (`ServerNeverCuts`), `ChatArrives`
  (`ChatComesThrough`).
* **PacketGeneratorProofs** (`GeneratorAssumption`). The id of a packet is a function
  of the lines before its own (`IdOf`, a cardinality), which never change; `IInv`
  says that runs under way and headers have the ids that this function gives. From
  it: `TypeCorrect`, `UnderstandEachOther`.
* **ServiceStartProofs** (`StartAssumption`). `IInv`: a completed accept event has a
  client (`ClientInv`), one that is being handled has one worker (`WorkerInv`), and
  a connection is in one place: the backlog, an accept event, served or given up
  (`PlaceInv`). No completion is lost, because `StartListen` registers the listening
  socket with the port before it listens (`ListenInv`), and what is dequeued, or
  given up and still open, has a worker (`HandsInv`). From it: `TypeCorrect`,
  `OneAccept`.

Every invariant and every action property and refinement of the passing runs is
proved. Only model-checked is liveness, since fairness and `ENABLED` are beyond the
prover. Each of the six liveness properties has a proved half, that what has to
happen is in somebody's hands:

| liveness (model-checked) | what is proved of it |
|---|---|
| `EventuallySent` | `NoBufferIsStranded`: somebody has the right to send what is queued |
| `EveryPacketHandled` | `NothingLeftBehind`: no whole packet is left when a receive is posted |
| `EveryPacketDelivered` | `SomebodySends`, `WaitingEnds`: and who has the right waits for no lock |
| `DisconnectedIsReleased` | `RegistriesStayTogether`, `DeadAreOnlyInTransit`: removal is under way, and afterwards nothing lasting keeps the session |
| `EveryClientServed`, `DroppedClientLearns` | `OneAccept`: the connection waits with an accept event, the port or a worker |

## 7. Not modelled

* `Service::Broadcast`, `GameSessionManager::Broadcast`, `Room::Leave`,
  `CloseService`, `SendBuffer::Copy` and `Append`: no caller (or no body).
* Login data, player types and names: no property depends on them. The index of
  `C_ENTER_GAME` is one of the players that `S_LOGIN` listed (the code's own
  "TODO: Validation"); the packet sizes
  in `PacketRecv`'s stream are those `MakeSerializedPacket` writes for a message that fits.
* Accumulation: nobody leaves the room, so the queues of dead members grow; and
  the depth of `RegisterAccept`'s recursion.
* `SocketUtil`, `NetAddress`: single calls, whose outcomes are the models' choices.
* Protobuf and the `*.pb.*` files: vendored or generated. They are more than 99 % of
  the C++ in the repository; of the hand-written lines the models stand for more
  than a third, and most of the rest is declarations, includes and wrappers.

## 8. The plan

Done: the eight modules above with runs and mutants, four abstract specifications,
and proofs of all the safety properties. What is left, in this order:

1. both ends of one connection as a composition of `SessionSend` and `PacketRecv`,
   with the client's side of a failed `ConnectEx` to the end;
2. `ChatDelivery` over `SendChannel`: that the send paths inside it are the channels
   that `SessionSend` implements, so that what is proved of the room's conversation
   rests on the statement-by-statement model by a theorem instead of by reading.
