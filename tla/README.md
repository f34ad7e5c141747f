# Verification of commutil

commutil is a C++ library for message-based clients and servers on top of libuv.
This directory holds a TLA+ development of it: modules translated from the source,
TLC configurations for small instances, and TLAPS proofs. Paths below are relative
to the repository, which is under `src/`.

## 1. Inventory

The library has three layers. **Transport** (`src/src/transport`) moves bytes over
TCP, pipes and UDP with one libuv loop per client, and one accept loop plus several
I/O tasks per TCP server. **Messages** (`src/src/msg`) turns bytes into framed
messages, pairs requests with responses on the client, and sessions with connections
on the server. **I/O** (`src/src/io`) holds the byte streams.

| Component | State | Operations | Hard behaviour | What makes it correct |
|---|---|---|---|---|
| MsgRequest | status, id, flags, request, response, time stamps, condition variable | tryGrab, setRequest, setFlags, setResponse, abortResponse, waitResponse, clear* | tryGrab takes the slot and stores the id in two steps; only the response is under the lock | one owner at a time; a waiter is woken with the response of its own request |
| MsgRequestPool | fixed array of slots, next id | getVacantRequest, waitPendingResponse, setResponse, abortPendingRequests, getRequestData, clearPendingRequest | no lock over two accesses to a slot | a response finds the slot of its request, or nothing |
| MsgClient | pool, connect data | sendMsg, transactMsgResponse, onMsg, onDisconnect, waitConnect | application threads against the I/O thread; timeouts; lost connection | own response; waits end |
| DataClient, DataStreamClient, TcpClient | socket, reconnect timer, ready flag | start, onConnect, onTimer, write, onRead, onClose, waitReady, stop | a retry against a connect that is still pending; cancelled writes; stop against a loss | connects in the end; the socket is closed once; a loss is announced |
| MsgSender, MsgBacklog, DataLoopListener | backlog by id, request time and resend time; size; timers; shutdown flags | send, resend, expire, prune, stop | timer rounds against application threads; size limit; shipping the backlog at stop | an accepted message is kept until it is answered, expired or pruned; stop() returns |
| DataServer | connection slots, run state | grabConnectionData, replyMsg, stop | slots are named by index and reused | a slot has one connection; a reply reaches its client |
| TcpServer | pending connections and a pipe per I/O task | pipe handshake, handleNewConnection, handlePipeRead, onRead, stop | hand-over of a socket between threads; failures after each libuv call | pipes, sockets and slots stay paired |
| PipeServer | one loop, slots | the same without hand-over | slot reuse | the same |
| UdpServer, ConcurrentHashTable | slots, table from address to slot, expiry timer | onRecv, onTimer, writeTransport, getItem, setItem, removal | table with holes; expiry against traffic and replies | slots, table and listener agree; one slot per client |
| MsgMultiplexer | a queue, a lock and a worker per queue; map from slot to queue | onConnect, onDisconnect, onMsg, pushEvent, msgTask, stop | several I/O tasks push, several workers pop; a slot changes queue | order per client; nothing lost at stop |
| MsgServer, MsgSession | sessions by slot index | onConnect, onDisconnect, onMsg, replyMsg, stop | workers update one table without a lock | a session per open connection |
| MsgAssembler, SegmentedInputStream | per connection: header, body or resync; list of buffers, offset, size | onBytesReceived, onWaitHeader, onWaitBody, onResync, reset | messages cut anywhere; resync after garbage; reuse of a stream | every message once and in order; reads stay in bounds; the loop ends |
| Frames, batches, headers, fixed streams | none across calls | encode, decode | empty buffers, compression, a listener that refuses | decode inverts encode |
| Logging, initialisation, serialization templates, gzip-hpp | | | | not part of the protocol |

How they interact: an application thread in `MsgClient` writes to a slot and calls
`DataClient::write`, which signals the I/O thread with `uv_async_send`. The I/O thread
writes to the socket, reads the answer, and calls back `MsgAssembler`, `MsgClient::onMsg`
and `MsgRequestPool::setResponse`, which wakes the application thread. `MsgSender` sits on
top of `MsgClient`, hears of writes and reads on the I/O thread, and resends from a timer of
the same loop. On the server the accept loop hands a socket to an I/O task over a pipe; the
I/O task calls `MsgAssembler` and `MsgMultiplexer`, which pushes an event to a worker; the
worker calls `MsgServer`, and `replyMsg` goes back to the I/O task with `uv_async_send`.

`PROJECT.json` lists the components with their state of work, and under `hazards`
everything found that is hard to test, at its line.

## 2. Modules

| Module | Models | Checked through |
|---|---|---|
| `MsgRequest` | the operations on one slot, one operator per indivisible access | MsgClient, MsgSender |
| `MsgClient` | application threads, the I/O thread and the pool of slots | `MCMsgClient`, two runs |
| `StreamClient` | the connection of a TCP client from start() to stop(), and the threads that wait for it | `MCStreamClient`, one run |
| `MsgSender` | senders, backlog, resend timers, expiry and stop() on top of the slots | `MCMsgSender`, two runs |
| `MsgServer` | pipe handshake, accept loop, I/O tasks, queues, workers, sessions, stop() | `MCMsgServer`, three runs |
| `MsgFrame` | frames and batches as values: writer and reader | MsgAssembler |
| `MsgAssembler` | assembly of messages from buffers, over the segmented stream | `MCMsgAssembler`, two runs |
| `MsgChannel` | abstract: an ordered channel that delivers at most once | refined by MsgAssembler |
| `ConcurrentHashTable` | the open-addressing table, one operator per call | UdpServer |
| `UdpServer` | pseudo-connections of UDP clients, expiry, replies, life cycle | `MCUdpServer`, two runs |
| `MsgClient_proofs`, `StreamClient_proofs`, `MsgSender_proofs`, `MsgServer_proofs`, `MsgServerSession_proofs`, `MsgFrame_proofs`, `MsgAssembler_proofs`, `UdpServer_proofs` | theorems about the module of that name | tlapm, section 4 |

Where the code can reach undefined behaviour (freed memory, an index past an array,
`uv_close` on a closing handle, a race on a container), a variable (`fault`, `wild`,
`aborted`, the phase `crashed` of UdpServer) records it and the behaviour of the model ends: nothing is claimed of what
the program does from there on, and each property says whether it covers that state.

### MsgRequest and MsgClient

State: `requests` is `m_requests`, with the fields of a `MsgRequest`; `nextRequestId`
is `m_nextRequestId`; `pc` and `call` are the position and the local variables of each
application thread; `loop` is the callback the I/O thread is in; `outbox`, `sent` and
`inbound` are writes queued by `uv_async_send`, requests on the wire and responses on the
wire; `conn` is the connection; `dispatched` is what the listener got.

| Code | Actions |
|---|---|
| `MsgClient::sendMsg`, new request | Begin, TryGrab (one per probed slot), StoreId, StoreFlags, StoreRequest, Write or WriteFails and ForgetRequest |
| `transactMsgResponse` | the same, then EnterWait, Wait, ReleaseSlot |
| `sendMsg` with REUSE, as MsgSender calls it | ResendFind, ResendFlags, ResendWrite or ResendWriteFails |
| `DataClient::onAsyncWriteStatic`, `writeTransport` | AsyncWrite, AsyncWriteFails |
| `MsgClient::onMsg`, `MsgRequestPool::setResponse` | OnMsg, OnMsgStore, OnMsgNotify |
| read error, `onClose`, `abortPendingRequests` | Disconnect, OnClose, AbortNext (one per slot) |
| the server (external) | ServerReply |

Each access to a slot is a step because the pool takes no lock over two of them. A
response is identified by the id of the request it answers. `copy` numbers the
transmissions of one message, so that a resent message and its original are two.

Abstractions: the client is connected at the start; `m_nextRequestId` has no initialiser in the
source and starts at 0 here (only the difference of ids matters); ids do not wrap; every
cause of a failed write is one action. A write that `writeTransport` cannot submit is lost without
a word, on a live connection too (AsyncWriteFails): a caller without a timeout then waits as long as the
connection lives. The server that answers is external here, because any peer may; MsgServer.tla is about
this library's. The backlog of MsgSender appears
as `InBacklog`, the messages it may resend: those filed in a slot that no
thread is preparing and that are not already queued.

### StreamClient

State: the I/O thread (`io`), the thread in `stop()` (`stop`), the socket as libuv sees it
(`sock`, `pending`), whether its close calls `onCloseStatic` (`announce`), the reconnect
timer, the flags of DataClient and of MsgClient's ConnectData, writes queued and under
way, and each waiting thread.

| Code | Actions |
|---|---|
| `DataClient::start`, `ioTask`, `TcpClient::startStreamTransport` | Start, StartTransport, StartTransportFails |
| `DataStreamClient::onConnect`, `setReady`, `ConnectData::notifyConnect` | ConnectOk, ConnectFails, ReadStartFails, ConnectCanceled |
| `onTimer`, `startStreamTransport` | Tick, OnTimer (with Reconnect and ReconnectBusy) |
| `write`, `onAsyncWriteStatic`, `writeTransport`, `onWrite` | Write, AsyncWrite, OnWrite, OnWriteFails |
| `onRead` with an error, `onClose` | OnReadError, OnClose |
| `stopTransportLoop` | Stop, AsyncStop, WalkAndClose, StopDone |
| `waitReady`, `waitConnect` | Wait |

libuv is external; the module's header lists the rules of it that are used. `spoiled`
records the four ways in which the client itself costs itself its socket: a connect that
outlasts the reconnect period, a retry that `uv_tcp_connect` refuses at once, a failed write, and a failed
`uv_read_start`. `notify_one` wakes one blocked thread, chosen freely. The `uv_shutdown` in `stopTransport` is
not a step: nothing waits for it, and the close that follows the join cancels it. That `stopTransport` forgets
the stream handle is the end of `Looping`: no write is taken afterwards.

### MsgSender

State: the slots with the ages of their time stamps, the backlog as one sequence in the
order of request times, its size counter modulo `SizeModulus` (each message has its own
`PayloadSize`), the armed timers, the loop's
position in its callback, datagrams under way, the shutdown flags, which messages were
freed, pruned or accepted. A message is `robbed` when it loses its slot to an expiry before the slot is
filled, or to a call that fills its slot too late. Time is kept as ages that stop at the largest difference the
code tells apart, so the clock has no bound.

| Code | Actions |
|---|---|
| `sendMsg`, `transactMsg` | Begin, Grab or GrabFails, Fill or FillFails, WaitOk or WaitFails |
| `recvResponse`, `renewRequestId` | HandleOk, HandleRaces, HandleRefused |
| `onAsyncWriteStatic`, `onLoopSend` | AsyncWrite |
| a response, a lost datagram, a closed handle | Recv, part of AsyncWrite, Disconnect |
| `processPendingResponses` | PassSkip, PassArrived, PassExpire, Expire (one slot per step) |
| `onLoopTimer`, `pruneBacklog`, `resendShippingBacklog` | TimerFires, PruneHead, PruneDone, ResendOk, ResendFails, ResendFreed, Rearm |
| `stop` | StopBegin, OnLoopInterrupt, WaitBacklogEmpty, LoopStops, Join |

A slot is taken in one step and filled in the next, the point between them being the one
at which an expiry pass can see it with the time 0. MsgClient.tla has the finer steps.
`m_requestSet` and `m_minHeap` are ordered by time stamps in the slots, which change under
them. So the entries need not be in order: an insertion then lands in any place that fits
between the neighbours it is compared with (`Places`), `std::lower_bound` halves the range
regardless (`LowerBound`) and may miss the entry, and a comparison that reaches a freed
message may or may not happen, as the tree decides. `pruneBacklog` subtracts the size of a message,
not below zero (`Reduced`), and the removal subtracts it again, modulo the width (`Shrink`). A request that `recvResponse` removes while the loop is inside the
backlog is a race on the containers, and a fault.

### MsgServer

State: `pipeConnects`, `serverPipe` and `clientPipe` are the handshake of the I/O tasks;
`conns` is the array of `ConnectionData`; `acceptor` and `io` are the positions of
the accept loop and of each I/O task; `pendingConns` and `pipe` are the two halves of a
hand-over; `nextQueue`, `connectionMap` and `eventQueue` are the multiplexer's;
`worker` is the position of each `msgTask`; `sessions` is `m_sessions`; `asyncWrites` are
replies on their way to an I/O task; `sent` and `seen` count messages read and dispatched.

| Code | Actions |
|---|---|
| `TcpServer::handleNewPipeConnection`, `handlePipeConnect` | AcceptPipe, AcceptPipeFails, ListenFails, HandlePipeConnect, PipeConnectFails |
| `TcpServer::handleNewConnection` | GrabConnectionData (one per slot looked at), AcceptFails, PassConnection, PassFails |
| `TcpServer::handlePipeRead` | HandlePipeRead, PipeReadFails, AssignQueueId, PushEvent, ReadStartFails |
| `onReadStatic`, `DataServer::onRead` | OnRead, OnReadError, OnDisconnect, PushEvent |
| `DataServer::replyMsg`, `onAsyncWriteStatic` | part of OnMsg, AsyncWrite |
| `MsgMultiplexer::msgTask`, `handleEvt` | StartDrain, Pop, EndDrain, OnStop |
| `MsgServer::onConnect`, `onDisconnect`, `onMsg` | OnConnectCheck, CreateSession, CreateSessionFails, OnDisconnectCheck, DeleteSession, OnMsg |
| `MsgServer::stop` | StopServer, StopAcceptor, StopIoTask, PushStop, Stopped |

The check and the update of a session are two steps, and so are the load and the store of
`m_nextQueue`: neither is under a lock. The queue's lock is modelled: a worker holds it
while it drains. A `Client` is one accepted socket and, since `grabConnectionData` takes
the next id for each, also its connection id.

Abstractions: messages arrive whole (MsgAssembler.tla is about how they do); pipes are
accepted in the order in which the tasks connected; a denied
connection leaves no trace; the branch of `onMsg` for a message without a session is not
modelled beyond the dispatch; a socket that is overwritten when a slot is taken twice is
not closed in the model; a null write request, with which `uv_write2` is called all the same
(`tcp_server.cpp:425-429`), is not modelled; a `uv_write2` that fails, at once or in `onWrite2Static`, gives the slot
back or keeps it; an error on the pipe may end the reading, and the end of the pipe, which comes only when the
loops are being closed and then pops a connection that nobody will serve, is left out; a failing libuv call or session factory is a fault, at most
`MaxFaults` per run; a slot that `handlePipeRead` takes over is read from by nobody until
its `uv_read_start`, and a failing `handlePipeRead` leaves the socket of the slot as it was or
initialised anew; a reply found while the server stops is dropped; stopping tasks
that a failed `uv_listen` has already stopped is not modelled.

### MsgAssembler, MsgFrame, MsgChannel

State: what the peer still has to send (`input`), the buffers with `m_offset` and `m_size`
as the code keeps them, the state and the header of the assembler, and what the listener
got. A connection is `sound` when it began with a fresh stream and without junk and no
allocation failed on it, and `intact` as long as no allocation failed on it. After a failed allocation
the place may be inside a message, and `Msg::deserialize` does not look at the magic word: what it reads
there has any length up to `m_size` (`Reads`) and reaches the listener as a message that nobody sent, 0 in
`delivered`; a message that is cut to `m_size` reaches it as it is. Only a read beyond the buffers or beyond the
message that was allocated is a fault. Each action is one iteration of the loop in `onBytesReceived`; an
iteration that changes nothing is a loop that spins, and has no step.

| Code | Actions and operators |
|---|---|
| `onBytesReceived`, `appendBuffer` | Arrive, LoopEnds |
| `onConnect`, `onDisconnect`, `reset` | Reconnect |
| `onWaitHeader`, `onWaitBody` | OnWaitHeader, WaitForBody, OnWaitBody, AllocFails |
| `onResync`, `searchBytes`, `commutil_strnstr` | ResyncFound, ResyncLast, ResyncBorder, ResyncNextBuffer |
| `peekBytes`, `copyBytes`, `skipBytes` | Peek, Take, Skip |
| `MsgFrameWriter`, `MsgBatchWriter` | SingleFrame, BatchFrame, WriteBatch |
| `MsgFrameReader`, `MsgBatchReader`, `FixedInputStream` | ReadMsgFrame, ReadBatch, ReadNext, ReadMsg, Ended |

A stream is a sequence of numbers: a magic word of three, one for the other header fields,
and the payload with its integers kept whole; `HasNul` says which of them contain a byte 0, at
which the search stops. Neither the junk nor the buffers of an application contain the magic word
(`MagicAssumption`). The batch flag of a frame comes from `sendMsgBatch` and `transactMsgBatch`
of MsgSender; the frame writer does not set it. `MsgChannel` is what the layer above relies on: messages in order
and at most once, none left out while the connection is sound, none that nobody sent while it is intact.
`ImplementsChannel` is the refinement, with `delivered`, `sound` and `intact` as they are.

### UdpServer and ConcurrentHashTable

State: the slots with address, id, age and table entry, the table, the time since the
timer fired, which client each slot was announced for, and replies under way. Actions: Initialize,
Start, Stop, Terminate; RecvKnown, RecvNew, RecvRefused, RecvWild and RecvError for `onRecv`; OnTimer and
Tick; ReplyMsg and WriteTransport. One thread runs the loop and nothing else uses the
table, so each of its calls is one operator. The age of a fresh slot is arbitrary, because
`m_lastAccessTimeMillis` is not initialised. A receive error comes with a null address, which
`onRecv` reads (`udp_server.cpp:158`): the model ends there. `terminate()` drops the slots and the table and tells the
listener nothing, so after a restart it may still know clients of an earlier life.

## 3. Runs

Passing runs:

| Run | Instance | Shows |
|---|---|---|
| `client_safety` | 2 threads, 2 slots, 4 ids, no resend | `ReplyFindsItsSlot`: a message in flight keeps its slot, also after its caller timed out; `OwnResponse`: a transaction returns the response to its own request; `ListenerLeavesTransactions`: the listener does not get a response that a transaction waits for |
| `client_live` | 2 threads, 1 slot, 3 ids, 1 resend | `SlotExclusive`: no slot has two running calls; `WaitEnds`: a wait that the abort pass has still to reach ends |
| `client_connect` | 2 threads in each wait, period 1, 2 failures, 2 writes | `ClosedOnce`: only the four causes close the socket twice; `ConnectsInTheEnd`; `WaitReadyReturns`, `WaitConnectReturns`: some waiting thread comes back; `LossIsAnnounced` |
| `sender_backlog` | 1 thread, 2 slots, 2 ids with messages of 3 and 1 bytes, backlog limit 1, all timeouts 1 | `UnansweredIsKept`: an accepted message is not forgotten; `CounterIsContent`: until the first pruning the size counter is what the backlog holds |
| `sender_stop` | 1 thread, 1 slot, 2 ids, all timeouts 1 | `StopReturns`: with the backlog shipped, or at the shutdown deadline |
| `server_order` | 2 slots, 2 I/O tasks, 2 queues, 2 clients, 2 messages, 1 fault | `DispatchInOrder`: each client's messages in order, none twice, none left out; `StopDrains`: none left when stop() returns; `ReplyReachesLive`: a reply to a client that is connected goes to it; `PipesArePaired`: the server listens only when each task has its own pipe |
| `server_stop` | 2 slots, 1 I/O task, 1 queue, 3 clients, 1 message, no fault | `SessionFollowsConnection`; `PendingMatchesPipe`: sockets and slots stay in step; `StopCompletes`: stop() returns |
| `assembler_stream` | 2 connections, 2 scripts of messages, every cut into buffers, junk, 2 failed allocations | `SoundIsDelivered`, `SoundIsInBounds`, `FramesAreRead`, `AssemblyEnds`, `ImplementsChannel` |
| `udp_clients` | 3 clients with one hash, 2 slots, table of 8, 5 datagrams, 2 lives | `ViewsAgree`, `OneSlotPerClient`, `UnexpiredAreAnswered`, `SilentIsForgotten` |

Each module also has its `TypeOK` checked in one of them. Runs that show a disagreement
between the code and what it says of itself, each with the finding in `PROJECT.json`:

| Run | Property | What happens |
|---|---|---|
| `server_race` | `NoSessionRace` | a reused slot moves to another worker while events of its last client are queued at the old one: two `onConnect` are between check and update of one entry |
| `assembler_reset` | `ArrivedIsDelivered` | a connection that ends inside a buffer leaves its offset to the next one of the index |
| `udp_slot` | `DatagramFindsItsSlot` | the table keeps an id where an index is read back |

Further configurations in this directory are not among the runs. Each has one property that a comment of the code
promises and that TLC finds violated; they are kept to be run when the code they are about changes.

| Configuration, module | Property | What the code says | What happens |
|---|---|---|---|
| `MsgClient_resend.cfg`, MCMsgClient | `OwnResponse` | `msg_sender.h:112-114` "waiting for the matching response to arrive (matched by unique request id)" | a second answer to the previous request of the slot arrives between the two halves of `tryGrab` (`msg_request.cpp:19`) |
| `StreamClient_retry.cfg`, MCStreamClient | `RetriesUntilConnected` | `data_stream_client.cpp:155-159` "check if connected, if not then check if reconnect time has arrived", "issue reconnect" | the timer closes a connect that is still pending, and then closes the closing socket (`tcp_client.cpp:43`) |
| `StreamClient_ready.cfg`, MCStreamClient | `EveryReadyWaiterReturns` | `data_client.h:87` "Waits for the data client to become ready for IO. This is a blocking call" | `setReady` wakes one of two threads (`data_client.cpp:262`) |
| `StreamClient_woken.cfg`, MCStreamClient | `WokenWaiterReturns` | `msg_client.h:129` "Waits fot the TCP connection to connect." | a loss resets the connect data before the woken thread looks (`msg_client.cpp:238`) |
| `MsgSender_limit.cfg`, MCMsgSender | `BacklogFits` | `msg_backlog.h:36-39` "Ensures backlog fits size limit. Removes oldest requests as needed." | the size of a pruned message is subtracted twice, and pruning ends too early (`msg_backlog.cpp:126`) |
| `MsgSender_freed.cfg`, MCMsgSender | `FreedIsNotResent` | `msg_backlog.h:33` "Removes a specific request from the backlog (either finished or expired)." | a refused or expired message is freed and stays in the backlog (`msg_sender.cpp:476`) |
| `MsgSender_spin.cfg`, MCMsgSender | `StopAlwaysReturns` | `msg_sender.h:57` "Stops the message client." | the resend loop spins on a message whose slot is another's (`msg_sender.cpp:492`) |
| `MsgAssembler_spin.cfg`, MCMsgAssembler | `StuckLoopEnds` | `msg_assembler.cpp:84` "now assemble messages until stuck" | with part of a header in the stream the loop neither consumes nor ends (`msg_assembler.cpp:122`, `:216`) |
| `UdpServer_disconnect.cfg`, MCUdpServer | `NeverDisconnected` | `data_listener.h:30-31` "In such a case no disconnect notification will be delivered to the listener for that datagram client." | an expired datagram client is announced as disconnected (`udp_server.cpp:215`) |

Other places where the code does less than one may expect, and no doc claims more, are not claimed by
a configuration of their own; the properties say what does hold, and `hazards` what does not: flags read after the waiter
was woken (`msg_request_pool.cpp:122`), a write that is lost on a live connection (`data_client.cpp:310`), a reply
to a client that is gone (`data_server.cpp:128`), and the pending list after a failed `uv_write2` (`tcp_server.cpp:437`).

Bounds. Two threads are enough for every race on a slot, since a slot has one owner and the
I/O thread; more ids than slots make slots change hands and the probing wrap around. One
resend is one duplicate, which is all a slot can confuse. On the server, one more client
than slots makes a slot change hands, two queues make it change workers, two messages have
an order, and one fault reaches each error path. `server_stop` needs one queue:
with two, `server_race` shows what is lost; and it runs without faults because a failed
`uv_read_start` leaves a session behind and a failed `uv_write2` a pending entry. In MsgSender
the resend logic runs on one loop against one application thread; two ids, a large and a small
message and a limit below the large one make it resend, expire, prune, cut the counter to zero and wrap it (modulo 8);
`MsgSender_spin.cfg` needs a third id, so that a slot changes hands while its first message is in the backlog. Two
threads in each wait are enough for a signal that wakes one. The assembler's messages
are longer and shorter than a header and come as single, batch, compressed and empty, and
every place of a cut is tried; after one failed allocation a message is read with the header of
another, after two the place may be inside a message, and what is read there is delivered. Three UDP clients with the same hash on two slots make holes in the
probe sequence and reuse of slots. Period, expiry and timeouts of 1 keep the order of
events free, since the clock is not tied to the steps.

Runs may end in a state without successors because ids, clients and datagrams run out and a
stopped system does nothing, so deadlock is not checked; the liveness properties are what
rules out a stuck system.

Fairness, by what the code justifies: a thread inside a call takes its next step (the
scheduler), and `uv_run` does not starve a callback that is ready.

* MsgClient: threads inside a call, the callbacks of the loop or the resend timer, and the
  peer while the connection is up. No thread has to start a call.
* MsgServer: callbacks that have begun, and workers (weak); the thread in `stop()`
  strongly, because clients that keep connecting disable its step again and again while each
  iteration of a libuv loop also serves the stop request. Pipes and clients need not connect.
* MsgSender: threads, the loop, time and the thread in `stop()` (weak); the loop's end strongly,
  for the same reason. Nothing has to be answered.
* StreamClient: start, the loop, the clock, the timer, stop and woken threads (weak). The
  server accepts in the end because refusals are bounded.
* UdpServer: the clock, the timer and queued writes (weak). MsgAssembler: a callback that
  has begun runs on.

Every property of a passing run has a mutant in `PROJECT.json`: a definition with a
plausible fault (marked "Fault of" or "For mutation" in the modules) under which TLC finds it
violated.

## 4. Proofs

The theorems hold for every value of the constants: any set of threads or clients, any
number of slots, tasks, queues, messages, faults and periods. The assumptions are those named
in the modules: sizes are positive naturals, bounds are naturals, absent values are not values,
that scripts hold what the frame writer accepts, that the magic word is not in the data
(MsgAssembler, below), and, in ConcurrentHashTable, `2 ^ n` is a natural above `n` (arithmetic that the prover does not
know; the table has the least power of two of entries that holds its capacity). TLC checked each inductive invariant on
the instances of section 3 before it was proved, and evaluates the assumptions on every run.

### MsgClient (`MsgClient_proofs`)

* `TypeCorrect`: inductive as it stands.
* `Exclusive`: `SlotExclusive`, also with resends. The inductive invariant is
  `ExclusiveInv == TypeOK /\ SlotExclusive /\ OwnedSlotTaken`: a new owner comes from a
  vacant slot, so one must know that the slot of a running call is never vacant.
* `SlotKeptForReply`: `ReplyFindsItsSlot`; `TransactOwnResponse`: `OwnResponse`; both for
  `MaxResends = 0`. They rest on `MatchInv`, which adds that a message is in one place
  (`OnePlace`), that a slot has at most one message in flight, under its own id
  (`OneInFlightPerSlot`), that no message in flight names a slot that a call is preparing
  (`PreparedInPeace`: this is what closes the gap between the two halves of `tryGrab`), that a
  running call's slot has its id (`OwnerId`), and that a stored response answers the id of its
  slot (`StoredResponse`). The premise is needed: the duplicate that a resend makes
  breaks `PreparedInPeace`, and a call can then return the second answer to the
  previous request of its slot (the hazard at `msg_request.cpp:19`).
* `ListenerNeverWaitedFor`: `ListenerLeavesTransactions`, for `MaxResends = 0`. `ListenerInv` adds
  to `MatchInv` that ids are not used twice (`IdsUnique`), that a message with the id of a running
  call carries its transaction flag and exists only once the call wrote it (`TrafficNamed`), that a
  slot keeps the flag of its owner (`FlagsKept`), and that what a transaction waits for has
  not been given to the listener (`WaitersUnheard`).

### StreamClient (`StreamClient_proofs`)

* `TypeCorrect`, and `ClosesOnce`: `ClosedOnce`. `SocketInv` adds that a connecting socket has a
  callback to come (`ConnectingIsPending`), that only the I/O thread opens the socket
  (`FreshUntilStarted`), that `stop()` joins that thread before it closes what is left
  (`ClosesAfterJoin`), that the announcement is the last callback (`AnnouncedLast`), that buffers
  are counted (`WritesCounted`), and that a socket in use without `isConnected` is one that
  the client has spoiled (`UnconnectedIsSpoiled`).

### MsgSender (`MsgSender_proofs`)

* `TypeCorrect`: a pass over the pool never leaves it (the least slot that is not skipped exists
  because the naturals are well-founded), and the size counter stays in its width.
* `UnansweredAlwaysKept`: `UnansweredIsKept`. The first write of a message joins the backlog
  only if `getRequestData` still finds its slot, so the inductive invariant `KeptInv` follows
  a slot from `tryGrab` to `onLoopSend`: an id belongs to one call and is not accepted
  twice (`IdsInv`); a call that is about to fill its slot has it, unless it was robbed
  (`FillersHaveSlots`); until its first write a message is in its slot and nowhere else, and no
  answer can come (`WritesHaveSlots`). The proof shows of each action that it is `Calm`, the
  six things all actions have in common, and of every calm step that it keeps the invariant.

### MsgServer (`MsgServer_proofs`, `MsgServerSession_proofs`)

* `TypeCorrect`, from `TypeInv`: a task that takes a socket from its pipe finds a pending
  connection (`PendingCovers`), and a slot that is read from has a queue (`ReadersAreMapped`).
* `PipesAlwaysPaired`: `PipesArePaired`. Accepted pipes belong to the first tasks in turn, or
  one was lost and the server never listens (`PipesInTurn`).
* `DispatchedInOrder`: the action property `DispatchInOrder`. A client is in one place
  (`PlaceInv`), and its messages are in the queue of its slot, in order, without gap, after
  those already dispatched (`OrderInv`).
* `StopAlwaysDrains`: `StopDrains`. `ET_STOP` is the last event of its queue, and no task pushes once
  the first is pushed (`StopInv`).
* `RepliesReachLive`: `ReplyReachesLive`, from `PlaceInv`, `OrderInv` and `ReplyInv`: a reply answers
  a dispatched message, so a client that comes to the slot later has no reply there.
* `PendingAlwaysMatches`: `PendingMatchesPipe`. Without a failure the pending list and the pipe hold
  the same connections (`PendingInStep`), and a slot that waits for its socket is in use, so
  nobody takes it meanwhile (`SlotsApart`, `SlotsInUse`).
* `SessionsFollow` (in `MsgServerSession_proofs`): `SessionFollowsConnection`, for `Concurrency = 1` and as long as
  no call has failed. `SessionsForetold` says that the events in the queue, handled one
  after the other, take the session of each slot to the client that the I/O tasks have
  announced, and that each event finds what it expects: a connect no session, a disconnect one.
  The witness is a list of sessions, one per event, so a push extends the list and a pop
  shortens it, and no recursion is needed. Both premises are needed: with two workers the events of a slot
  move between queues (`server_race`), and a failed `uv_read_start` frees a slot without a word.

### MsgFrame (`MsgFrame_proofs`)

* `FrameIsReadBack`: `ReadsBack(app, FrameOf(app), refused)` for every application message, single or
  batch, compressed or not, with any number of buffers of any length, and every record the
  listener may refuse. Nothing is assumed of the contents.
* `FlattenSeq` and the loop of the reader are recursive functions. The prover cannot instantiate an
  induction over a predicate, but one over a set of numbers is an ordinary lemma (`Climb`, by a
  smallest counterexample): a set that has 0 and with each number the next has all of `0 .. n`.
  With it one shows that a function that satisfies the recursion exists (`FlatExists`), that the
  one `CHOOSE` picks is the same (`FlattenIsFlat`, `BatchLoop`), and then how the bytes of a list follow
  from those of its parts (`FlattenSplit`, `FlattenAppend`, `SpanStep`, `FlattenAt`). `AfterStep` says where
  the reader is after each record, and one iteration takes it from there to the next.

### MsgAssembler (`MsgAssembler_proofs`)

For any scripts, junk, cuts into buffers and number of connections and failures.

* `AssemblerSoundIsInBounds`: `SoundIsInBounds`, and `AssemblerSoundIsDelivered`: `SoundIsDelivered`, from `SoundInv`
  (`AssemblerSoundInv`): on a sound connection the listener has the first messages (`SoundDelivered`),
  `m_head` and `m_offset` are where the next one begins and `m_size` counts what is behind
  (`SoundPlace`), the header that was read is the next one's and the search is over after the
  first message (`SoundState`), and between callbacks only a part of a message waits (`SoundRest`).
  The contents of messages do not matter here: only `ScriptsAssumption` is used.
* `AssemblerTypeOK`: `TypeOK`; `AssemblerFramesAreRead`: `FramesAreRead`; `AssemblerImplementsChannel`:
  `ImplementsChannel`, the refinement of MsgChannel. These are about every connection: with junk in
  front, after failed allocations, and with an offset kept by `reset()`. There the place in the stream
  is not known, and `LooseInv` (`AssemblerLooseInv`) says what is left: the buffers are a part of what was
  sent, and once a message was delivered the place is behind it (`Placed`); a header that was found
  is that of a message (`HeaderIsMessage`); the payload of a message that was sent is as sent
  while no allocation has failed (`PayloadsAreSent`). `AssemblerFramesAreRead` is about connections that are `intact`;
  the refinement covers the others too, where messages that nobody sent may come in between. They need
  `MagicAssumption`: the magic word stands only where a message begins (`MagicPlaces`), so a header
  that passes `isValid` is that of a message behind those delivered. Without it the code
  could take a piece of a payload for a message, which is what a magic word cannot rule out.

### UdpServer (`UdpServer_proofs`)

* `TypeCorrect`, with `IdsAreCounted`.
* `ViewsAlwaysAgree`: `ViewsAgree`, and `ClientsHaveOneSlot`: `OneSlotPerClient`, for any hash, from `ViewsInv`:
  different slots have different entries, so the removal of one leaves the others in the
  table, and a search finds an entry behind any hole.
* `UnexpiredAlwaysAnswered`: `UnexpiredAreAnswered`, from `AnswersInv`: as long
  as no id was given out beyond the slots in use, ids are slot indexes and an answer finds the
  client that asked (`IdsAreIndexes`, `AnswersLeadHome`).
* `TableIsNeverFull`: the path of `onRecv` for a `setItem` that fails is dead, because each entry
  is that of a slot in use and the table is larger than the array.

### What proving changed

Three models were corrected because a proof failed. In MsgServer a slot that `handlePipeRead` takes
over kept the reader of its last client. In MsgSender the backlog was taken to be in order, which
other threads can break, and a call that fills its slot too late was not counted as
robbing the message in it; neither happens with the one thread of the runs, so TLC had not shown it.
In MsgAssembler `OnWaitBody` took what it read for the header of a message. `Msg::deserialize` does not look
at the magic word, and after two failed allocations the place can be inside a message: what is read
there is delivered as a message that nobody sent. The run allows two failures, so that it happens.

### Only model-checked

* Liveness under fairness, in all modules: `WaitEnds`, `StopReturns`, `StopCompletes`,
  `SilentIsForgotten`, `AssemblyEnds` and those of StreamClient.

* `CounterIsContent`: the content of the backlog is a fold over a sequence, and what a removal anywhere in it does
  to the sum needs an induction over the sequence.

Every other invariant, action property and refinement that a passing run checks is stated by a theorem.
Where a theorem has a premise (`MaxResends = 0`, `Concurrency = 1`), the run that checks the property
has it too.

## 5. Not modelled

* PipeServer: one loop without hand-over; its slots and its listener are those of DataServer.
  PipeClient: its connect reports failures to the callback only, a subset of TcpClient.
* Failures while an object is initialised, before its threads run, except for UdpServer.
* Byte order, the template code of `serializable.h`, header fields that no
  reader decides on. gzip is an external stand-in with an inverse.
* Logging, statistics, thread notification, library initialisation: no effect on the protocol.
* Use of a closed libuv handle (a reply while `stop()` closes the loop, a second stop after
  a failed `uv_listen`), and `uv_async_init` from a foreign thread, are undefined inside libuv.
* Memory: buffers that are not freed, such as that of a refused datagram.
* Configurations that the assumptions on the constants exclude, such as a pool of size 0.
* A second life of a client object after stop().

## 6. State of the plan

Done: the modules above; every safety property of a passing run but `CounterIsContent` is proved. What is left is out
of the prover's reach (liveness under fairness) or outside the models (section 5). Worth adding when
the code changes: PipeServer as a second instance of the slots of MsgServer, and a second life
of a client after stop().
