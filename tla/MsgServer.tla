------------------------------- MODULE MsgServer -------------------------------
(***************************************************************************)
(* The message server over TCP: the accept loop and the I/O tasks of       *)
(* TcpServer, the connection slots of DataServer they share, the event     *)
(* queues and worker threads of MsgMultiplexer, and the sessions of        *)
(* MsgServer (tcp_server.cpp, data_server.cpp, msg_multiplexer.cpp,        *)
(* msg_server.cpp).                                                        *)
(*                                                                         *)
(* A client is known by the connection id it gets when it is accepted; a   *)
(* message by the number it has on its connection.  An I/O task runs one   *)
(* callback at a time, split where it touches what other threads write.    *)
(***************************************************************************)
EXTENDS Integers, Sequences, FiniteSets

CONSTANTS MaxConnections,  \* maxConnections
          IoConcurrency,   \* number of I/O tasks of TcpServer
          Concurrency,     \* number of queues and workers of MsgMultiplexer
          MaxAccepts,      \* bound: how many clients connect
          MaxMsgs,         \* bound: how many messages a client sends
          MaxFaults        \* bound: how many libuv calls fail

ASSUME SizeAssumption ==
    /\ MaxConnections \in Nat \ {0}
    /\ IoConcurrency \in Nat \ {0}
    /\ Concurrency \in Nat \ {0}
ASSUME ServerBoundAssumption ==
    MaxAccepts \in Nat /\ MaxMsgs \in Nat /\ MaxFaults \in Nat

VARIABLES conns,            \* m_connDataArray
          nextConnectionId, \* m_nextConnectionId
          pipeConnects,     \* I/O tasks that the pipe server has not accepted yet
          serverPipe,       \* m_serverPipe of each task: the task at its other end
          clientPipe,       \* m_clientPipe of each task
          acceptor,         \* where the accept loop is in handleNewConnection
          pendingConns,     \* m_pendingConns of each I/O task
          pipe,             \* sockets on their way to each I/O task
          io,               \* where each I/O task is in its callback
          nextQueue,        \* m_nextQueue
          connectionMap,    \* m_connectionMap
          eventQueue,       \* m_eventQueue of each queue
          worker,           \* where each thread of msgTask is
          sessions,         \* m_sessions: the connection id of each session
          asyncWrites,      \* replies handed to the I/O tasks
          runState,         \* m_runState
          stopsSent,        \* how many ET_STOP MsgMultiplexer::stop has pushed
          sent,             \* messages read from each client
          seen,             \* number of the last message dispatched, per client
          faults            \* failures so far

startVars == <<pipeConnects, serverPipe, clientPipe>>
connVars == <<conns, nextConnectionId, acceptor, pendingConns, pipe>>
muxVars == <<nextQueue, connectionMap>>
serverVars == <<sessions, asyncWrites, seen>>
stopVars == <<runState, stopsSent>>
vars == <<startVars, conns, nextConnectionId, acceptor, pendingConns, pipe, io, nextQueue,
          connectionMap, eventQueue, worker, sessions, asyncWrites, runState,
          stopsSent, sent, seen, faults>>

NoClient == -1
NoTask == -1
Conn == 0 .. MaxConnections - 1
IoTask == 0 .. IoConcurrency - 1
Queue == 0 .. Concurrency - 1
Client == 0 .. MaxAccepts - 1
ClientOrNone == Client \cup {NoClient}

(* A MsgEvent: the copied connection details (index and id), the number of *)
(* the message, and the client whose socket the event comes from.          *)
EventType == {"ET_CONNECT", "ET_DISCONNECT", "ET_MSG", "ET_STOP"}
Event == [type : EventType, conn : Nat, id : ClientOrNone, from : ClientOrNone,
          seq : 0 .. MaxMsgs]
StopEvent(q) == [type |-> "ET_STOP", conn |-> q, id |-> NoClient, from |-> NoClient,
                 seq |-> 0]

(* ConnectionData: m_isUsed, m_connectionId (also the id in                *)
(* m_connectionDetails) and the client whose socket m_socket2 reads.       *)
ConnType == [used : BOOLEAN, id : ClientOrNone, client : ClientOrNone]
IoPc == {"idle", "assign", "disconnect", "push", "stopped"}
IoType == [pc : IoPc, conn : Conn, client : ClientOrNone, queue : Queue, evt : Event]
WorkerType == [pc : {"wait", "drain", "create", "delete", "exited"}, done : BOOLEAN]

IdleIo == [pc |-> "idle", conn |-> 0, client |-> NoClient, queue |-> 0,
           evt |-> StopEvent(0)]

TypeOK ==
    /\ conns \in [Conn -> ConnType]
    /\ nextConnectionId \in 0 .. MaxAccepts
    /\ pipeConnects \in Seq(IoTask)
    /\ serverPipe \in [IoTask -> IoTask \cup {NoTask}]
    /\ clientPipe \in [IoTask -> {"connecting", "reading", "closed"}]
    /\ acceptor \in [pc : {"start", "scan", "pass", "failed", "stopped"}, conn : Conn]
    /\ pendingConns \in [IoTask -> Seq(Conn)]
    /\ pipe \in [IoTask -> Seq(Client)]
    /\ io \in [IoTask -> IoType]
    /\ nextQueue \in Queue
    /\ connectionMap \in [Conn -> Queue \cup {NoClient}]
    /\ eventQueue \in [Queue -> Seq(Event)]
    /\ worker \in [Queue -> WorkerType]
    /\ sessions \in [Conn -> ClientOrNone]
    /\ asyncWrites \in SUBSET [conn : Conn, of : Client, seq : 0 .. MaxMsgs]
    /\ runState \in {"RS_RUNNING", "RS_SHUTTING_DOWN", "RS_IDLE"}
    /\ stopsSent \in 0 .. Concurrency
    /\ sent \in [Client -> 0 .. MaxMsgs]
    /\ seen \in [Client -> 0 .. MaxMsgs]
    /\ faults \in 0 .. MaxFaults

(* initIOTasks connects the tasks to the pipe server one after the other. *)
ConnectOrder == [n \in 1 .. IoConcurrency |-> n - 1]

(* The server after initialize() and start(): all threads run. *)
Init ==
    /\ pipeConnects = ConnectOrder
    /\ serverPipe = [k \in IoTask |-> NoTask]
    /\ clientPipe = [k \in IoTask |-> "connecting"]
    /\ conns = [i \in Conn |-> [used |-> FALSE, id |-> NoClient, client |-> NoClient]]
    /\ nextConnectionId = 0
    /\ acceptor = [pc |-> "start", conn |-> 0]
    /\ pendingConns = [k \in IoTask |-> <<>>]
    /\ pipe = [k \in IoTask |-> <<>>]
    /\ io = [k \in IoTask |-> IdleIo]
    /\ nextQueue = 0
    /\ connectionMap = [i \in Conn |-> NoClient]
    /\ eventQueue = [q \in Queue |-> <<>>]
    /\ worker = [q \in Queue |-> [pc |-> "wait", done |-> FALSE]]
    /\ sessions = [i \in Conn |-> NoClient]
    /\ asyncWrites = {}
    /\ runState = "RS_RUNNING" /\ stopsSent = 0
    /\ sent = [c \in Client |-> 0]
    /\ seen = [c \in Client |-> 0]
    /\ faults = 0

Fails == faults < MaxFaults /\ faults' = faults + 1

-------------------------------------------------------------------------------
(* Start-up: the server's loop accepts the pipes of the I/O tasks and only *)
(* then listens; each I/O task starts to read from its end of the pipe.    *)

VacantPipe(k) ==
    serverPipe[k] = NoTask /\ \A j \in IoTask : j < k => serverPipe[j] # NoTask

(* The pipe that is accepted as that of task k is the last one. *)
LastPipe(k) == \A j \in IoTask \ {k} : serverPipe[j] # NoTask

(* handleNewPipeConnection takes the first task without a pipe, whichever  *)
(* task has connected.                                                     *)
AcceptPipe ==
    /\ acceptor.pc = "start"
    /\ pipeConnects # <<>>
    /\ pipeConnects' = Tail(pipeConnects)
    /\ \E k \in IoTask :
          /\ VacantPipe(k)
          /\ serverPipe' = [serverPipe EXCEPT ![k] = Head(pipeConnects)]
          /\ acceptor' = [acceptor EXCEPT !.pc = IF LastPipe(k) THEN "scan" ELSE "start"]
    /\ UNCHANGED <<clientPipe, conns, nextConnectionId, pendingConns, pipe, io,
                   muxVars, eventQueue, worker, serverVars, stopVars, sent, faults>>

(* Fault of handleNewPipeConnection: a pipe that failed is counted. *)
AcceptPipeFailsCounted ==
    /\ acceptor.pc = "start"
    /\ pipeConnects # <<>>
    /\ Fails
    /\ pipeConnects' = Tail(pipeConnects)
    /\ acceptor' = [acceptor EXCEPT !.pc = IF Len(pipeConnects) = 1 THEN "scan" ELSE "start"]
    /\ UNCHANGED <<serverPipe, clientPipe, conns, nextConnectionId, pendingConns,
                   pipe, io, muxVars, eventQueue, worker, serverVars, stopVars,
                   sent>>

(* uv_accept fails; or uv_pipe_init does, and libuv reports no other       *)
(* connection before this one is accepted.  The server never listens.      *)
AcceptPipeFails ==
    /\ acceptor.pc = "start"
    /\ pipeConnects # <<>>
    /\ Fails
    /\ pipeConnects' \in {<<>>, Tail(pipeConnects)}
    /\ UNCHANGED <<serverPipe, clientPipe, connVars, io, muxVars, eventQueue,
                   worker, serverVars, stopVars, sent>>

(* uv_listen fails: the I/O tasks are stopped here and now, and stop()     *)
(* would stop them a second time, on loops that are closed.                *)
ListenFails ==
    /\ acceptor.pc = "start"
    /\ pipeConnects # <<>>
    /\ Fails
    /\ \E k \in IoTask :
          /\ VacantPipe(k) /\ LastPipe(k)
          /\ serverPipe' = [serverPipe EXCEPT ![k] = Head(pipeConnects)]
    /\ pipeConnects' = Tail(pipeConnects)
    /\ acceptor' = [acceptor EXCEPT !.pc = "failed"]
    /\ io' = [k \in IoTask |-> [io[k] EXCEPT !.pc = "stopped"]]
    /\ UNCHANGED <<clientPipe, conns, nextConnectionId, pendingConns, pipe, muxVars,
                   eventQueue, worker, serverVars, stopVars, sent>>

HandlePipeConnect(k) ==
    /\ io[k].pc = "idle"
    /\ clientPipe[k] = "connecting"
    /\ clientPipe' = [clientPipe EXCEPT ![k] = "reading"]
    /\ UNCHANGED <<pipeConnects, serverPipe, connVars, io, muxVars, eventQueue,
                   worker, serverVars, stopVars, sent, faults>>

(* uv_read_start fails: what is passed to the task stays on the pipe. *)
PipeConnectFails(k) ==
    /\ io[k].pc = "idle"
    /\ clientPipe[k] = "connecting"
    /\ Fails
    /\ clientPipe' = [clientPipe EXCEPT ![k] = "closed"]
    /\ UNCHANGED <<pipeConnects, serverPipe, connVars, io, muxVars, eventQueue,
                   worker, serverVars, stopVars, sent>>

StartStep ==
    \/ AcceptPipe \/ AcceptPipeFails \/ ListenFails
    \/ \E k \in IoTask : HandlePipeConnect(k) \/ PipeConnectFails(k)

-------------------------------------------------------------------------------
(* The accept loop: TcpServer::handleNewConnection. *)

(* One round of grabConnectionData: take the slot, or look at the next     *)
(* one; after the last the connection is denied.                           *)
GrabConnectionData ==
    /\ acceptor.pc = "scan"
    /\ nextConnectionId < MaxAccepts
    /\ LET i == acceptor.conn IN
       IF conns[i].used
       THEN /\ acceptor' = [acceptor EXCEPT !.conn = (i + 1) % MaxConnections]
            /\ UNCHANGED <<conns, nextConnectionId>>
       ELSE /\ conns' = [conns EXCEPT ![i].used = TRUE, ![i].id = nextConnectionId]
            /\ nextConnectionId' = nextConnectionId + 1
            /\ acceptor' = [pc |-> "pass", conn |-> i]
    /\ UNCHANGED <<startVars, pendingConns, pipe, io, muxVars, eventQueue, worker,
                   serverVars, stopVars, sent, faults>>

(* uv_tcp_init or uv_accept fails. *)
AcceptFails ==
    /\ acceptor.pc = "pass"
    /\ Fails
    /\ conns' = [conns EXCEPT ![acceptor.conn].used = FALSE]
    /\ acceptor' = [pc |-> "scan", conn |-> 0]
    /\ UNCHANGED <<startVars, nextConnectionId, pendingConns, pipe, io, muxVars,
                   eventQueue, worker, serverVars, stopVars, sent>>

(* The slot always goes to the same I/O task. *)
IoTaskOf(i) == i % IoConcurrency

(* Fault of handleNewConnection: the newest pending connection comes first. *)
PassConnectionInFront ==
    /\ acceptor.pc = "pass"
    /\ LET i == acceptor.conn
           k == IoTaskOf(i)
       IN /\ pendingConns' = [pendingConns EXCEPT ![k] = <<i>> \o @]
          /\ pipe' = [pipe EXCEPT ![serverPipe[k]] = Append(@, conns[i].id)]
    /\ acceptor' = [pc |-> "scan", conn |-> 0]
    /\ UNCHANGED <<startVars, conns, nextConnectionId, io, muxVars, eventQueue,
                   worker, serverVars, stopVars, sent, faults>>

(* The connection is queued for its I/O task, then its socket is written   *)
(* to the task's pipe.                                                     *)
PassConnection ==
    /\ acceptor.pc = "pass"
    /\ LET i == acceptor.conn
           k == IoTaskOf(i)
       IN /\ pendingConns' = [pendingConns EXCEPT ![k] = Append(@, i)]
          /\ pipe' = [pipe EXCEPT ![serverPipe[k]] = Append(@, conns[i].id)]
    /\ acceptor' = [pc |-> "scan", conn |-> 0]
    /\ UNCHANGED <<startVars, conns, nextConnectionId, io, muxVars, eventQueue,
                   worker, serverVars, stopVars, sent, faults>>

(* uv_write2 fails: the slot is given back, or kept if the failure is      *)
(* reported to onWrite2Static; the queue entry stays.                      *)
PassFails ==
    /\ acceptor.pc = "pass"
    /\ Fails
    /\ LET i == acceptor.conn IN
       /\ pendingConns' = [pendingConns EXCEPT ![IoTaskOf(i)] = Append(@, i)]
       /\ \E used \in BOOLEAN : conns' = [conns EXCEPT ![i].used = used]
    /\ acceptor' = [pc |-> "scan", conn |-> 0]
    /\ UNCHANGED <<startVars, nextConnectionId, pipe, io, muxVars, eventQueue,
                   worker, serverVars, stopVars, sent>>

-------------------------------------------------------------------------------
(* An I/O task: TcpServer::handlePipeRead and onReadStatic, with the calls *)
(* they make into MsgAssembler and MsgMultiplexer.                         *)

(* The oldest pending connection is matched with the socket on the pipe:   *)
(* m_socket2 is set up anew, whatever it read before, and onConnect        *)
(* reaches assignQueueId, which loads m_nextQueue.                         *)
HandlePipeRead(k) ==
    LET i == Head(pendingConns[k]) IN
    /\ io[k].pc = "idle" /\ clientPipe[k] = "reading"
    /\ pipe[k] # <<>>
    /\ io' = [io EXCEPT ![k] = [IdleIo EXCEPT !.pc = "assign", !.conn = i,
                                              !.client = Head(pipe[k]),
                                              !.queue = nextQueue]]
    /\ conns' = [conns EXCEPT ![i].client = NoClient]
    /\ pendingConns' = [pendingConns EXCEPT ![k] = Tail(@)]
    /\ pipe' = [pipe EXCEPT ![k] = Tail(@)]
    /\ UNCHANGED <<startVars, nextConnectionId, acceptor, muxVars, eventQueue,
                   worker, serverVars, stopVars, sent, faults>>

(* Any failure before onConnect: the socket is closed, the slot is free.   *)
(* uv_accept fails after m_socket2 was set up, the others before that; if  *)
(* the pipe itself cannot be read, libuv reads no more from it.            *)
PipeReadFails(k) ==
    LET i == Head(pendingConns[k]) IN
    /\ io[k].pc = "idle" /\ clientPipe[k] = "reading"
    /\ pipe[k] # <<>>
    /\ Fails
    /\ \E client \in {conns[i].client, NoClient} :
          conns' = [conns EXCEPT ![i].used = FALSE, ![i].client = client]
    /\ pendingConns' = [pendingConns EXCEPT ![k] = Tail(@)]
    /\ pipe' = [pipe EXCEPT ![k] = Tail(@)]
    /\ \E reads \in {"reading", "closed"} :
          clientPipe' = [clientPipe EXCEPT ![k] = reads]
    /\ UNCHANGED <<pipeConnects, serverPipe, nextConnectionId, acceptor, io, muxVars,
                   eventQueue, worker, serverVars, stopVars, sent>>

(* An event about slot i with a copy of the slot's details as they are now. *)
NewEvent(type, i, from, seq) ==
    [type |-> type, conn |-> i, id |-> conns[i].id, from |-> from, seq |-> seq]

(* Starts pushEvent: the queue is looked up, its lock is still to come. *)
StartPush(k, evt, queue) ==
    io' = [io EXCEPT ![k].pc = "push", ![k].conn = evt.conn, ![k].client = evt.from,
                     ![k].evt = evt, ![k].queue = queue]

(* Fault of assignQueueId: the counter does not wrap. *)
AssignWithoutWrap(k) ==
    LET i == io[k].conn IN
    /\ io[k].pc = "assign"
    /\ nextQueue' = io[k].queue + 1
    /\ connectionMap' = [connectionMap EXCEPT ![i] = io[k].queue]
    /\ StartPush(k, NewEvent("ET_CONNECT", i, io[k].client, 0), io[k].queue)
    /\ UNCHANGED <<startVars, connVars, eventQueue, worker, serverVars, stopVars,
                   sent, faults>>

(* The rest of assignQueueId.  m_nextQueue is not protected: a task that   *)
(* loaded the same value stores the same successor.                        *)
AssignQueueId(k) ==
    LET i == io[k].conn IN
    /\ io[k].pc = "assign"
    /\ nextQueue' = (io[k].queue + 1) % Concurrency
    /\ connectionMap' = [connectionMap EXCEPT ![i] = io[k].queue]
    /\ StartPush(k, NewEvent("ET_CONNECT", i, io[k].client, 0), io[k].queue)
    /\ UNCHANGED <<startVars, connVars, eventQueue, worker, serverVars, stopVars,
                   sent, faults>>

(* Fault of onRead: a message goes to the queue whose turn it is. *)
OnReadAnyQueue(k, i) ==
    LET c == conns[i].client IN
    /\ io[k].pc = "idle"
    /\ IoTaskOf(i) = k
    /\ c # NoClient
    /\ sent[c] < MaxMsgs
    /\ sent' = [sent EXCEPT ![c] = @ + 1]
    /\ StartPush(k, NewEvent("ET_MSG", i, c, sent[c] + 1), nextQueue)
    /\ nextQueue' = (nextQueue + 1) % Concurrency
    /\ UNCHANGED <<startVars, connVars, connectionMap, eventQueue, worker,
                   serverVars, stopVars, faults>>

(* The bytes of a message arrive, and the assembler passes it on. *)
OnRead(k, i) ==
    LET c == conns[i].client IN
    /\ io[k].pc = "idle"
    /\ IoTaskOf(i) = k
    /\ c # NoClient
    /\ sent[c] < MaxMsgs
    /\ sent' = [sent EXCEPT ![c] = @ + 1]
    /\ StartPush(k, NewEvent("ET_MSG", i, c, sent[c] + 1), connectionMap[i])
    /\ UNCHANGED <<startVars, connVars, muxVars, eventQueue, worker, serverVars,
                   stopVars, faults>>

(* A read error: the socket is closed and the slot becomes free, before    *)
(* the listener hears of it.                                               *)
OnReadError(k, i) ==
    /\ io[k].pc = "idle"
    /\ IoTaskOf(i) = k
    /\ conns[i].client # NoClient
    /\ conns' = [conns EXCEPT ![i].used = FALSE, ![i].client = NoClient]
    /\ io' = [io EXCEPT ![k].pc = "disconnect", ![k].conn = i,
                        ![k].client = conns[i].client]
    /\ UNCHANGED <<startVars, nextConnectionId, acceptor, pendingConns, pipe,
                   muxVars, eventQueue, worker, serverVars, stopVars, sent, faults>>

(* onDisconnect, with the details the slot has by now. *)
OnDisconnect(k) ==
    LET i == io[k].conn IN
    /\ io[k].pc = "disconnect"
    /\ StartPush(k, NewEvent("ET_DISCONNECT", i, io[k].client, 0), connectionMap[i])
    /\ UNCHANGED <<startVars, connVars, muxVars, eventQueue, worker, serverVars,
                   stopVars, sent, faults>>

(* A worker holds its queue's lock while it drains the queue. *)
Unlocked(q) == worker[q].pc \in {"wait", "exited"}

(* pushEvent under the queue's lock; push_front here, back() in msgTask. *)
Push(q, evt) ==
    /\ Unlocked(q)
    /\ eventQueue' = [eventQueue EXCEPT ![q] = Append(@, evt)]

(* The callback ends; after ET_CONNECT it starts reading from the socket. *)
PushEvent(k) ==
    LET evt == io[k].evt IN
    /\ io[k].pc = "push"
    /\ Push(io[k].queue, evt)
    /\ conns' = IF evt.type = "ET_CONNECT"
                THEN [conns EXCEPT ![evt.conn].client = evt.from]
                ELSE conns
    /\ io' = [io EXCEPT ![k] = IdleIo]
    /\ UNCHANGED <<startVars, nextConnectionId, acceptor, pendingConns, pipe,
                   muxVars, worker, serverVars, stopVars, sent, faults>>

(* uv_read_start fails: the slot is free, and nobody is told. *)
ReadStartFails(k) ==
    LET evt == io[k].evt IN
    /\ io[k].pc = "push"
    /\ evt.type = "ET_CONNECT"
    /\ Fails
    /\ Push(io[k].queue, evt)
    /\ conns' = [conns EXCEPT ![evt.conn].used = FALSE]
    /\ io' = [io EXCEPT ![k] = IdleIo]
    /\ UNCHANGED <<startVars, nextConnectionId, acceptor, pendingConns, pipe,
                   muxVars, worker, serverVars, stopVars, sent>>

(* onAsyncWriteStatic: the reply is written to the socket the slot has now. *)
AsyncWrite(k, write) ==
    /\ io[k].pc = "idle"
    /\ IoTaskOf(write.conn) = k
    /\ asyncWrites' = asyncWrites \ {write}
    /\ UNCHANGED <<startVars, connVars, io, muxVars, eventQueue, worker, sessions,
                   seen, stopVars, sent, faults>>

-------------------------------------------------------------------------------
(* A worker: MsgMultiplexer::msgTask, and the handlers of MsgServer. *)

Oldest(q) == Head(eventQueue[q])

StartDrain(q) ==
    /\ worker[q].pc = "wait"
    /\ eventQueue[q] # <<>>
    /\ worker' = [worker EXCEPT ![q].pc = "drain"]
    /\ UNCHANGED <<startVars, connVars, io, muxVars, eventQueue, serverVars,
                   stopVars, sent, faults>>

(* handleEvt returns done, which replaces what an earlier event returned. *)
Pop(q, done) ==
    /\ eventQueue' = [eventQueue EXCEPT ![q] = Tail(@)]
    /\ worker' = [worker EXCEPT ![q] = [pc |-> "drain", done |-> done]]

Handles(q, type) ==
    /\ worker[q].pc = "drain"
    /\ eventQueue[q] # <<>>
    /\ Oldest(q).type = type

(* MsgServer::onConnect up to the check; an active session refuses it. *)
OnConnectCheck(q) ==
    /\ Handles(q, "ET_CONNECT")
    /\ IF sessions[Oldest(q).conn] = NoClient
       THEN /\ worker' = [worker EXCEPT ![q].pc = "create"]
            /\ UNCHANGED eventQueue
       ELSE Pop(q, FALSE)
    /\ UNCHANGED <<startVars, connVars, io, muxVars, serverVars, stopVars, sent,
                   faults>>

CreateSession(q) ==
    /\ worker[q].pc = "create"
    /\ sessions' = [sessions EXCEPT ![Oldest(q).conn] = Oldest(q).id]
    /\ Pop(q, FALSE)
    /\ UNCHANGED <<startVars, connVars, io, muxVars, asyncWrites, seen, stopVars,
                   sent, faults>>

(* The session factory returns null: the connection stays without session. *)
CreateSessionFails(q) ==
    /\ worker[q].pc = "create"
    /\ Fails
    /\ Pop(q, FALSE)
    /\ UNCHANGED <<startVars, connVars, io, muxVars, serverVars, stopVars, sent>>

(* MsgServer::onDisconnect up to the check and the session listener. *)
OnDisconnectCheck(q) ==
    /\ Handles(q, "ET_DISCONNECT")
    /\ IF sessions[Oldest(q).conn] # NoClient
       THEN /\ worker' = [worker EXCEPT ![q].pc = "delete"]
            /\ UNCHANGED eventQueue
       ELSE Pop(q, FALSE)
    /\ UNCHANGED <<startVars, connVars, io, muxVars, serverVars, stopVars, sent,
                   faults>>

(* Fault of MsgServer::onDisconnect: the entry in m_sessions stays. *)
DeleteSessionOnly(q) ==
    /\ worker[q].pc = "delete"
    /\ Pop(q, FALSE)
    /\ UNCHANGED <<startVars, connVars, io, muxVars, serverVars, stopVars, sent,
                   faults>>

DeleteSession(q) ==
    /\ worker[q].pc = "delete"
    /\ sessions' = [sessions EXCEPT ![Oldest(q).conn] = NoClient]
    /\ Pop(q, FALSE)
    /\ UNCHANGED <<startVars, connVars, io, muxVars, asyncWrites, seen, stopVars,
                   sent, faults>>

(* Fault of replyMsg: the recipient is named by its connection id. *)
OnMsgRepliesToId(q) ==
    LET evt == Oldest(q)
        reply == [conn |-> evt.id % MaxConnections, of |-> evt.from, seq |-> evt.seq]
    IN
    /\ Handles(q, "ET_MSG")
    /\ seen' = [seen EXCEPT ![evt.from] = evt.seq]
    /\ \/ UNCHANGED asyncWrites
       \/ /\ runState = "RS_RUNNING"
          /\ asyncWrites' = asyncWrites \cup {reply}
    /\ Pop(q, FALSE)
    /\ UNCHANGED <<startVars, connVars, io, muxVars, sessions, stopVars, sent,
                   faults>>

(* MsgServer::onMsg: the listener gets the message and may call replyMsg,  *)
(* which names the recipient by its slot.                                  *)
OnMsg(q) ==
    LET evt == Oldest(q)
        reply == [conn |-> evt.conn, of |-> evt.from, seq |-> evt.seq]
    IN
    /\ Handles(q, "ET_MSG")
    /\ seen' = [seen EXCEPT ![evt.from] = evt.seq]
    /\ \/ UNCHANGED asyncWrites
       \/ /\ runState = "RS_RUNNING"
          /\ asyncWrites' = asyncWrites \cup {reply}
    /\ Pop(q, FALSE)
    /\ UNCHANGED <<startVars, connVars, io, muxVars, sessions, stopVars, sent,
                   faults>>

OnStop(q) ==
    /\ Handles(q, "ET_STOP")
    /\ Pop(q, TRUE)
    /\ UNCHANGED <<startVars, connVars, io, muxVars, serverVars, stopVars, sent,
                   faults>>

EndDrain(q) ==
    /\ worker[q].pc = "drain"
    /\ eventQueue[q] = <<>>
    /\ worker' = [worker EXCEPT ![q].pc = IF worker[q].done THEN "exited" ELSE "wait"]
    /\ UNCHANGED <<startVars, connVars, io, muxVars, eventQueue, serverVars,
                   stopVars, sent, faults>>

WorkerStep(q) ==
    \/ StartDrain(q) \/ EndDrain(q)
    \/ OnConnectCheck(q) \/ CreateSession(q) \/ CreateSessionFails(q)
    \/ OnDisconnectCheck(q) \/ DeleteSession(q)
    \/ OnMsg(q) \/ OnStop(q)

-------------------------------------------------------------------------------
(* MsgServer::stop: the transport first, then the multiplexer. *)

StopServer ==
    /\ runState = "RS_RUNNING"
    /\ runState' = "RS_SHUTTING_DOWN"
    /\ UNCHANGED <<startVars, connVars, io, muxVars, eventQueue, worker, serverVars,
                   stopsSent, sent, faults>>

(* The server's loop ends between two callbacks, and its thread is joined. *)
StopAcceptor ==
    /\ runState = "RS_SHUTTING_DOWN"
    /\ acceptor.pc \in {"start", "scan", "failed"} /\ acceptor.conn = 0
    /\ acceptor' = [acceptor EXCEPT !.pc = "stopped"]
    /\ UNCHANGED <<startVars, conns, nextConnectionId, pendingConns, pipe, io,
                   muxVars, eventQueue, worker, serverVars, stopVars, sent, faults>>

(* termIOTasks stops the I/O tasks one after the other. *)
StopIoTask(k) ==
    /\ acceptor.pc = "stopped"
    /\ \A j \in IoTask : j < k => io[j].pc = "stopped"
    /\ io[k].pc = "idle"
    /\ io' = [io EXCEPT ![k].pc = "stopped"]
    /\ runState' = IF k = IoConcurrency - 1 THEN "RS_IDLE" ELSE runState
    /\ UNCHANGED <<startVars, connVars, muxVars, eventQueue, worker, serverVars,
                   stopsSent, sent, faults>>

(* Fault of MsgServer::stop: the multiplexer does not wait for the transport. *)
PushStopAtOnce ==
    /\ runState # "RS_RUNNING"
    /\ stopsSent < Concurrency
    /\ Push(stopsSent, StopEvent(stopsSent))
    /\ stopsSent' = stopsSent + 1
    /\ UNCHANGED <<startVars, connVars, io, muxVars, worker, serverVars, runState,
                   sent, faults>>

(* Fault of MsgMultiplexer::stop: the ET_STOP overtakes what the queue holds. *)
PushStopInFront ==
    /\ runState = "RS_IDLE"
    /\ stopsSent < Concurrency
    /\ Unlocked(stopsSent)
    /\ eventQueue' = [eventQueue EXCEPT ![stopsSent] = <<StopEvent(stopsSent)>> \o @]
    /\ stopsSent' = stopsSent + 1
    /\ UNCHANGED <<startVars, connVars, io, muxVars, worker, serverVars, runState,
                   sent, faults>>

(* MsgMultiplexer::stop: an ET_STOP behind whatever the queue holds. *)
PushStop ==
    /\ runState = "RS_IDLE"
    /\ stopsSent < Concurrency
    /\ Push(stopsSent, StopEvent(stopsSent))
    /\ stopsSent' = stopsSent + 1
    /\ UNCHANGED <<startVars, connVars, io, muxVars, worker, serverVars, runState,
                   sent, faults>>

(* MsgServer::stop has joined every worker and returns. *)
Stopped == \A q \in Queue : worker[q].pc = "exited"

StopStep == StopAcceptor \/ (\E k \in IoTask : StopIoTask(k)) \/ PushStop

-------------------------------------------------------------------------------
(* What completes a callback that has begun. *)
AcceptStep == GrabConnectionData \/ AcceptFails \/ PassConnection \/ PassFails
IoFinish(k) == AssignQueueId(k) \/ OnDisconnect(k) \/ PushEvent(k)

Next ==
    \/ StartStep
    \/ AcceptStep
    \/ \E k \in IoTask : \/ HandlePipeRead(k) \/ PipeReadFails(k) \/ ReadStartFails(k)
                         \/ IoFinish(k)
                         \/ \E i \in Conn : OnRead(k, i) \/ OnReadError(k, i)
                         \/ \E write \in asyncWrites : AsyncWrite(k, write)
    \/ \E q \in Queue : WorkerStep(q)
    \/ StopServer
    \/ StopStep

Spec == Init /\ [][Next]_vars

(* Threads inside a callback or a handler go on, and the thread in stop()  *)
(* goes on: an iteration of a loop serves its asynchronous requests too,   *)
(* so clients that keep connecting do not hold back the stop for ever.     *)
(* Pipes need not connect; clients need not connect, send or disconnect.   *)
FairSpec ==
    /\ Spec
    /\ WF_vars((acceptor.pc = "pass" \/ acceptor.conn # 0) /\ AcceptStep)
    /\ \A k \in IoTask : WF_vars(IoFinish(k))
    /\ \A q \in Queue : WF_vars(WorkerStep(q))
    /\ SF_vars(StopStep)

-------------------------------------------------------------------------------
(* The messages of a client are dispatched in the order they were read,    *)
(* none twice and none left out, whichever worker handles them.            *)
DispatchInOrder ==
    [][\A c \in Client : seen'[c] = seen[c] \/ seen'[c] = seen[c] + 1]_vars

(* A message that was read is dispatched before stop() returns: the        *)
(* workers drain their queues before they exit.                            *)
StopDrains == Stopped => seen = sent

(* stop() returns: every I/O task gets its last event pushed, and every    *)
(* worker sees its ET_STOP as the last event of its queue.                 *)
StopCompletes == (runState # "RS_RUNNING") ~> Stopped

(* Nothing about slot i is on its way to MsgServer. *)
Settled(i) ==
    /\ \A q \in Queue : \A n \in 1 .. Len(eventQueue[q]) :
          eventQueue[q][n].type = "ET_STOP" \/ eventQueue[q][n].conn # i
    /\ \A k \in IoTask : io[k].pc \in {"assign", "disconnect", "push"} => io[k].conn # i

(* Once the events of a slot are handled, an open connection has its own   *)
(* session, and a slot without a connection has none.                      *)
SessionFollowsConnection ==
    \A i \in Conn : Settled(i) => sessions[i] = conns[i].client

(* "There is no race over the sessions object": two workers are never      *)
(* between the check of one entry of m_sessions and its update.            *)
NoSessionRace ==
    \A q, r \in Queue :
        /\ q # r
        /\ worker[q].pc \in {"create", "delete"}
        /\ worker[r].pc \in {"create", "delete"}
        => Oldest(q).conn # Oldest(r).conn

(* replyMsg "sends a reply to a specific client": a reply that waits for   *)
(* its I/O task goes to the client whose message it answers as long as     *)
(* that client is connected, although the reply names only a slot.         *)
ReplyReachesLive ==
    \A write \in asyncWrites :
        (\E i \in Conn : conns[i].client = write.of) => conns[write.conn].client = write.of

(* The pending list "is sure to be correlated with callback order": as     *)
(* long as no call has failed, the connection an I/O task takes from it is *)
(* the one whose socket arrived.                                           *)
PendingMatchesPipe ==
    faults = 0 =>
        \A k \in IoTask :
            pipe[k] # <<>> => conns[Head(pendingConns[k])].id = Head(pipe[k])

(* "When all pipes connected, start listen on tcp server", and a slot      *)
(* "is always mapped to the same IO task": when connections are accepted,  *)
(* the pipe of every task leads to that task, although accepted pipes go   *)
(* to the first task that has none and any of them may fail.               *)
PipesArePaired ==
    acceptor.pc \in {"scan", "pass"} => \A k \in IoTask : serverPipe[k] = k

===============================================================================
