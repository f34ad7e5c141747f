---------------------------- MODULE MsgServer_proofs ----------------------------
(***************************************************************************)
(* Proofs about MsgServer for any number of slots, I/O tasks, queues,      *)
(* clients, messages and failures.                                         *)
(***************************************************************************)
EXTENDS MsgServer, TLAPS

-------------------------------------------------------------------------------
(* What append and tail do, element by element. *)

LEMMA AppendElements ==
    ASSUME NEW S, NEW s \in Seq(S), NEW e \in S
    PROVE  /\ Append(s, e) \in Seq(S)
           /\ Len(Append(s, e)) = Len(s) + 1 /\ Len(s) \in Nat
           /\ DOMAIN Append(s, e) = 1 .. Len(s) + 1
           /\ DOMAIN s = 1 .. Len(s)
           /\ \A n \in 1 .. Len(s) : Append(s, e)[n] = s[n]
           /\ Append(s, e)[Len(s) + 1] = e
  OBVIOUS

LEMMA NoElements ==
    ASSUME NEW S, NEW s \in Seq(S), Len(s) = 0
    PROVE  s = <<>>
  OBVIOUS

LEMMA TailElements ==
    ASSUME NEW S, NEW s \in Seq(S), s # <<>>
    PROVE  /\ Tail(s) \in Seq(S) /\ Head(s) \in S /\ Head(s) = s[1]
           /\ Len(Tail(s)) = Len(s) - 1 /\ Len(s) \in Nat \ {0}
           /\ DOMAIN Tail(s) = 1 .. Len(s) - 1
           /\ DOMAIN s = 1 .. Len(s)
           /\ \A n \in 1 .. Len(s) - 1 : Tail(s)[n] = s[n + 1]
  OBVIOUS

-------------------------------------------------------------------------------
(* The inductive invariant of the types, by the variables it is about.     *)

(* While the server waits for pipes, the first tasks have theirs.  Either  *)
(* those still to come are the tasks without one, in order, or one was     *)
(* lost and there are too few of them.                                     *)
PipesInTurn ==
    acceptor.pc = "start" =>
        \E a \in 0 .. IoConcurrency :
            /\ \A j \in IoTask : serverPipe[j] = NoTask <=> j >= a
            /\ \/ Len(pipeConnects) < IoConcurrency - a
               \/ /\ Len(pipeConnects) = IoConcurrency - a
                  /\ \A j \in IoTask : j < a => serverPipe[j] = j
                  /\ \A n \in 1 .. Len(pipeConnects) : pipeConnects[n] = a + n - 1

StartInv ==
    /\ pipeConnects \in Seq(IoTask)
    /\ serverPipe \in [IoTask -> IoTask \cup {NoTask}]
    /\ clientPipe \in [IoTask -> {"connecting", "reading", "closed"}]
    /\ acceptor \in [pc : {"start", "scan", "pass", "failed", "stopped"}, conn : Conn]
    /\ PipesInTurn
    /\ PipesArePaired

(* A socket on the pipe has an entry in the list of pending connections,   *)
(* also after failures, and the list holds slots of the task.              *)
PendingCovers ==
    \A k \in IoTask :
        /\ Len(pipe[k]) <= Len(pendingConns[k])
        /\ \A n \in 1 .. Len(pendingConns[k]) : IoTaskOf(pendingConns[k][n]) = k

PassHasId == acceptor.pc = "pass" => conns[acceptor.conn].id \in Client

ConnInv ==
    /\ conns \in [Conn -> ConnType]
    /\ nextConnectionId \in 0 .. MaxAccepts
    /\ pendingConns \in [IoTask -> Seq(Conn)]
    /\ pipe \in [IoTask -> Seq(Client)]
    /\ PendingCovers
    /\ PassHasId

(* A slot that is read from has a queue. *)
ReadersAreMapped == \A i \in Conn : conns[i].client # NoClient => connectionMap[i] \in Queue

(* A callback is about a slot of its task and about one client; from       *)
(* onConnect to its end nothing is read from that slot.                    *)
Connecting(k) == io[k].pc = "assign" \/ (io[k].pc = "push" /\ io[k].evt.type = "ET_CONNECT")

CallbackNamed(k) ==
    /\ io[k].pc \in {"assign", "disconnect", "push"} =>
           io[k].client \in Client /\ IoTaskOf(io[k].conn) = k
    /\ io[k].pc \in {"disconnect", "push"} => connectionMap[io[k].conn] \in Queue
    /\ io[k].pc = "push" => /\ io[k].evt.type # "ET_STOP"
                            /\ io[k].evt.conn = io[k].conn
                            /\ io[k].evt.from = io[k].client
    /\ Connecting(k) => conns[io[k].conn].client = NoClient

IoInv ==
    /\ io \in [IoTask -> IoType]
    /\ nextQueue \in Queue
    /\ connectionMap \in [Conn -> Queue \cup {NoClient}]
    /\ ReadersAreMapped
    /\ \A k \in IoTask : CallbackNamed(k)

(* An event other than ET_STOP names a slot and a client, and a handler    *)
(* that has begun still has its event.                                     *)
Named(e) == e.type # "ET_STOP" => e.conn \in Conn /\ e.from \in Client

QueueInv ==
    /\ eventQueue \in [Queue -> Seq(Event)]
    /\ worker \in [Queue -> WorkerType]
    /\ \A q \in Queue : \A n \in 1 .. Len(eventQueue[q]) : Named(eventQueue[q][n])
    /\ \A q \in Queue : worker[q].pc \in {"create", "delete"} =>
           eventQueue[q] # <<>> /\ Oldest(q).type \in {"ET_CONNECT", "ET_DISCONNECT"}

ListenerInv ==
    /\ sessions \in [Conn -> ClientOrNone]
    /\ asyncWrites \in SUBSET [conn : Conn, of : Client, seq : 0 .. MaxMsgs]
    /\ sent \in [Client -> 0 .. MaxMsgs]
    /\ seen \in [Client -> 0 .. MaxMsgs]

StopTypes ==
    /\ runState \in {"RS_RUNNING", "RS_SHUTTING_DOWN", "RS_IDLE"}
    /\ stopsSent \in 0 .. Concurrency
    /\ faults \in 0 .. MaxFaults

TypeInv == StartInv /\ ConnInv /\ IoInv /\ QueueInv /\ ListenerInv /\ StopTypes

LEMMA TypesFollow == TypeInv => TypeOK
  BY DEF TypeInv, StartInv, ConnInv, IoInv, QueueInv, ListenerInv, StopTypes, TypeOK

-------------------------------------------------------------------------------
(* Numbers of slots, tasks and queues. *)

LEMMA ServerNumbers ==
    /\ 0 \in Conn /\ 0 \in IoTask /\ 0 \in Queue
    /\ NoClient \notin Client /\ NoTask \notin IoTask
    /\ \A i \in Conn : i \in Nat /\ IoTaskOf(i) \in IoTask /\ (i + 1) % MaxConnections \in Conn
    /\ \A q \in Queue : q \in Nat /\ (q + 1) % Concurrency \in Queue
  BY SizeAssumption, ServerBoundAssumption
  DEF Conn, IoTask, Queue, Client, NoClient, NoTask, IoTaskOf

(* The records of the initial state and of a callback that is done. *)
LEMMA ServerRecords ==
    /\ \A q \in Queue : StopEvent(q) \in Event
    /\ IdleIo \in IoType /\ IdleIo.pc = "idle"
    /\ [used |-> FALSE, id |-> NoClient, client |-> NoClient] \in ConnType
    /\ [pc |-> "wait", done |-> FALSE] \in WorkerType
<1>1. \A q \in Queue : StopEvent(q) \in Event
  BY ServerNumbers, ServerBoundAssumption DEF StopEvent, Event, EventType, ClientOrNone
<1>2. IdleIo \in IoType /\ IdleIo.pc = "idle"
  BY <1>1, ServerNumbers DEF IdleIo, IoType, IoPc, ClientOrNone
<1>3. [used |-> FALSE, id |-> NoClient, client |-> NoClient] \in ConnType
  BY DEF ConnType, ClientOrNone
<1> QED BY <1>1, <1>2, <1>3 DEF WorkerType

-------------------------------------------------------------------------------
LEMMA InitTypes == Init => TypeInv
<1> SUFFICES ASSUME Init PROVE TypeInv
  OBVIOUS
<1>1. StartInv
  <2>1. /\ pipeConnects \in Seq(IoTask) /\ Len(pipeConnects) = IoConcurrency
        /\ \A n \in 1 .. IoConcurrency : pipeConnects[n] = n - 1
    BY SizeAssumption DEF Init, ConnectOrder, IoTask
  <2>2. PipesInTurn
    <3>1. \A j \in IoTask : serverPipe[j] = NoTask <=> j >= 0
      BY DEF Init, IoTask
    <3>2. \A n \in 1 .. Len(pipeConnects) : pipeConnects[n] = 0 + n - 1
      BY <2>1
    <3>3. 0 \in 0 .. IoConcurrency /\ Len(pipeConnects) = IoConcurrency - 0
      BY <2>1, SizeAssumption
    <3>4. \A j \in IoTask : ~(j < 0)
      BY DEF IoTask
    <3> QED BY <3>1, <3>2, <3>3, <3>4 DEF PipesInTurn
  <2>3. PipesArePaired
    BY DEF Init, PipesArePaired
  <2> QED BY <2>1, <2>2, <2>3, ServerNumbers DEF Init, StartInv
<1>2. ConnInv
  <2>1. PendingCovers /\ PassHasId
    BY DEF Init, PendingCovers, PassHasId
  <2>2. nextConnectionId \in 0 .. MaxAccepts
    BY ServerBoundAssumption DEF Init
  <2> QED BY <2>1, <2>2, ServerRecords DEF Init, ConnInv
<1>3. IoInv
  <2>1. \A k \in IoTask : CallbackNamed(k)
    BY ServerRecords DEF Init, CallbackNamed, Connecting
  <2>2. ReadersAreMapped
    BY DEF Init, ReadersAreMapped
  <2> QED BY <2>1, <2>2, ServerNumbers, ServerRecords DEF Init, IoInv
<1>4. QueueInv
  BY ServerRecords DEF Init, QueueInv
<1>5. ListenerInv
  BY ServerBoundAssumption DEF Init, ListenerInv, ClientOrNone
<1>6. StopTypes
  BY SizeAssumption, ServerBoundAssumption DEF Init, StopTypes
<1> QED BY <1>1, <1>2, <1>3, <1>4, <1>5, <1>6 DEF TypeInv

(* A part of the invariant holds as long as nothing it is about changes. *)
LEMMA StartKept ==
    ASSUME StartInv, UNCHANGED <<startVars, acceptor>>
    PROVE  StartInv'
  BY DEF StartInv, startVars, PipesInTurn, PipesArePaired

LEMMA ConnKept ==
    ASSUME ConnInv, UNCHANGED connVars
    PROVE  ConnInv'
  BY DEF ConnInv, connVars, PendingCovers, PassHasId

LEMMA IoKept ==
    ASSUME IoInv, UNCHANGED <<io, conns, muxVars>>
    PROVE  IoInv'
  BY DEF IoInv, muxVars, ReadersAreMapped, CallbackNamed, Connecting

LEMMA QueueKept ==
    ASSUME QueueInv, UNCHANGED <<eventQueue, worker>>
    PROVE  QueueInv'
  BY DEF QueueInv, Oldest

LEMMA ListenerKept ==
    ASSUME ListenerInv, UNCHANGED <<serverVars, sent>>
    PROVE  ListenerInv'
  BY DEF ListenerInv, serverVars

LEMMA StopKept ==
    ASSUME StopTypes, UNCHANGED <<stopVars, faults>>
    PROVE  StopTypes'
  BY DEF StopTypes, stopVars

LEMMA StopFails ==
    ASSUME StopTypes, UNCHANGED stopVars, Fails
    PROVE  StopTypes'
  BY ServerBoundAssumption DEF StopTypes, stopVars, Fails

-------------------------------------------------------------------------------
(* Start-up. *)

(* The first task without a pipe is the one after those that have theirs. *)
LEMMA PipeTurn ==
    ASSUME StartInv, acceptor.pc = "start", pipeConnects # <<>>
    PROVE  \E a \in IoTask :
             /\ \A j \in IoTask : serverPipe[j] = NoTask <=> j >= a
             /\ \A k \in IoTask : VacantPipe(k) => k = a
             /\ LastPipe(a) <=> a = IoConcurrency - 1
             /\ \/ Len(pipeConnects) < IoConcurrency - a
                \/ /\ Len(pipeConnects) = IoConcurrency - a
                   /\ \A j \in IoTask : j < a => serverPipe[j] = j
                   /\ \A n \in 1 .. Len(pipeConnects) : pipeConnects[n] = a + n - 1
<1>1. PICK a \in 0 .. IoConcurrency :
          /\ \A j \in IoTask : serverPipe[j] = NoTask <=> j >= a
          /\ \/ Len(pipeConnects) < IoConcurrency - a
             \/ /\ Len(pipeConnects) = IoConcurrency - a
                /\ \A j \in IoTask : j < a => serverPipe[j] = j
                /\ \A n \in 1 .. Len(pipeConnects) : pipeConnects[n] = a + n - 1
  BY DEF StartInv, PipesInTurn
<1>2. Len(pipeConnects) \in Nat /\ Len(pipeConnects) > 0
  BY TailElements DEF StartInv
<1>3. a \in IoTask /\ a \in Nat /\ IoConcurrency \in Nat
  BY <1>1, <1>2, SizeAssumption DEF IoTask
<1>4. \A j \in IoTask : j \in Nat /\ j < IoConcurrency
  BY SizeAssumption DEF IoTask
<1>5. \A k \in IoTask : VacantPipe(k) => k = a
  BY <1>1, <1>3, <1>4 DEF VacantPipe
<1>6. LastPipe(a) <=> a = IoConcurrency - 1
  <2>1. CASE a = IoConcurrency - 1
    BY <1>1, <1>3, <1>4, <2>1 DEF LastPipe
  <2>2. CASE a # IoConcurrency - 1
    <3>1. a + 1 \in IoTask /\ a + 1 # a /\ a + 1 >= a
      BY <1>3, <2>2 DEF IoTask
    <3> QED BY <1>1, <2>2, <3>1 DEF LastPipe
  <2> QED BY <2>1, <2>2
<1> QED BY <1>1, <1>3, <1>5, <1>6

(* handleNewPipeConnection. *)
LEMMA TypesAcceptPipe ==
    ASSUME TypeInv, AcceptPipe
    PROVE  TypeInv'
<1>1. /\ acceptor.pc = "start" /\ pipeConnects # <<>> /\ StartInv
      /\ pipeConnects' = Tail(pipeConnects) /\ clientPipe' = clientPipe
  BY DEF AcceptPipe, TypeInv
<1>2. PICK k \in IoTask :
        /\ VacantPipe(k)
        /\ serverPipe' = [serverPipe EXCEPT ![k] = Head(pipeConnects)]
        /\ acceptor' = [acceptor EXCEPT !.pc = IF LastPipe(k) THEN "scan" ELSE "start"]
  BY DEF AcceptPipe
<1>3. PICK a \in IoTask :
        /\ \A j \in IoTask : serverPipe[j] = NoTask <=> j >= a
        /\ \A j \in IoTask : VacantPipe(j) => j = a
        /\ LastPipe(a) <=> a = IoConcurrency - 1
        /\ \/ Len(pipeConnects) < IoConcurrency - a
           \/ /\ Len(pipeConnects) = IoConcurrency - a
              /\ \A j \in IoTask : j < a => serverPipe[j] = j
              /\ \A n \in 1 .. Len(pipeConnects) : pipeConnects[n] = a + n - 1
  BY <1>1, PipeTurn
<1>4. k = a /\ a \in Nat /\ IoConcurrency \in Nat /\ a < IoConcurrency
  BY <1>2, <1>3, SizeAssumption DEF IoTask
<1>5. /\ Len(pipeConnects) \in Nat \ {0} /\ Head(pipeConnects) = pipeConnects[1]
      /\ Head(pipeConnects) \in IoTask
      /\ pipeConnects' \in Seq(IoTask) /\ Len(pipeConnects') = Len(pipeConnects) - 1
      /\ \A n \in 1 .. Len(pipeConnects) - 1 : pipeConnects'[n] = pipeConnects[n + 1]
  BY <1>1, TailElements DEF StartInv
<1>6. /\ serverPipe' \in [IoTask -> IoTask \cup {NoTask}]
      /\ serverPipe'[a] = Head(pipeConnects)
      /\ \A j \in IoTask : j # a => serverPipe'[j] = serverPipe[j]
  BY <1>1, <1>2, <1>4, <1>5 DEF StartInv
<1>7. /\ acceptor' \in [pc : {"start", "scan", "pass", "failed", "stopped"}, conn : Conn]
      /\ acceptor'.pc = IF a = IoConcurrency - 1 THEN "scan" ELSE "start"
  BY <1>1, <1>2, <1>3, <1>4 DEF StartInv
<1>8. \A j \in IoTask : j \in Nat /\ (serverPipe'[j] = NoTask <=> j >= a + 1)
  <2> TAKE j \in IoTask
  <2>1. j \in Nat /\ Head(pipeConnects) # NoTask
    BY <1>5, ServerNumbers, SizeAssumption DEF IoTask
  <2>2. CASE j = a
    BY <1>4, <1>6, <2>1, <2>2
  <2>3. CASE j # a
    BY <1>3, <1>4, <1>6, <2>1, <2>3
  <2> QED BY <2>2, <2>3
<1>9. ASSUME Len(pipeConnects) < IoConcurrency - a
      PROVE  StartInv'
  <2>1. a # IoConcurrency - 1 /\ Len(pipeConnects') < IoConcurrency - (a + 1)
    BY <1>4, <1>5, <1>9
  <2>2. a + 1 \in 0 .. IoConcurrency
    BY <1>4
  <2>3. PipesInTurn'
    BY <1>8, <2>1, <2>2 DEF PipesInTurn
  <2>4. PipesArePaired'
    BY <1>7, <2>1 DEF PipesArePaired
  <2> QED BY <1>1, <1>5, <1>6, <1>7, <2>3, <2>4 DEF StartInv
<1>10. ASSUME /\ Len(pipeConnects) = IoConcurrency - a
              /\ \A j \in IoTask : j < a => serverPipe[j] = j
              /\ \A n \in 1 .. Len(pipeConnects) : pipeConnects[n] = a + n - 1
       PROVE  StartInv'
  <2>1. Head(pipeConnects) = a
    BY <1>4, <1>5, <1>10
  <2>2. Len(pipeConnects') = IoConcurrency - (a + 1) /\ a + 1 \in 0 .. IoConcurrency
    BY <1>4, <1>5, <1>10
  <2>3. \A n \in 1 .. Len(pipeConnects') : pipeConnects'[n] = (a + 1) + n - 1
    BY <1>4, <1>5, <1>10
  <2>4. \A j \in IoTask : j < a + 1 => serverPipe'[j] = j
    BY <1>4, <1>6, <1>8, <1>10, <2>1
  <2>5. PipesInTurn'
    BY <1>8, <2>2, <2>3, <2>4 DEF PipesInTurn
  <2>6. PipesArePaired'
    <3>1. \A j \in IoTask : a = IoConcurrency - 1 => j < a + 1
      BY <1>4, <1>8 DEF IoTask
    <3> QED BY <1>7, <2>4, <3>1 DEF PipesArePaired
  <2> QED BY <1>1, <1>5, <1>6, <1>7, <2>5, <2>6 DEF StartInv
<1>11. StartInv'
  BY <1>3, <1>9, <1>10
<1>12. ConnInv'
  BY <1>7 DEF AcceptPipe, TypeInv, ConnInv, PendingCovers, PassHasId
<1> QED BY <1>11, <1>12, IoKept, QueueKept, ListenerKept, StopKept DEF AcceptPipe, TypeInv

(* A pipe that fails, or uv_listen that does. *)
LEMMA TypesPipeFails ==
    ASSUME TypeInv, AcceptPipeFails \/ ListenFails
    PROVE  TypeInv'
<1>1. acceptor.pc = "start" /\ pipeConnects # <<>> /\ StartInv
  BY DEF AcceptPipeFails, ListenFails, TypeInv
<1>2. CASE AcceptPipeFails
  <2>1. /\ pipeConnects' \in Seq(IoTask)
        /\ Len(pipeConnects') \in Nat /\ Len(pipeConnects') < Len(pipeConnects)
        /\ Len(pipeConnects) \in Nat
    <3>1. /\ Tail(pipeConnects) \in Seq(IoTask)
          /\ Len(Tail(pipeConnects)) = Len(pipeConnects) - 1
          /\ Len(pipeConnects) \in Nat \ {0}
      BY <1>1, TailElements DEF StartInv
    <3>2. CASE pipeConnects' = <<>>
      <4>1. pipeConnects' \in Seq(IoTask) /\ Len(pipeConnects') = 0
        BY <3>2
      <4> QED BY <3>1, <4>1
    <3>3. CASE pipeConnects' = Tail(pipeConnects)
      BY <3>1, <3>3
    <3> QED BY <1>2, <3>2, <3>3 DEF AcceptPipeFails
  <2>2. UNCHANGED <<serverPipe, clientPipe, acceptor>>
    BY <1>2 DEF AcceptPipeFails, connVars
  <2>3. PipesInTurn'
    <3>1. PICK a \in 0 .. IoConcurrency :
            /\ \A j \in IoTask : serverPipe[j] = NoTask <=> j >= a
            /\ Len(pipeConnects) <= IoConcurrency - a
      BY <1>1, <2>1, SizeAssumption DEF StartInv, PipesInTurn
    <3>2. Len(pipeConnects') < IoConcurrency - a
      BY <2>1, <3>1, SizeAssumption
    <3> QED BY <2>2, <3>1, <3>2 DEF PipesInTurn
  <2>4. StartInv'
    BY <1>1, <2>1, <2>2, <2>3 DEF StartInv, PipesArePaired
  <2> QED BY <1>2, <2>4, ConnKept, IoKept, QueueKept, ListenerKept, StopFails
          DEF AcceptPipeFails, TypeInv, connVars
<1>3. CASE ListenFails
  <2>1. acceptor' = [acceptor EXCEPT !.pc = "failed"] /\ clientPipe' = clientPipe
    BY <1>3 DEF ListenFails
  <2>2. pipeConnects' \in Seq(IoTask) /\ serverPipe' \in [IoTask -> IoTask \cup {NoTask}]
    BY <1>1, <1>3, TailElements DEF ListenFails, StartInv
  <2>3. StartInv'
    BY <1>1, <2>1, <2>2 DEF StartInv, PipesInTurn, PipesArePaired
  <2>4. ConnInv'
    BY <1>1, <1>3, <2>1 DEF ListenFails, TypeInv, StartInv, ConnInv, PendingCovers, PassHasId
  <2>5. IoInv'
    <3>1. io' = [k \in IoTask |-> [io[k] EXCEPT !.pc = "stopped"]] /\ UNCHANGED <<conns, muxVars>>
      BY <1>3 DEF ListenFails
    <3>2. \A k \in IoTask : io'[k] \in IoType /\ io'[k].pc = "stopped"
      BY <3>1 DEF TypeInv, IoInv, IoType, IoPc
    <3> QED BY <3>1, <3>2
            DEF TypeInv, IoInv, muxVars, ReadersAreMapped, CallbackNamed, Connecting
  <2> QED BY <1>3, <2>3, <2>4, <2>5, QueueKept, ListenerKept, StopFails DEF ListenFails, TypeInv
<1> QED BY <1>2, <1>3

LEMMA TypesPipeConnect ==
    ASSUME TypeInv, NEW k \in IoTask, HandlePipeConnect(k) \/ PipeConnectFails(k)
    PROVE  TypeInv'
<1>1. /\ clientPipe' \in [IoTask -> {"connecting", "reading", "closed"}]
      /\ UNCHANGED <<pipeConnects, serverPipe, acceptor>>
  BY DEF HandlePipeConnect, PipeConnectFails, TypeInv, StartInv, connVars
<1>2. StartInv'
  BY <1>1 DEF TypeInv, StartInv, PipesInTurn, PipesArePaired
<1>3. StopTypes'
  BY StopKept, StopFails DEF HandlePipeConnect, PipeConnectFails, TypeInv
<1> QED BY <1>2, <1>3, ConnKept, IoKept, QueueKept, ListenerKept
        DEF HandlePipeConnect, PipeConnectFails, TypeInv, connVars

-------------------------------------------------------------------------------
(* The accept loop. *)

(* Only the state of the acceptor moves, outside start-up. *)
LEMMA StartMoves ==
    ASSUME StartInv, UNCHANGED startVars, acceptor.pc \in {"scan", "pass"},
           acceptor' \in [pc : {"scan", "pass", "stopped"}, conn : Conn]
    PROVE  StartInv'
<1>1. UNCHANGED <<pipeConnects, serverPipe, clientPipe>>
  BY DEF startVars
<1> QED BY <1>1 DEF StartInv, PipesInTurn, PipesArePaired

(* Ids and use of slots change, their readers do not. *)
LEMMA IoFollows ==
    ASSUME TypeInv, UNCHANGED <<io, muxVars>>, conns' \in [Conn -> ConnType],
           \A i \in Conn : conns'[i].client \in {conns[i].client, NoClient}
    PROVE  IoInv'
<1>1. \A k \in IoTask : io[k].conn \in Conn
  BY DEF TypeInv, IoInv, IoType
<1>2. ReadersAreMapped'
  BY DEF TypeInv, IoInv, ReadersAreMapped, muxVars
<1>3. \A k \in IoTask : CallbackNamed(k)'
  BY <1>1 DEF TypeInv, IoInv, CallbackNamed, Connecting, muxVars
<1> QED BY <1>2, <1>3 DEF TypeInv, IoInv, muxVars

LEMMA TypesGrab ==
    ASSUME TypeInv, GrabConnectionData
    PROVE  TypeInv'
<1> DEFINE i == acceptor.conn
<1>1. /\ acceptor.pc = "scan" /\ nextConnectionId < MaxAccepts /\ i \in Conn
      /\ nextConnectionId \in 0 .. MaxAccepts
  BY DEF GrabConnectionData, TypeInv, StartInv, ConnInv
<1>2. CASE conns[i].used
  <2>1. /\ acceptor' = [acceptor EXCEPT !.conn = (i + 1) % MaxConnections]
        /\ UNCHANGED <<conns, nextConnectionId>>
    BY <1>2 DEF GrabConnectionData
  <2>2. acceptor' \in [pc : {"scan", "pass", "stopped"}, conn : Conn] /\ acceptor'.pc = "scan"
    BY <1>1, <2>1, ServerNumbers DEF TypeInv, StartInv
  <2>3. StartInv'
    BY <1>1, <2>2, StartMoves DEF GrabConnectionData, TypeInv
  <2>4. ConnInv'
    BY <2>1, <2>2 DEF GrabConnectionData, TypeInv, ConnInv, PendingCovers, PassHasId
  <2> QED BY <2>1, <2>3, <2>4, IoKept, QueueKept, ListenerKept, StopKept
          DEF GrabConnectionData, TypeInv
<1>3. CASE ~conns[i].used
  <2>1. /\ conns' = [conns EXCEPT ![i].used = TRUE, ![i].id = nextConnectionId]
        /\ nextConnectionId' = nextConnectionId + 1
        /\ acceptor' = [pc |-> "pass", conn |-> i]
    BY <1>3 DEF GrabConnectionData
  <2>2. StartInv'
    BY <1>1, <2>1, StartMoves DEF GrabConnectionData, TypeInv
  <2>3. nextConnectionId \in Client /\ nextConnectionId' \in 0 .. MaxAccepts
    BY <1>1, <2>1, ServerBoundAssumption DEF Client
  <2>4. /\ conns' \in [Conn -> ConnType] /\ conns'[i].id = nextConnectionId
        /\ \A j \in Conn : conns'[j].client = conns[j].client
    BY <1>1, <2>1, <2>3 DEF TypeInv, ConnInv, ConnType, ClientOrNone
  <2>5. ConnInv'
    BY <2>1, <2>3, <2>4 DEF GrabConnectionData, TypeInv, ConnInv, PendingCovers, PassHasId
  <2>6. IoInv'
    BY <2>4, IoFollows DEF GrabConnectionData
  <2> QED BY <2>2, <2>5, <2>6, QueueKept, ListenerKept, StopKept
          DEF GrabConnectionData, TypeInv
<1> QED BY <1>2, <1>3

LEMMA TypesAcceptFails ==
    ASSUME TypeInv, AcceptFails
    PROVE  TypeInv'
<1> DEFINE i == acceptor.conn
<1>1. /\ acceptor.pc = "pass" /\ i \in Conn /\ acceptor' = [pc |-> "scan", conn |-> 0]
      /\ conns' = [conns EXCEPT ![i].used = FALSE]
  BY DEF AcceptFails, TypeInv, StartInv
<1>2. StartInv'
  BY <1>1, ServerNumbers, StartMoves DEF AcceptFails, TypeInv
<1>3. conns' \in [Conn -> ConnType] /\ \A j \in Conn : conns'[j].client = conns[j].client
  BY <1>1 DEF TypeInv, ConnInv, ConnType
<1>4. ConnInv'
  BY <1>1, <1>3 DEF AcceptFails, TypeInv, ConnInv, PendingCovers, PassHasId
<1>5. IoInv'
  BY <1>3, IoFollows DEF AcceptFails
<1> QED BY <1>2, <1>4, <1>5, QueueKept, ListenerKept, StopFails DEF AcceptFails, TypeInv

(* The slot joins the list of its task; its socket may join the pipe. *)
LEMMA PendingAppended ==
    ASSUME TypeInv, NEW i \in Conn,
           pendingConns' = [pendingConns EXCEPT ![IoTaskOf(i)] = Append(@, i)]
    PROVE  /\ pendingConns' \in [IoTask -> Seq(Conn)]
           /\ \A k \in IoTask :
                 /\ Len(pendingConns'[k]) =
                       IF k = IoTaskOf(i) THEN Len(pendingConns[k]) + 1 ELSE Len(pendingConns[k])
                 /\ Len(pendingConns[k]) \in Nat
                 /\ \A n \in 1 .. Len(pendingConns'[k]) : IoTaskOf(pendingConns'[k][n]) = k
<1>1. IoTaskOf(i) \in IoTask
  BY ServerNumbers
<1>2. \A k \in IoTask : pendingConns[k] \in Seq(Conn)
  BY DEF TypeInv, ConnInv
<1>3. pendingConns'[IoTaskOf(i)] = Append(pendingConns[IoTaskOf(i)], i)
  BY <1>1 DEF TypeInv, ConnInv
<1>4. \A k \in IoTask : k # IoTaskOf(i) => pendingConns'[k] = pendingConns[k]
  BY DEF TypeInv, ConnInv
<1>5. pendingConns' \in [IoTask -> Seq(Conn)]
  BY <1>1, <1>2, AppendElements DEF TypeInv, ConnInv
<1>6. ASSUME NEW k \in IoTask
      PROVE  /\ Len(pendingConns'[k]) =
                   IF k = IoTaskOf(i) THEN Len(pendingConns[k]) + 1 ELSE Len(pendingConns[k])
             /\ Len(pendingConns[k]) \in Nat
             /\ \A n \in 1 .. Len(pendingConns'[k]) : IoTaskOf(pendingConns'[k][n]) = k
  <2>1. CASE k = IoTaskOf(i)
    BY <1>2, <1>3, <2>1, AppendElements DEF TypeInv, ConnInv, PendingCovers
  <2>2. CASE k # IoTaskOf(i)
    BY <1>2, <1>4, <2>2 DEF TypeInv, ConnInv, PendingCovers
  <2> QED BY <2>1, <2>2
<1> QED BY <1>5, <1>6

LEMMA TypesPass ==
    ASSUME TypeInv, PassConnection
    PROVE  TypeInv'
<1> DEFINE i == acceptor.conn
           k == IoTaskOf(i)
<1>1. /\ acceptor.pc = "pass" /\ i \in Conn /\ acceptor' = [pc |-> "scan", conn |-> 0]
      /\ pendingConns' = [pendingConns EXCEPT ![k] = Append(@, i)]
      /\ pipe' = [pipe EXCEPT ![serverPipe[k]] = Append(@, conns[i].id)]
  BY DEF PassConnection, TypeInv, StartInv
<1>2. StartInv'
  BY <1>1, ServerNumbers, StartMoves DEF PassConnection, TypeInv
<1>3. k \in IoTask /\ serverPipe[k] = k /\ conns[i].id \in Client
  BY <1>1, ServerNumbers DEF TypeInv, StartInv, PipesArePaired, ConnInv, PassHasId
<1>4. /\ pendingConns' \in [IoTask -> Seq(Conn)]
      /\ \A j \in IoTask :
            /\ Len(pendingConns'[j]) =
                  IF j = k THEN Len(pendingConns[j]) + 1 ELSE Len(pendingConns[j])
            /\ Len(pendingConns[j]) \in Nat
            /\ \A n \in 1 .. Len(pendingConns'[j]) : IoTaskOf(pendingConns'[j][n]) = j
  BY <1>1, PendingAppended
<1>5. /\ pipe' \in [IoTask -> Seq(Client)]
      /\ \A j \in IoTask : /\ Len(pipe'[j]) = IF j = k THEN Len(pipe[j]) + 1 ELSE Len(pipe[j])
                           /\ Len(pipe[j]) \in Nat
  <2>1. \A j \in IoTask : pipe[j] \in Seq(Client)
    BY DEF TypeInv, ConnInv
  <2>2. pipe'[k] = Append(pipe[k], conns[i].id) /\ \A j \in IoTask : j # k => pipe'[j] = pipe[j]
    BY <1>1, <1>3 DEF TypeInv, ConnInv
  <2>3. /\ Append(pipe[k], conns[i].id) \in Seq(Client)
        /\ Len(Append(pipe[k], conns[i].id)) = Len(pipe[k]) + 1
    BY <1>3, <2>1, AppendElements
  <2> QED BY <1>1, <1>3, <2>1, <2>2, <2>3 DEF TypeInv, ConnInv
<1>6. PendingCovers'
  BY <1>4, <1>5 DEF TypeInv, ConnInv, PendingCovers
<1>7. ConnInv'
  BY <1>1, <1>4, <1>5, <1>6 DEF PassConnection, TypeInv, ConnInv, PassHasId
<1> QED BY <1>2, <1>7, IoKept, QueueKept, ListenerKept, StopKept DEF PassConnection, TypeInv

LEMMA TypesPassFails ==
    ASSUME TypeInv, PassFails
    PROVE  TypeInv'
<1> DEFINE i == acceptor.conn
<1>1. /\ acceptor.pc = "pass" /\ i \in Conn /\ acceptor' = [pc |-> "scan", conn |-> 0]
      /\ pendingConns' = [pendingConns EXCEPT ![IoTaskOf(i)] = Append(@, i)]
      /\ UNCHANGED pipe
  BY DEF PassFails, TypeInv, StartInv
<1>0. PICK used \in BOOLEAN : conns' = [conns EXCEPT ![i].used = used]
  BY DEF PassFails
<1>2. StartInv'
  BY <1>1, ServerNumbers, StartMoves DEF PassFails, TypeInv
<1>3. conns' \in [Conn -> ConnType] /\ \A j \in Conn : conns'[j].client = conns[j].client
  BY <1>0, <1>1 DEF TypeInv, ConnInv, ConnType
<1>4. /\ pendingConns' \in [IoTask -> Seq(Conn)]
      /\ \A k \in IoTask :
            /\ Len(pendingConns'[k]) >= Len(pendingConns[k])
            /\ Len(pendingConns[k]) \in Nat /\ Len(pendingConns'[k]) \in Nat
            /\ \A n \in 1 .. Len(pendingConns'[k]) : IoTaskOf(pendingConns'[k][n]) = k
  <2>1. /\ pendingConns' \in [IoTask -> Seq(Conn)]
        /\ \A k \in IoTask :
              /\ Len(pendingConns'[k]) =
                    IF k = IoTaskOf(i) THEN Len(pendingConns[k]) + 1 ELSE Len(pendingConns[k])
              /\ Len(pendingConns[k]) \in Nat
              /\ \A n \in 1 .. Len(pendingConns'[k]) : IoTaskOf(pendingConns'[k][n]) = k
    BY <1>1, PendingAppended
  <2>2. \A k \in IoTask : /\ Len(pendingConns'[k]) >= Len(pendingConns[k])
                          /\ Len(pendingConns'[k]) \in Nat
    BY <2>1
  <2> QED BY <2>1, <2>2
<1>5. PendingCovers'
  <2>1. \A k \in IoTask : Len(pipe[k]) \in Nat /\ Len(pipe[k]) <= Len(pendingConns[k])
    BY DEF TypeInv, ConnInv, PendingCovers
  <2> QED BY <1>1, <1>4, <2>1 DEF PendingCovers
<1>6. ConnInv'
  BY <1>1, <1>3, <1>4, <1>5 DEF PassFails, TypeInv, ConnInv, PassHasId
<1>7. IoInv'
  BY <1>3, IoFollows DEF PassFails
<1> QED BY <1>2, <1>6, <1>7, QueueKept, ListenerKept, StopFails DEF PassFails, TypeInv

-------------------------------------------------------------------------------
(* The I/O tasks. *)

(* The head of the list goes together with the head of the pipe. *)
LEMMA PendingTaken ==
    ASSUME TypeInv, NEW k \in IoTask, pipe[k] # <<>>,
           pendingConns' = [pendingConns EXCEPT ![k] = Tail(@)],
           pipe' = [pipe EXCEPT ![k] = Tail(@)]
    PROVE  /\ pendingConns[k] # <<>>
           /\ Head(pendingConns[k]) \in Conn /\ IoTaskOf(Head(pendingConns[k])) = k
           /\ Head(pipe[k]) \in Client
           /\ pendingConns' \in [IoTask -> Seq(Conn)]
           /\ pipe' \in [IoTask -> Seq(Client)]
           /\ PendingCovers'
<1>1. /\ pipe[k] \in Seq(Client) /\ pendingConns[k] \in Seq(Conn)
      /\ \A j \in IoTask : /\ Len(pipe[j]) \in Nat /\ Len(pendingConns[j]) \in Nat
                           /\ Len(pipe[j]) <= Len(pendingConns[j])
                           /\ \A n \in 1 .. Len(pendingConns[j]) : IoTaskOf(pendingConns[j][n]) = j
  BY DEF TypeInv, ConnInv, PendingCovers
<1>2. /\ Head(pipe[k]) \in Client /\ Tail(pipe[k]) \in Seq(Client)
      /\ Len(pipe[k]) > 0 /\ Len(Tail(pipe[k])) = Len(pipe[k]) - 1
  BY <1>1, TailElements
<1>3. Len(pendingConns[k]) > 0
  BY <1>1, <1>2
<1>4. pendingConns[k] # <<>>
  BY <1>3
<1>5. /\ Head(pendingConns[k]) \in Conn /\ Tail(pendingConns[k]) \in Seq(Conn)
      /\ Head(pendingConns[k]) = pendingConns[k][1]
      /\ Len(Tail(pendingConns[k])) = Len(pendingConns[k]) - 1
      /\ \A n \in 1 .. Len(pendingConns[k]) - 1 : Tail(pendingConns[k])[n] = pendingConns[k][n + 1]
  BY <1>1, <1>4, TailElements
<1>6. IoTaskOf(Head(pendingConns[k])) = k
  BY <1>1, <1>3, <1>5
<1>7. /\ pendingConns' \in [IoTask -> Seq(Conn)] /\ pendingConns'[k] = Tail(pendingConns[k])
      /\ \A j \in IoTask : j # k => pendingConns'[j] = pendingConns[j]
  BY <1>5 DEF TypeInv, ConnInv
<1>8. /\ pipe' \in [IoTask -> Seq(Client)] /\ pipe'[k] = Tail(pipe[k])
      /\ \A j \in IoTask : j # k => pipe'[j] = pipe[j]
  BY <1>2 DEF TypeInv, ConnInv
<1>9. ASSUME NEW j \in IoTask
      PROVE  /\ Len(pipe'[j]) <= Len(pendingConns'[j])
             /\ \A n \in 1 .. Len(pendingConns'[j]) : IoTaskOf(pendingConns'[j][n]) = j
  <2>1. CASE j = k
    <3>1. Len(pipe'[j]) <= Len(pendingConns'[j])
      BY <1>1, <1>2, <1>5, <1>7, <1>8, <2>1
    <3>2. \A n \in 1 .. Len(pendingConns[k]) - 1 : IoTaskOf(pendingConns[k][n + 1]) = k
      BY <1>1
    <3> QED BY <1>5, <1>7, <2>1, <3>1, <3>2
  <2>2. CASE j # k
    BY <1>1, <1>7, <1>8, <2>2
  <2> QED BY <2>1, <2>2
<1> QED BY <1>2, <1>4, <1>5, <1>6, <1>7, <1>8, <1>9 DEF PendingCovers

LEMMA TypesPipeRead ==
    ASSUME TypeInv, NEW k \in IoTask, HandlePipeRead(k)
    PROVE  TypeInv'
<1> DEFINE i == Head(pendingConns[k])
           new == [IdleIo EXCEPT !.pc = "assign", !.conn = i, !.client = Head(pipe[k]),
                                 !.queue = nextQueue]
<1>1. /\ pipe[k] # <<>> /\ io' = [io EXCEPT ![k] = new]
      /\ conns' = [conns EXCEPT ![i].client = NoClient]
      /\ pendingConns' = [pendingConns EXCEPT ![k] = Tail(@)]
      /\ pipe' = [pipe EXCEPT ![k] = Tail(@)]
      /\ UNCHANGED <<startVars, nextConnectionId, acceptor, muxVars, eventQueue,
                     worker, serverVars, stopVars, sent, faults>>
  BY DEF HandlePipeRead
<1>2. /\ i \in Conn /\ IoTaskOf(i) = k /\ Head(pipe[k]) \in Client
      /\ pendingConns' \in [IoTask -> Seq(Conn)] /\ pipe' \in [IoTask -> Seq(Client)]
      /\ PendingCovers'
  BY <1>1, PendingTaken
<1>3. /\ conns' \in [Conn -> ConnType] /\ conns'[i].client = NoClient
      /\ \A j \in Conn : conns'[j].client \in {conns[j].client, NoClient}
      /\ \A j \in Conn : conns'[j].id = conns[j].id
  BY <1>1, <1>2 DEF TypeInv, ConnInv, ConnType, ClientOrNone
<1>4. /\ new \in IoType /\ new.pc = "assign" /\ new.conn = i /\ new.client = Head(pipe[k])
  <2>1. nextQueue \in Queue
    BY DEF TypeInv, IoInv
  <2> QED BY <1>2, <2>1, ServerRecords DEF IoType, IoPc, ClientOrNone
<1>5. /\ io' \in [IoTask -> IoType] /\ io'[k] = new
      /\ \A j \in IoTask : j # k => io'[j] = io[j]
  BY <1>1, <1>4 DEF TypeInv, IoInv
<1>6. ConnInv'
  <2>1. PassHasId'
    BY <1>1, <1>3 DEF TypeInv, StartInv, ConnInv, PassHasId
  <2> QED BY <1>1, <1>2, <1>3, <2>1 DEF TypeInv, ConnInv
<1>7. IoInv'
  <2>1. ReadersAreMapped'
    BY <1>1, <1>3 DEF TypeInv, IoInv, ReadersAreMapped, muxVars
  <2>2. CallbackNamed(k)'
    BY <1>2, <1>3, <1>4, <1>5 DEF CallbackNamed, Connecting
  <2>3. \A j \in IoTask : j # k => CallbackNamed(j)'
    <3>1. \A j \in IoTask : io[j].conn \in Conn /\ CallbackNamed(j)
      BY DEF TypeInv, IoInv, IoType
    <3> QED BY <1>1, <1>3, <1>5, <3>1 DEF CallbackNamed, Connecting, muxVars
  <2> QED BY <1>1, <1>5, <2>1, <2>2, <2>3 DEF TypeInv, IoInv, muxVars
<1> QED BY <1>1, <1>6, <1>7, StartKept, QueueKept, ListenerKept, StopKept DEF TypeInv

LEMMA TypesPipeReadFails ==
    ASSUME TypeInv, NEW k \in IoTask, PipeReadFails(k)
    PROVE  TypeInv'
<1> DEFINE i == Head(pendingConns[k])
<1>1. /\ pipe[k] # <<>> /\ Fails
      /\ pendingConns' = [pendingConns EXCEPT ![k] = Tail(@)]
      /\ pipe' = [pipe EXCEPT ![k] = Tail(@)]
      /\ UNCHANGED <<pipeConnects, serverPipe, nextConnectionId, acceptor, io, muxVars,
                     eventQueue, worker, serverVars, stopVars, sent>>
  BY DEF PipeReadFails
<1>0. StartInv'
  <2>1. clientPipe' \in [IoTask -> {"connecting", "reading", "closed"}]
    BY DEF PipeReadFails, TypeInv, StartInv
  <2> QED BY <1>1, <2>1 DEF TypeInv, StartInv, PipesInTurn, PipesArePaired
<1>2. PICK client \in {conns[i].client, NoClient} :
          conns' = [conns EXCEPT ![i].used = FALSE, ![i].client = client]
  BY DEF PipeReadFails
<1>3. /\ i \in Conn /\ pendingConns' \in [IoTask -> Seq(Conn)]
      /\ pipe' \in [IoTask -> Seq(Client)] /\ PendingCovers'
  BY <1>1, PendingTaken
<1>4. /\ conns' \in [Conn -> ConnType]
      /\ \A j \in Conn : conns'[j].client \in {conns[j].client, NoClient}
      /\ \A j \in Conn : conns'[j].id = conns[j].id
  BY <1>2, <1>3 DEF TypeInv, ConnInv, ConnType, ClientOrNone
<1>5. ConnInv'
  <2>1. PassHasId'
    BY <1>1, <1>4 DEF TypeInv, StartInv, ConnInv, PassHasId
  <2> QED BY <1>1, <1>3, <1>4, <2>1 DEF TypeInv, ConnInv
<1>6. IoInv'
  BY <1>1, <1>4, IoFollows
<1> QED BY <1>0, <1>1, <1>5, <1>6, QueueKept, ListenerKept, StopFails DEF TypeInv

(* pushEvent begins: the task holds the event and its queue. *)
LEMMA PushStarted ==
    ASSUME io \in [IoTask -> IoType], NEW k \in IoTask, NEW evt \in Event, evt.conn \in Conn,
           NEW queue \in Queue, StartPush(k, evt, queue)
    PROVE  /\ io' \in [IoTask -> IoType]
           /\ io'[k].pc = "push" /\ io'[k].conn = evt.conn /\ io'[k].client = evt.from
           /\ io'[k].evt = evt /\ io'[k].queue = queue
           /\ \A j \in IoTask : j # k => io'[j] = io[j]
<1>1. evt.from \in ClientOrNone
  BY DEF Event
<1> QED BY <1>1 DEF StartPush, IoType, IoPc

LEMMA NewEventTyped ==
    ASSUME ConnInv, NEW type \in EventType, NEW i \in Conn, NEW from \in Client,
           NEW seq \in 0 .. MaxMsgs
    PROVE  /\ NewEvent(type, i, from, seq) \in Event
           /\ NewEvent(type, i, from, seq).type = type
           /\ NewEvent(type, i, from, seq).conn = i
           /\ NewEvent(type, i, from, seq).from = from
           /\ NewEvent(type, i, from, seq).seq = seq
<1>1. i \in Nat /\ conns[i].id \in ClientOrNone /\ from \in ClientOrNone
  BY ServerNumbers DEF ConnInv, ConnType, ClientOrNone
<1> QED BY <1>1 DEF NewEvent, Event

(* A task that begins pushEvent about a client and a slot of its own. *)
LEMMA CallbackPushes ==
    ASSUME TypeInv, NEW k \in IoTask, NEW evt \in Event, NEW queue \in Queue,
           evt.conn \in Conn, evt.from \in Client, evt.type # "ET_STOP",
           IoTaskOf(evt.conn) = k, StartPush(k, evt, queue), UNCHANGED conns,
           connectionMap' \in [Conn -> Queue \cup {NoClient}], nextQueue' \in Queue,
           connectionMap'[evt.conn] \in Queue,
           \A i \in Conn : i # evt.conn => connectionMap'[i] = connectionMap[i],
           evt.type = "ET_CONNECT" => conns[evt.conn].client = NoClient
    PROVE  IoInv'
<1>1. /\ io' \in [IoTask -> IoType]
      /\ io'[k].pc = "push" /\ io'[k].conn = evt.conn /\ io'[k].client = evt.from
      /\ io'[k].evt = evt /\ io'[k].queue = queue
      /\ \A j \in IoTask : j # k => io'[j] = io[j]
  BY PushStarted DEF TypeInv, IoInv
<1>2. ReadersAreMapped'
  BY DEF TypeInv, IoInv, ReadersAreMapped
<1>3. CallbackNamed(k)'
  BY <1>1 DEF CallbackNamed, Connecting
<1>4. \A j \in IoTask : j # k => CallbackNamed(j)'
  <2>1. \A j \in IoTask : io[j].conn \in Conn /\ CallbackNamed(j)
    BY DEF TypeInv, IoInv, IoType
  <2>2. \A i \in Conn : connectionMap[i] \in Queue => connectionMap'[i] \in Queue
    OBVIOUS
  <2> QED BY <1>1, <2>1, <2>2 DEF CallbackNamed, Connecting
<1> QED BY <1>1, <1>2, <1>3, <1>4 DEF IoInv

LEMMA TypesAssign ==
    ASSUME TypeInv, NEW k \in IoTask, AssignQueueId(k)
    PROVE  TypeInv'
<1> DEFINE i == io[k].conn
           evt == NewEvent("ET_CONNECT", i, io[k].client, 0)
<1>1. /\ nextQueue' = (io[k].queue + 1) % Concurrency
      /\ connectionMap' = [connectionMap EXCEPT ![i] = io[k].queue]
      /\ StartPush(k, evt, io[k].queue)
      /\ UNCHANGED <<startVars, connVars, eventQueue, worker, serverVars, stopVars, sent, faults>>
  BY DEF AssignQueueId
<1>2. /\ i \in Conn /\ io[k].queue \in Queue /\ io[k].client \in Client /\ IoTaskOf(i) = k
      /\ conns[i].client = NoClient
  BY DEF AssignQueueId, TypeInv, IoInv, IoType, CallbackNamed, Connecting
<1>3. evt \in Event /\ evt.type = "ET_CONNECT" /\ evt.conn = i /\ evt.from = io[k].client
  BY <1>2, NewEventTyped, ServerBoundAssumption DEF EventType, TypeInv
<1>4. /\ connectionMap' \in [Conn -> Queue \cup {NoClient}] /\ connectionMap'[i] \in Queue
      /\ \A j \in Conn : j # i => connectionMap'[j] = connectionMap[j]
  BY <1>1, <1>2 DEF TypeInv, IoInv
<1>5. nextQueue' \in Queue
  BY <1>1, <1>2, ServerNumbers
<1>6. IoInv'
  BY <1>1, <1>2, <1>3, <1>4, <1>5, CallbackPushes DEF connVars
<1> QED BY <1>1, <1>6, StartKept, ConnKept, QueueKept, ListenerKept, StopKept DEF TypeInv, connVars

LEMMA TypesOnRead ==
    ASSUME TypeInv, NEW k \in IoTask, NEW i \in Conn, OnRead(k, i)
    PROVE  TypeInv'
<1> DEFINE c == conns[i].client
           evt == NewEvent("ET_MSG", i, c, sent[c] + 1)
<1>1. /\ IoTaskOf(i) = k /\ c # NoClient /\ sent[c] < MaxMsgs
      /\ sent' = [sent EXCEPT ![c] = @ + 1]
      /\ StartPush(k, evt, connectionMap[i])
      /\ UNCHANGED <<startVars, connVars, muxVars, eventQueue, worker, serverVars, stopVars, faults>>
  BY DEF OnRead
<1>2. c \in Client /\ connectionMap[i] \in Queue
  BY <1>1 DEF TypeInv, ConnInv, ConnType, ClientOrNone, IoInv, ReadersAreMapped
<1>3. sent[c] + 1 \in 0 .. MaxMsgs /\ sent' \in [Client -> 0 .. MaxMsgs]
  BY <1>1, <1>2, ServerBoundAssumption DEF TypeInv, ListenerInv
<1>4. evt \in Event /\ evt.type = "ET_MSG" /\ evt.conn = i /\ evt.from = c
  BY <1>2, <1>3, NewEventTyped DEF EventType, TypeInv
<1>5. IoInv'
  BY <1>1, <1>2, <1>4, CallbackPushes DEF TypeInv, IoInv, connVars, muxVars
<1>6. ListenerInv'
  BY <1>1, <1>3 DEF TypeInv, ListenerInv, serverVars
<1> QED BY <1>1, <1>5, <1>6, StartKept, ConnKept, QueueKept, StopKept DEF TypeInv, connVars

LEMMA TypesOnDisconnect ==
    ASSUME TypeInv, NEW k \in IoTask, OnDisconnect(k)
    PROVE  TypeInv'
<1> DEFINE i == io[k].conn
           evt == NewEvent("ET_DISCONNECT", i, io[k].client, 0)
<1>1. /\ StartPush(k, evt, connectionMap[i])
      /\ UNCHANGED <<startVars, connVars, muxVars, eventQueue, worker, serverVars, stopVars,
                     sent, faults>>
  BY DEF OnDisconnect
<1>2. i \in Conn /\ io[k].client \in Client /\ IoTaskOf(i) = k /\ connectionMap[i] \in Queue
  BY DEF OnDisconnect, TypeInv, IoInv, IoType, CallbackNamed
<1>3. evt \in Event /\ evt.type = "ET_DISCONNECT" /\ evt.conn = i /\ evt.from = io[k].client
  BY <1>2, NewEventTyped, ServerBoundAssumption DEF EventType, TypeInv
<1>4. IoInv'
  BY <1>1, <1>2, <1>3, CallbackPushes DEF TypeInv, IoInv, connVars, muxVars
<1> QED BY <1>1, <1>4, StartKept, ConnKept, QueueKept, ListenerKept, StopKept DEF TypeInv, connVars

LEMMA DisconnectStarted ==
    ASSUME io \in [IoTask -> IoType], NEW k \in IoTask, NEW i \in Conn, NEW c \in ClientOrNone,
           io' = [io EXCEPT ![k].pc = "disconnect", ![k].conn = i, ![k].client = c]
    PROVE  /\ io' \in [IoTask -> IoType] /\ io'[k].pc = "disconnect" /\ io'[k].conn = i
           /\ io'[k].client = c
           /\ \A j \in IoTask : j # k => io'[j] = io[j]
  BY DEF IoType, IoPc

LEMMA TypesReadError ==
    ASSUME TypeInv, NEW k \in IoTask, NEW i \in Conn, OnReadError(k, i)
    PROVE  TypeInv'
<1>1. /\ IoTaskOf(i) = k /\ conns[i].client # NoClient
      /\ conns' = [conns EXCEPT ![i].used = FALSE, ![i].client = NoClient]
      /\ io' = [io EXCEPT ![k].pc = "disconnect", ![k].conn = i, ![k].client = conns[i].client]
      /\ UNCHANGED <<startVars, nextConnectionId, acceptor, pendingConns, pipe,
                     muxVars, eventQueue, worker, serverVars, stopVars, sent, faults>>
  BY DEF OnReadError
<1>2. conns[i].client \in Client /\ connectionMap[i] \in Queue
  BY <1>1 DEF TypeInv, ConnInv, ConnType, ClientOrNone, IoInv, ReadersAreMapped
<1>3. /\ conns' \in [Conn -> ConnType]
      /\ \A j \in Conn : conns'[j].client \in {conns[j].client, NoClient}
      /\ \A j \in Conn : conns'[j].id = conns[j].id
  BY <1>1 DEF TypeInv, ConnInv, ConnType, ClientOrNone
<1>4. /\ io' \in [IoTask -> IoType] /\ io'[k].pc = "disconnect" /\ io'[k].conn = i
      /\ io'[k].client = conns[i].client
      /\ \A j \in IoTask : j # k => io'[j] = io[j]
  <2>1. conns[i].client \in ClientOrNone /\ io \in [IoTask -> IoType]
    BY <1>2 DEF ClientOrNone, TypeInv, IoInv
  <2> QED BY <1>1, <2>1, DisconnectStarted
<1>5. ConnInv'
  <2>1. PassHasId'
    BY <1>1, <1>3 DEF TypeInv, StartInv, ConnInv, PassHasId
  <2> QED BY <1>1, <1>3, <2>1 DEF TypeInv, ConnInv, PendingCovers
<1>6. IoInv'
  <2>1. ReadersAreMapped'
    BY <1>1, <1>3 DEF TypeInv, IoInv, ReadersAreMapped, muxVars
  <2>2. CallbackNamed(k)'
    BY <1>1, <1>2, <1>4 DEF CallbackNamed, Connecting, muxVars
  <2>3. \A j \in IoTask : j # k => CallbackNamed(j)'
    <3>1. \A j \in IoTask : io[j].conn \in Conn /\ CallbackNamed(j)
      BY DEF TypeInv, IoInv, IoType
    <3> QED BY <1>1, <1>3, <1>4, <3>1 DEF CallbackNamed, Connecting, muxVars
  <2> QED BY <1>1, <1>4, <2>1, <2>2, <2>3 DEF TypeInv, IoInv, muxVars
<1> QED BY <1>1, <1>5, <1>6, StartKept, QueueKept, ListenerKept, StopKept DEF TypeInv

(* An event enters a queue whose worker is not in a handler. *)
LEMMA QueuePushed ==
    ASSUME QueueInv, NEW q \in Queue, NEW evt \in Event, Named(evt), Push(q, evt),
           UNCHANGED worker
    PROVE  QueueInv'
<1>1. worker[q].pc \in {"wait", "exited"} /\ eventQueue' = [eventQueue EXCEPT ![q] = Append(@, evt)]
  BY DEF Push, Unlocked
<1>2. /\ eventQueue[q] \in Seq(Event) /\ eventQueue'[q] = Append(eventQueue[q], evt)
      /\ \A r \in Queue : r # q => eventQueue'[r] = eventQueue[r]
  BY <1>1 DEF QueueInv
<1>3. eventQueue' \in [Queue -> Seq(Event)]
  BY <1>1, <1>2, AppendElements DEF QueueInv
<1>4. \A n \in 1 .. Len(eventQueue'[q]) : Named(eventQueue'[q][n])
  <2>1. /\ Len(eventQueue[q]) \in Nat /\ Len(eventQueue'[q]) = Len(eventQueue[q]) + 1
        /\ \A n \in 1 .. Len(eventQueue[q]) : eventQueue'[q][n] = eventQueue[q][n]
        /\ eventQueue'[q][Len(eventQueue[q]) + 1] = evt
    BY <1>2, AppendElements
  <2>2. \A n \in 1 .. Len(eventQueue[q]) : Named(eventQueue[q][n])
    BY DEF QueueInv
  <2> QED BY <2>1, <2>2
<1>5. \A r \in Queue : worker'[r].pc \in {"create", "delete"} =>
           eventQueue'[r] # <<>> /\ Head(eventQueue'[r]).type \in {"ET_CONNECT", "ET_DISCONNECT"}
  BY <1>1, <1>2 DEF QueueInv, Oldest
<1> QED BY <1>2, <1>3, <1>4, <1>5 DEF QueueInv, Oldest

(* The oldest event of a queue is done. *)
LEMMA QueuePopped ==
    ASSUME QueueInv, NEW q \in Queue, NEW done \in BOOLEAN, eventQueue[q] # <<>>, Pop(q, done)
    PROVE  /\ QueueInv'
           /\ eventQueue[q] \in Seq(Event) /\ eventQueue'[q] = Tail(eventQueue[q])
           /\ \A r \in Queue : r # q => eventQueue'[r] = eventQueue[r]
<1>1. /\ eventQueue' = [eventQueue EXCEPT ![q] = Tail(@)]
      /\ worker' = [worker EXCEPT ![q] = [pc |-> "drain", done |-> done]]
  BY DEF Pop
<1>2. /\ eventQueue[q] \in Seq(Event) /\ eventQueue'[q] = Tail(eventQueue[q])
      /\ \A r \in Queue : r # q => eventQueue'[r] = eventQueue[r]
  BY <1>1 DEF QueueInv
<1>3. eventQueue' \in [Queue -> Seq(Event)]
  BY <1>1, <1>2, TailElements DEF QueueInv
<1>4. \A n \in 1 .. Len(eventQueue'[q]) : Named(eventQueue'[q][n])
  <2>1. /\ Len(eventQueue[q]) \in Nat /\ Len(eventQueue'[q]) = Len(eventQueue[q]) - 1
        /\ \A n \in 1 .. Len(eventQueue[q]) - 1 : eventQueue'[q][n] = eventQueue[q][n + 1]
    BY <1>2, TailElements
  <2>2. \A n \in 1 .. Len(eventQueue[q]) - 1 : Named(eventQueue[q][n + 1])
    BY <2>1 DEF QueueInv
  <2> QED BY <2>1, <2>2
<1>5. /\ worker' \in [Queue -> WorkerType] /\ worker'[q].pc = "drain"
      /\ \A r \in Queue : r # q => worker'[r] = worker[r]
  BY <1>1 DEF QueueInv, WorkerType
<1>6. \A r \in Queue : worker'[r].pc \in {"create", "delete"} =>
           eventQueue'[r] # <<>> /\ Head(eventQueue'[r]).type \in {"ET_CONNECT", "ET_DISCONNECT"}
  BY <1>2, <1>5 DEF QueueInv, Oldest
<1> QED BY <1>2, <1>3, <1>4, <1>5, <1>6 DEF QueueInv, Oldest

(* The callback of pushEvent ends, with or without a reader for the slot. *)
LEMMA CallbackEnds ==
    ASSUME TypeInv, NEW k \in IoTask, io[k].pc = "push", io' = [io EXCEPT ![k] = IdleIo],
           UNCHANGED muxVars, conns' \in [Conn -> ConnType],
           \A i \in Conn : i # io[k].conn => conns'[i] = conns[i]
    PROVE  IoInv'
<1>1. /\ io' \in [IoTask -> IoType] /\ io'[k] = IdleIo
      /\ \A j \in IoTask : j # k => io'[j] = io[j]
  BY ServerRecords DEF TypeInv, IoInv
<1>2. io[k].conn \in Conn /\ IoTaskOf(io[k].conn) = k /\ connectionMap[io[k].conn] \in Queue
  BY DEF TypeInv, IoInv, IoType, CallbackNamed
<1>3. ReadersAreMapped'
  BY <1>2 DEF TypeInv, IoInv, ReadersAreMapped, muxVars
<1>4. CallbackNamed(k)'
  BY <1>1, ServerRecords DEF CallbackNamed, Connecting
<1>5. \A j \in IoTask : j # k => CallbackNamed(j)'
  <2> SUFFICES ASSUME NEW j \in IoTask, j # k PROVE CallbackNamed(j)'
    OBVIOUS
  <2>1. io[j].conn \in Conn /\ CallbackNamed(j) /\ io'[j] = io[j]
    BY <1>1 DEF TypeInv, IoInv, IoType
  <2>2. CASE io[j].conn = io[k].conn
    BY <1>2, <2>1, <2>2 DEF CallbackNamed, Connecting, muxVars
  <2>3. CASE io[j].conn # io[k].conn
    BY <2>1, <2>3 DEF CallbackNamed, Connecting, muxVars
  <2> QED BY <2>2, <2>3
<1> QED BY <1>1, <1>3, <1>4, <1>5 DEF TypeInv, IoInv, muxVars

LEMMA TypesPushEvent ==
    ASSUME TypeInv, NEW k \in IoTask, PushEvent(k)
    PROVE  TypeInv'
<1> DEFINE evt == io[k].evt
<1>1. /\ io[k].pc = "push" /\ Push(io[k].queue, evt)
      /\ conns' = IF evt.type = "ET_CONNECT"
                  THEN [conns EXCEPT ![evt.conn].client = evt.from]
                  ELSE conns
      /\ io' = [io EXCEPT ![k] = IdleIo]
      /\ UNCHANGED <<startVars, nextConnectionId, acceptor, pendingConns, pipe,
                     muxVars, worker, serverVars, stopVars, sent, faults>>
  BY DEF PushEvent
<1>2. /\ io[k].conn \in Conn /\ io[k].queue \in Queue /\ evt \in Event
      /\ evt.conn = io[k].conn /\ evt.from = io[k].client /\ io[k].client \in Client
  BY <1>1 DEF TypeInv, IoInv, IoType, CallbackNamed
<1>3. /\ conns' \in [Conn -> ConnType] /\ \A i \in Conn : i # io[k].conn => conns'[i] = conns[i]
      /\ \A i \in Conn : conns'[i].id = conns[i].id
  BY <1>1, <1>2 DEF TypeInv, ConnInv, ConnType, ClientOrNone
<1>4. ConnInv'
  <2>1. PassHasId'
    BY <1>1, <1>3 DEF TypeInv, StartInv, ConnInv, PassHasId
  <2> QED BY <1>1, <1>3, <2>1 DEF TypeInv, ConnInv, PendingCovers
<1>5. IoInv'
  BY <1>1, <1>3, CallbackEnds
<1>6. QueueInv'
  BY <1>1, <1>2, QueuePushed DEF Named, TypeInv
<1> QED BY <1>1, <1>4, <1>5, <1>6, StartKept, ListenerKept, StopKept DEF TypeInv

LEMMA TypesReadStartFails ==
    ASSUME TypeInv, NEW k \in IoTask, ReadStartFails(k)
    PROVE  TypeInv'
<1> DEFINE evt == io[k].evt
<1>1. /\ io[k].pc = "push" /\ Push(io[k].queue, evt) /\ Fails
      /\ conns' = [conns EXCEPT ![evt.conn].used = FALSE]
      /\ io' = [io EXCEPT ![k] = IdleIo]
      /\ UNCHANGED <<startVars, nextConnectionId, acceptor, pendingConns, pipe,
                     muxVars, worker, serverVars, stopVars, sent>>
  BY DEF ReadStartFails
<1>2. /\ io[k].conn \in Conn /\ io[k].queue \in Queue /\ evt \in Event
      /\ evt.conn = io[k].conn /\ evt.from = io[k].client /\ io[k].client \in Client
  BY <1>1 DEF TypeInv, IoInv, IoType, CallbackNamed
<1>3. /\ conns' \in [Conn -> ConnType] /\ \A i \in Conn : i # io[k].conn => conns'[i] = conns[i]
      /\ \A i \in Conn : conns'[i].id = conns[i].id
  BY <1>1, <1>2 DEF TypeInv, ConnInv, ConnType
<1>4. ConnInv'
  <2>1. PassHasId'
    BY <1>1, <1>3 DEF TypeInv, StartInv, ConnInv, PassHasId
  <2> QED BY <1>1, <1>3, <2>1 DEF TypeInv, ConnInv, PendingCovers
<1>5. IoInv'
  BY <1>1, <1>3, CallbackEnds
<1>6. QueueInv'
  BY <1>1, <1>2, QueuePushed DEF Named, TypeInv
<1> QED BY <1>1, <1>4, <1>5, <1>6, StartKept, ListenerKept, StopFails DEF TypeInv

LEMMA TypesAsyncWrite ==
    ASSUME TypeInv, NEW k \in IoTask, NEW write \in asyncWrites, AsyncWrite(k, write)
    PROVE  TypeInv'
<1>1. /\ asyncWrites' = asyncWrites \ {write}
      /\ UNCHANGED <<startVars, connVars, io, muxVars, eventQueue, worker, sessions,
                     seen, stopVars, sent, faults>>
  BY DEF AsyncWrite
<1>2. ListenerInv'
  BY <1>1 DEF TypeInv, ListenerInv
<1> QED BY <1>1, <1>2, StartKept, ConnKept, IoKept, QueueKept, StopKept DEF TypeInv, connVars

-------------------------------------------------------------------------------
(* The workers. *)

LEMMA TypesDrain ==
    ASSUME TypeInv, NEW q \in Queue, StartDrain(q) \/ EndDrain(q)
    PROVE  TypeInv'
<1>1. UNCHANGED <<startVars, connVars, io, muxVars, eventQueue, serverVars, stopVars, sent, faults>>
  BY DEF StartDrain, EndDrain
<1>2. /\ worker' \in [Queue -> WorkerType]
      /\ worker'[q].pc \in {"drain", "exited", "wait"}
      /\ \A r \in Queue : r # q => worker'[r] = worker[r]
  BY DEF StartDrain, EndDrain, TypeInv, QueueInv, WorkerType
<1>3. QueueInv'
  BY <1>1, <1>2 DEF TypeInv, QueueInv, Oldest
<1> QED BY <1>1, <1>3, StartKept, ConnKept, IoKept, ListenerKept, StopKept DEF TypeInv, connVars

(* The check of a handler, which may begin to change the session. *)
LEMMA TypesCheck ==
    ASSUME TypeInv, NEW q \in Queue, OnConnectCheck(q) \/ OnDisconnectCheck(q)
    PROVE  TypeInv'
<1>1. /\ UNCHANGED <<startVars, connVars, io, muxVars, serverVars, stopVars, sent, faults>>
      /\ eventQueue[q] # <<>> /\ Oldest(q).type \in {"ET_CONNECT", "ET_DISCONNECT"}
  BY DEF OnConnectCheck, OnDisconnectCheck, Handles
<1>2. ASSUME NEW pc \in {"create", "delete"}, worker' = [worker EXCEPT ![q].pc = pc],
             UNCHANGED eventQueue
      PROVE  QueueInv'
  <2>1. /\ worker' \in [Queue -> WorkerType]
        /\ \A r \in Queue : r # q => worker'[r] = worker[r]
    BY <1>2 DEF TypeInv, QueueInv, WorkerType
  <2> QED BY <1>1, <1>2, <2>1 DEF TypeInv, QueueInv, Oldest
<1>3. CASE Pop(q, FALSE)
  BY <1>1, <1>3, QueuePopped, StartKept, ConnKept, IoKept, ListenerKept, StopKept
  DEF TypeInv, connVars
<1>4. CASE ~Pop(q, FALSE)
  <2>1. \E pc \in {"create", "delete"} : worker' = [worker EXCEPT ![q].pc = pc]
    BY <1>4 DEF OnConnectCheck, OnDisconnectCheck
  <2>2. UNCHANGED eventQueue
    BY <1>4 DEF OnConnectCheck, OnDisconnectCheck
  <2>3. QueueInv'
    BY <1>2, <2>1, <2>2
  <2> QED BY <1>1, <2>3, StartKept, ConnKept, IoKept, ListenerKept, StopKept
          DEF TypeInv, connVars
<1> QED BY <1>3, <1>4

LEMMA TypesSession ==
    ASSUME TypeInv, NEW q \in Queue,
           CreateSession(q) \/ CreateSessionFails(q) \/ DeleteSession(q)
    PROVE  TypeInv'
<1>1. /\ worker[q].pc \in {"create", "delete"} /\ Pop(q, FALSE)
      /\ UNCHANGED <<startVars, connVars, io, muxVars, asyncWrites, seen, stopVars, sent>>
  BY DEF CreateSession, CreateSessionFails, DeleteSession, serverVars
<1>2. QueueInv'
  BY <1>1, QueuePopped DEF TypeInv, QueueInv
<1>3. Oldest(q).id \in ClientOrNone
  <2>1. eventQueue[q] \in Seq(Event) /\ eventQueue[q] # <<>>
    BY <1>1 DEF TypeInv, QueueInv
  <2>2. Head(eventQueue[q]) \in Event
    BY <2>1, TailElements
  <2> QED BY <2>2 DEF Oldest, Event
<1>4. sessions' \in [Conn -> ClientOrNone]
  BY <1>3 DEF CreateSession, CreateSessionFails, DeleteSession, serverVars, TypeInv,
              ListenerInv, ClientOrNone
<1>5. ListenerInv'
  BY <1>1, <1>4 DEF TypeInv, ListenerInv
<1>6. StopTypes'
  BY StopKept, StopFails DEF CreateSession, CreateSessionFails, DeleteSession, TypeInv
<1> QED BY <1>1, <1>2, <1>5, <1>6, StartKept, ConnKept, IoKept DEF TypeInv, connVars

LEMMA TypesOnMsg ==
    ASSUME TypeInv, NEW q \in Queue, OnMsg(q)
    PROVE  TypeInv'
<1> DEFINE evt == Oldest(q)
<1>1. /\ eventQueue[q] # <<>> /\ evt.type = "ET_MSG" /\ Pop(q, FALSE)
      /\ seen' = [seen EXCEPT ![evt.from] = evt.seq]
      /\ asyncWrites' \in {asyncWrites, asyncWrites \cup
                              {[conn |-> evt.conn, of |-> evt.from, seq |-> evt.seq]}}
      /\ UNCHANGED <<startVars, connVars, io, muxVars, sessions, stopVars, sent, faults>>
  BY DEF OnMsg, Handles
<1>2. QueueInv'
  BY <1>1, QueuePopped DEF TypeInv
<1>3. evt \in Event /\ evt.conn \in Conn /\ evt.from \in Client
  <2>1. eventQueue[q] \in Seq(Event) /\ \A n \in 1 .. Len(eventQueue[q]) : Named(eventQueue[q][n])
    BY DEF TypeInv, QueueInv
  <2>2. evt \in Event /\ evt = eventQueue[q][1] /\ Len(eventQueue[q]) \in Nat \ {0}
    BY <1>1, <2>1, TailElements DEF Oldest
  <2>3. Named(evt)
    BY <2>1, <2>2
  <2> QED BY <1>1, <2>2, <2>3 DEF Named
<1>4. evt.seq \in 0 .. MaxMsgs
  BY <1>3 DEF Event
<1>5. [conn |-> evt.conn, of |-> evt.from, seq |-> evt.seq]
          \in [conn : Conn, of : Client, seq : 0 .. MaxMsgs]
  BY <1>3, <1>4
<1>6. ListenerInv'
  BY <1>1, <1>3, <1>4, <1>5 DEF TypeInv, ListenerInv
<1> QED BY <1>1, <1>2, <1>6, StartKept, ConnKept, IoKept, StopKept DEF TypeInv, connVars

LEMMA TypesOnStop ==
    ASSUME TypeInv, NEW q \in Queue, OnStop(q)
    PROVE  TypeInv'
<1>1. /\ eventQueue[q] # <<>> /\ Pop(q, TRUE)
      /\ UNCHANGED <<startVars, connVars, io, muxVars, serverVars, stopVars, sent, faults>>
  BY DEF OnStop, Handles
<1> QED BY <1>1, QueuePopped, StartKept, ConnKept, IoKept, ListenerKept, StopKept
        DEF TypeInv, connVars

-------------------------------------------------------------------------------
(* The stop. *)

LEMMA TypesStop ==
    ASSUME TypeInv, StopServer \/ StopAcceptor
    PROVE  TypeInv'
<1>1. CASE StopServer
  <2>1. StopTypes'
    BY <1>1 DEF StopServer, TypeInv, StopTypes
  <2> QED BY <1>1, <2>1, StartKept, ConnKept, IoKept, QueueKept, ListenerKept
          DEF StopServer, TypeInv, connVars
<1>2. CASE StopAcceptor
  <2>1. /\ acceptor' = [acceptor EXCEPT !.pc = "stopped"] /\ UNCHANGED startVars
        /\ UNCHANGED <<conns, nextConnectionId, pendingConns, pipe>>
    BY <1>2 DEF StopAcceptor
  <2>2. StartInv'
    BY <2>1 DEF TypeInv, StartInv, startVars, PipesInTurn, PipesArePaired
  <2>3. ConnInv'
    BY <2>1 DEF TypeInv, StartInv, ConnInv, PendingCovers, PassHasId
  <2> QED BY <1>2, <2>2, <2>3, IoKept, QueueKept, ListenerKept, StopKept
          DEF StopAcceptor, TypeInv
<1> QED BY <1>1, <1>2

LEMMA TypesStopIoTask ==
    ASSUME TypeInv, NEW k \in IoTask, StopIoTask(k)
    PROVE  TypeInv'
<1>1. /\ io' = [io EXCEPT ![k].pc = "stopped"]
      /\ runState' = IF k = IoConcurrency - 1 THEN "RS_IDLE" ELSE runState
      /\ UNCHANGED <<startVars, connVars, muxVars, eventQueue, worker, serverVars,
                     stopsSent, sent, faults>>
  BY DEF StopIoTask
<1>2. /\ io' \in [IoTask -> IoType] /\ io'[k].pc = "stopped"
      /\ \A j \in IoTask : j # k => io'[j] = io[j]
  BY <1>1 DEF TypeInv, IoInv, IoType, IoPc
<1>3. IoInv'
  BY <1>1, <1>2 DEF TypeInv, IoInv, ReadersAreMapped, CallbackNamed, Connecting, muxVars, connVars
<1>4. StopTypes'
  BY <1>1 DEF TypeInv, StopTypes
<1> QED BY <1>1, <1>3, <1>4, StartKept, ConnKept, QueueKept, ListenerKept DEF TypeInv, connVars

LEMMA TypesPushStop ==
    ASSUME TypeInv, PushStop
    PROVE  TypeInv'
<1>1. /\ stopsSent < Concurrency /\ Push(stopsSent, StopEvent(stopsSent))
      /\ stopsSent' = stopsSent + 1
      /\ UNCHANGED <<startVars, connVars, io, muxVars, worker, serverVars, runState, sent, faults>>
  BY DEF PushStop
<1>2. stopsSent \in Queue /\ stopsSent' \in 0 .. Concurrency
  BY <1>1, SizeAssumption DEF TypeInv, StopTypes, Queue
<1>3. QueueInv'
  BY <1>1, <1>2, ServerRecords, QueuePushed DEF TypeInv, Named, StopEvent
<1>4. StopTypes'
  BY <1>1, <1>2 DEF TypeInv, StopTypes
<1> QED BY <1>1, <1>3, <1>4, StartKept, ConnKept, IoKept, ListenerKept DEF TypeInv, connVars

LEMMA TypesKept ==
    ASSUME TypeInv, UNCHANGED vars
    PROVE  TypeInv'
  BY StartKept, ConnKept, IoKept, QueueKept, ListenerKept, StopKept
  DEF vars, startVars, connVars, muxVars, serverVars, stopVars, TypeInv

-------------------------------------------------------------------------------
LEMMA NextTypes == TypeInv /\ [Next]_vars => TypeInv'
<1> SUFFICES ASSUME TypeInv, [Next]_vars PROVE TypeInv'
  OBVIOUS
<1>1. CASE StartStep
  BY <1>1, TypesAcceptPipe, TypesPipeFails, TypesPipeConnect DEF StartStep
<1>2. CASE AcceptStep
  BY <1>2, TypesGrab, TypesAcceptFails, TypesPass, TypesPassFails DEF AcceptStep
<1>3. ASSUME NEW k \in IoTask,
             \/ HandlePipeRead(k) \/ PipeReadFails(k) \/ ReadStartFails(k) \/ IoFinish(k)
             \/ \E i \in Conn : OnRead(k, i) \/ OnReadError(k, i)
             \/ \E write \in asyncWrites : AsyncWrite(k, write)
      PROVE  TypeInv'
  BY <1>3, TypesPipeRead, TypesPipeReadFails, TypesReadStartFails, TypesAssign,
     TypesOnDisconnect, TypesPushEvent, TypesOnRead, TypesReadError, TypesAsyncWrite
  DEF IoFinish
<1>4. ASSUME NEW q \in Queue, WorkerStep(q)
      PROVE  TypeInv'
  BY <1>4, TypesDrain, TypesCheck, TypesSession, TypesOnMsg, TypesOnStop DEF WorkerStep
<1>5. CASE StopServer
  BY <1>5, TypesStop
<1>6. CASE StopStep
  BY <1>6, TypesStop, TypesStopIoTask, TypesPushStop DEF StopStep
<1>7. CASE UNCHANGED vars
  BY <1>7, TypesKept
<1> QED BY <1>1, <1>2, <1>3, <1>4, <1>5, <1>6, <1>7 DEF Next

LEMMA TypesAlways == Spec => []TypeInv
<1>1. Init => TypeInv
  BY InitTypes
<1>2. TypeInv /\ [Next]_vars => TypeInv'
  BY NextTypes
<1> QED BY <1>1, <1>2, PTL DEF Spec

(***************************************************************************)
(* Every step of the server keeps the types, whatever fails: an I/O task   *)
(* that takes a socket from its pipe always finds a pending connection,    *)
(* and a message is never pushed for a slot that has no queue.             *)
(***************************************************************************)
THEOREM TypeCorrect == Spec => []TypeOK
<1>1. TypeInv => TypeOK
  BY TypesFollow
<1> QED BY <1>1, TypesAlways, PTL

(***************************************************************************)
(* When the server accepts connections the pipe of every I/O task leads to *)
(* that task, although handleNewPipeConnection takes the first task        *)
(* without a pipe: the pipes connect in the order of the tasks, and when   *)
(* one of them is lost the server never listens.                           *)
(***************************************************************************)
THEOREM PipesAlwaysPaired == Spec => []PipesArePaired
<1>1. TypeInv => PipesArePaired
  BY DEF TypeInv, StartInv
<1> QED BY <1>1, TypesAlways, PTL

-------------------------------------------------------------------------------
(* Where a client is: on its way to an I/O task, between onConnect and the *)
(* first read, or at a slot that reads from it.                            *)

InPipe(c) == \E k \in IoTask : \E n \in 1 .. Len(pipe[k]) : pipe[k][n] = c
Passing(c) == acceptor.pc = "pass" /\ conns[acceptor.conn].id = c
Waiting(c) == c >= nextConnectionId \/ Passing(c) \/ InPipe(c)
Opening(k, c) == Connecting(k) /\ io[k].client = c
Open(i, c) == conns[i].client = c

(* A client is on one pipe, once. *)
PipesDiffer ==
    \A j, k \in IoTask : \A m \in 1 .. Len(pipe[j]), n \in 1 .. Len(pipe[k]) :
        pipe[j][m] = pipe[k][n] => j = k /\ m = n

(* The one that is passed on is the newest. *)
PassingIsNewest ==
    acceptor.pc = "pass" => /\ conns[acceptor.conn].id = nextConnectionId - 1
                            /\ nextConnectionId > 0
                            /\ ~InPipe(nextConnectionId - 1)

(* A client is in one place, and sends nothing before it is open. *)
PlaceInv ==
    /\ PipesDiffer
    /\ \A c \in Client : InPipe(c) => c < nextConnectionId
    /\ PassingIsNewest
    /\ \A c \in Client : Waiting(c) => sent[c] = 0
    /\ \A c \in Client, k \in IoTask : Waiting(c) => ~Opening(k, c)
    /\ \A c \in Client, i \in Conn : Waiting(c) => ~Open(i, c)
    /\ \A c \in Client, k \in IoTask : Opening(k, c) => sent[c] = 0
    /\ \A c \in Client, j, k \in IoTask : Opening(j, c) /\ Opening(k, c) => j = k
    /\ \A c \in Client, i \in Conn, k \in IoTask : Opening(k, c) => ~Open(i, c)
    /\ \A c \in Client, i, j \in Conn : Open(i, c) /\ Open(j, c) => i = j

-------------------------------------------------------------------------------
(* The messages of a client in the queues. *)

IsMsg(q, n) == n \in 1 .. Len(eventQueue[q]) /\ eventQueue[q][n].type = "ET_MSG"
Pushing(k) == io[k].pc = "push" /\ io[k].evt.type = "ET_MSG"

(* They are read and not dispatched, *)
QueuedAreUnseen ==
    \A q \in Queue : \A n \in Nat : IsMsg(q, n) =>
        LET e == eventQueue[q][n] IN seen[e.from] < e.seq /\ e.seq <= sent[e.from]

(* in one queue, in order, *)
QueuedInOrder ==
    \A q, r \in Queue : \A m, n \in Nat :
        /\ IsMsg(q, m) /\ IsMsg(r, n)
        /\ eventQueue[q][m].from = eventQueue[r][n].from
        => q = r /\ (m < n => eventQueue[q][m].seq < eventQueue[r][n].seq)

(* every one that is not being pushed; *)
NoneIsLost ==
    \A c \in Client :
        /\ seen[c] <= sent[c]
        /\ \A s \in seen[c] + 1 .. sent[c] :
              \/ \E q \in Queue : \E n \in Nat :
                    IsMsg(q, n) /\ eventQueue[q][n].from = c /\ eventQueue[q][n].seq = s
              \/ \E k \in IoTask : Pushing(k) /\ io[k].client = c /\ s = sent[c]

(* the one that is being pushed is the last and goes to the slot's queue, *)
PushedIsLast ==
    \A k \in IoTask : Pushing(k) =>
        LET c == io[k].client IN
        /\ io[k].evt.seq = sent[c] /\ seen[c] < sent[c]
        /\ conns[io[k].conn].client = c /\ io[k].queue = connectionMap[io[k].conn]
        /\ \A q \in Queue : \A n \in Nat :
              IsMsg(q, n) /\ eventQueue[q][n].from = c => eventQueue[q][n].seq < sent[c]

(* where the others of an open connection are, with its slot. *)
QueuedAtSlot ==
    \A q \in Queue, i \in Conn : \A n \in Nat :
        IsMsg(q, n) /\ Open(i, eventQueue[q][n].from) =>
            q = connectionMap[i] /\ eventQueue[q][n].conn = i

OrderInv == QueuedAreUnseen /\ QueuedInOrder /\ NoneIsLost /\ PushedIsLast /\ QueuedAtSlot

(* A reply answers a message that was dispatched, and names its slot. *)
ReplyInv ==
    \A write \in asyncWrites :
        /\ write.seq > 0 /\ write.seq <= seen[write.of]
        /\ \A i \in Conn : Open(i, write.of) => write.conn = i

-------------------------------------------------------------------------------
(* ET_STOP is the last event of its queue: no I/O task pushes any more. *)
StopInv ==
    /\ stopsSent > 0 => runState = "RS_IDLE"
    /\ runState = "RS_IDLE" => \A k \in IoTask : io[k].pc = "stopped"
    /\ \A q \in Queue : \A n \in 1 .. Len(eventQueue[q]) :
          eventQueue[q][n].type = "ET_STOP" => q < stopsSent /\ n = Len(eventQueue[q])
    /\ \A q \in Queue : worker[q].done \/ worker[q].pc = "exited" =>
          q < stopsSent /\ eventQueue[q] = <<>>

-------------------------------------------------------------------------------
(* Without a failure the list of pending connections and the pipe of a     *)
(* task hold the same connections, and a slot that waits for its socket is *)
(* in use, once, and read from by nobody.                                  *)
PendingInStep ==
    \A k \in IoTask :
        /\ Len(pendingConns[k]) = Len(pipe[k])
        /\ \A n \in 1 .. Len(pipe[k]) : conns[pendingConns[k][n]].id = pipe[k][n]
        /\ \A n \in 1 .. Len(pipe[k]) :
              LET i == pendingConns[k][n] IN conns[i].used /\ conns[i].client = NoClient
        /\ \A m, n \in 1 .. Len(pipe[k]) : pendingConns[k][m] = pendingConns[k][n] => m = n

SlotsApart ==
    /\ \A j, k \in IoTask : Connecting(j) =>
          \A n \in 1 .. Len(pipe[k]) : pendingConns[k][n] # io[j].conn
    /\ acceptor.pc = "pass" =>
          /\ \A k \in IoTask : \A n \in 1 .. Len(pipe[k]) : pendingConns[k][n] # acceptor.conn
          /\ \A j \in IoTask : Connecting(j) => acceptor.conn # io[j].conn
          /\ conns[acceptor.conn].used /\ conns[acceptor.conn].client = NoClient

SlotsInUse ==
    /\ \A k \in IoTask : Connecting(k) => conns[io[k].conn].used
    /\ \A i \in Conn : conns[i].client # NoClient => conns[i].used

PendingInv == faults = 0 => PendingInStep /\ SlotsApart /\ SlotsInUse

-------------------------------------------------------------------------------
(* What a step of an I/O task does to the callbacks and the slots. *)

LEMMA PipeReadEffect ==
    ASSUME TypeInv, NEW k \in IoTask, HandlePipeRead(k)
    PROVE  /\ pipe[k] # <<>> /\ pendingConns[k] # <<>>
           /\ Head(pendingConns[k]) \in Conn /\ Head(pipe[k]) \in Client
           /\ IoTaskOf(Head(pendingConns[k])) = k
           /\ io[k].pc = "idle" /\ io'[k].pc = "assign" /\ io'[k].client = Head(pipe[k])
           /\ io'[k].conn = Head(pendingConns[k])
           /\ \A j \in IoTask : j # k => io'[j] = io[j]
           /\ conns'[Head(pendingConns[k])].client = NoClient
           /\ \A i \in Conn : /\ conns'[i].id = conns[i].id /\ conns'[i].used = conns[i].used
                              /\ conns'[i].client \in {conns[i].client, NoClient}
                              /\ i # Head(pendingConns[k]) => conns'[i] = conns[i]
<1> DEFINE i == Head(pendingConns[k])
           new == [IdleIo EXCEPT !.pc = "assign", !.conn = i, !.client = Head(pipe[k]),
                                 !.queue = nextQueue]
<1>1. /\ pipe[k] # <<>> /\ io[k].pc = "idle" /\ io' = [io EXCEPT ![k] = new]
      /\ conns' = [conns EXCEPT ![i].client = NoClient]
      /\ pendingConns' = [pendingConns EXCEPT ![k] = Tail(@)]
      /\ pipe' = [pipe EXCEPT ![k] = Tail(@)]
  BY DEF HandlePipeRead
<1>2. i \in Conn /\ Head(pipe[k]) \in Client /\ pendingConns[k] # <<>> /\ IoTaskOf(i) = k
  BY <1>1, PendingTaken
<1>3. /\ conns'[i].client = NoClient
      /\ \A j \in Conn : /\ conns'[j].id = conns[j].id /\ conns'[j].used = conns[j].used
                         /\ conns'[j].client \in {conns[j].client, NoClient}
                         /\ j # i => conns'[j] = conns[j]
  BY <1>1, <1>2 DEF TypeInv, ConnInv, ConnType
<1>4. new.pc = "assign" /\ new.client = Head(pipe[k]) /\ new.conn = i
  BY ServerRecords DEF IoType
<1>5. io'[k] = new /\ \A j \in IoTask : j # k => io'[j] = io[j]
  BY <1>1 DEF TypeInv, IoInv
<1> QED BY <1>1, <1>2, <1>3, <1>4, <1>5

LEMMA PipeReadFailsEffect ==
    ASSUME TypeInv, NEW k \in IoTask, PipeReadFails(k)
    PROVE  /\ pipe[k] # <<>>
           /\ \A i \in Conn : /\ conns'[i].id = conns[i].id
                              /\ conns'[i].client \in {conns[i].client, NoClient}
                              /\ IoTaskOf(i) # k => conns'[i] = conns[i]
<1> DEFINE i == Head(pendingConns[k])
<1>1. /\ pipe[k] # <<>>
      /\ pendingConns' = [pendingConns EXCEPT ![k] = Tail(@)]
      /\ pipe' = [pipe EXCEPT ![k] = Tail(@)]
  BY DEF PipeReadFails
<1>2. PICK client \in {conns[i].client, NoClient} :
          conns' = [conns EXCEPT ![i].used = FALSE, ![i].client = client]
  BY DEF PipeReadFails
<1>3. i \in Conn /\ IoTaskOf(i) = k
  BY <1>1, PendingTaken
<1> QED BY <1>1, <1>2, <1>3 DEF TypeInv, ConnInv, ConnType

LEMMA AssignEffect ==
    ASSUME TypeInv, NEW k \in IoTask, AssignQueueId(k)
    PROVE  /\ Connecting(k) /\ io'[k].pc = "push" /\ io'[k].evt.type = "ET_CONNECT"
           /\ io'[k].client = io[k].client /\ io'[k].conn = io[k].conn
           /\ io[k].conn \in Conn /\ IoTaskOf(io[k].conn) = k
           /\ conns[io[k].conn].client = NoClient
           /\ \A j \in IoTask : j # k => io'[j] = io[j]
           /\ \A i \in Conn : i # io[k].conn => connectionMap'[i] = connectionMap[i]
<1> DEFINE i == io[k].conn
           evt == NewEvent("ET_CONNECT", i, io[k].client, 0)
<1>1. /\ io[k].pc = "assign" /\ StartPush(k, evt, io[k].queue)
      /\ connectionMap' = [connectionMap EXCEPT ![i] = io[k].queue]
  BY DEF AssignQueueId
<1>2. /\ i \in Conn /\ io[k].queue \in Queue /\ io[k].client \in Client /\ IoTaskOf(i) = k
      /\ conns[i].client = NoClient
  BY <1>1 DEF TypeInv, IoInv, IoType, CallbackNamed, Connecting
<1>3. evt \in Event /\ evt.type = "ET_CONNECT" /\ evt.conn = i /\ evt.from = io[k].client
  BY <1>2, NewEventTyped, ServerBoundAssumption DEF EventType, TypeInv
<1>4. /\ io'[k].pc = "push" /\ io'[k].conn = i /\ io'[k].client = io[k].client
      /\ io'[k].evt = evt /\ \A j \in IoTask : j # k => io'[j] = io[j]
  BY <1>1, <1>2, <1>3, PushStarted DEF TypeInv, IoInv
<1>5. \A j \in Conn : j # i => connectionMap'[j] = connectionMap[j]
  BY <1>1 DEF TypeInv, IoInv
<1> QED BY <1>1, <1>2, <1>3, <1>4, <1>5 DEF Connecting

LEMMA ReadEffect ==
    ASSUME TypeInv, NEW k \in IoTask, NEW i \in Conn, OnRead(k, i)
    PROVE  /\ IoTaskOf(i) = k /\ conns[i].client \in Client /\ io[k].pc = "idle"
           /\ sent[conns[i].client] \in Nat
           /\ sent' = [sent EXCEPT ![conns[i].client] = @ + 1]
           /\ io'[k].pc = "push" /\ io'[k].conn = i /\ io'[k].client = conns[i].client
           /\ io'[k].queue = connectionMap[i]
           /\ io'[k].evt.type = "ET_MSG" /\ io'[k].evt.seq = sent[conns[i].client] + 1
           /\ \A j \in IoTask : j # k => io'[j] = io[j]
<1> DEFINE c == conns[i].client
           evt == NewEvent("ET_MSG", i, c, sent[c] + 1)
<1>1. /\ IoTaskOf(i) = k /\ c # NoClient /\ sent[c] < MaxMsgs /\ io[k].pc = "idle"
      /\ sent' = [sent EXCEPT ![c] = @ + 1]
      /\ StartPush(k, evt, connectionMap[i])
  BY DEF OnRead
<1>2. c \in Client /\ connectionMap[i] \in Queue
  BY <1>1 DEF TypeInv, ConnInv, ConnType, ClientOrNone, IoInv, ReadersAreMapped
<1>3. sent[c] + 1 \in 0 .. MaxMsgs /\ sent[c] \in Nat
  BY <1>1, <1>2, ServerBoundAssumption DEF TypeInv, ListenerInv
<1>4. evt \in Event /\ evt.type = "ET_MSG" /\ evt.conn = i /\ evt.from = c /\ evt.seq = sent[c] + 1
  BY <1>2, <1>3, NewEventTyped DEF EventType, TypeInv
<1>5. /\ io'[k].pc = "push" /\ io'[k].conn = i /\ io'[k].client = c
      /\ io'[k].evt = evt /\ io'[k].queue = connectionMap[i]
      /\ \A j \in IoTask : j # k => io'[j] = io[j]
  BY <1>1, <1>2, <1>4, PushStarted DEF TypeInv, IoInv
<1> QED BY <1>1, <1>2, <1>3, <1>4, <1>5

LEMMA DisconnectEffect ==
    ASSUME TypeInv, NEW k \in IoTask, OnDisconnect(k)
    PROVE  /\ io[k].pc = "disconnect" /\ io'[k].pc = "push" /\ io'[k].evt.type = "ET_DISCONNECT"
           /\ \A j \in IoTask : j # k => io'[j] = io[j]
<1> DEFINE i == io[k].conn
           evt == NewEvent("ET_DISCONNECT", i, io[k].client, 0)
<1>1. io[k].pc = "disconnect" /\ StartPush(k, evt, connectionMap[i])
  BY DEF OnDisconnect
<1>2. i \in Conn /\ io[k].client \in Client /\ connectionMap[i] \in Queue
  BY <1>1 DEF TypeInv, IoInv, IoType, CallbackNamed
<1>3. evt \in Event /\ evt.type = "ET_DISCONNECT" /\ evt.conn = i
  BY <1>2, NewEventTyped, ServerBoundAssumption DEF EventType, TypeInv
<1>4. /\ io'[k].pc = "push" /\ io'[k].evt = evt
      /\ \A j \in IoTask : j # k => io'[j] = io[j]
  BY <1>1, <1>2, <1>3, PushStarted DEF TypeInv, IoInv
<1> QED BY <1>1, <1>3, <1>4

LEMMA ReadErrorEffect ==
    ASSUME TypeInv, NEW k \in IoTask, NEW i \in Conn, OnReadError(k, i)
    PROVE  /\ IoTaskOf(i) = k /\ io[k].pc = "idle" /\ io'[k].pc = "disconnect"
           /\ \A j \in IoTask : j # k => io'[j] = io[j]
           /\ conns[i].client # NoClient
           /\ \A j \in Conn : /\ conns'[j].id = conns[j].id
                              /\ conns'[j].client \in {conns[j].client, NoClient}
                              /\ j # i => conns'[j] = conns[j]
           /\ conns'[i].client = NoClient
<1>1. /\ IoTaskOf(i) = k /\ io[k].pc = "idle" /\ conns[i].client # NoClient
      /\ conns' = [conns EXCEPT ![i].used = FALSE, ![i].client = NoClient]
      /\ io' = [io EXCEPT ![k].pc = "disconnect", ![k].conn = i, ![k].client = conns[i].client]
  BY DEF OnReadError
<1>2. conns[i].client \in ClientOrNone /\ io \in [IoTask -> IoType]
  BY DEF TypeInv, ConnInv, ConnType, IoInv
<1>3. io'[k].pc = "disconnect" /\ \A j \in IoTask : j # k => io'[j] = io[j]
  BY <1>1, <1>2, DisconnectStarted
<1>4. /\ \A j \in Conn : /\ conns'[j].id = conns[j].id
                         /\ conns'[j].client \in {conns[j].client, NoClient}
                         /\ j # i => conns'[j] = conns[j]
      /\ conns'[i].client = NoClient
  BY <1>1 DEF TypeInv, ConnInv, ConnType
<1> QED BY <1>1, <1>3, <1>4

LEMMA PushEffect ==
    ASSUME TypeInv, NEW k \in IoTask, PushEvent(k) \/ ReadStartFails(k)
    PROVE  /\ io[k].pc = "push" /\ io'[k].pc = "idle"
           /\ io[k].conn \in Conn /\ IoTaskOf(io[k].conn) = k /\ io[k].client \in Client
           /\ io[k].queue \in Queue /\ io[k].evt \in Event
           /\ io[k].evt.conn = io[k].conn /\ io[k].evt.from = io[k].client
           /\ Push(io[k].queue, io[k].evt)
           /\ \A j \in IoTask : j # k => io'[j] = io[j]
           /\ \A i \in Conn : conns'[i].id = conns[i].id
           /\ \A i \in Conn : i # io[k].conn => conns'[i] = conns[i]
           /\ conns'[io[k].conn].client =
                 IF PushEvent(k) /\ io[k].evt.type = "ET_CONNECT"
                 THEN io[k].client ELSE conns[io[k].conn].client
           /\ PushEvent(k) => \A i \in Conn : conns'[i].used = conns[i].used
<1> DEFINE evt == io[k].evt
<1>1. /\ io[k].pc = "push" /\ Push(io[k].queue, evt) /\ io' = [io EXCEPT ![k] = IdleIo]
  BY DEF PushEvent, ReadStartFails
<1>2. /\ io[k].conn \in Conn /\ io[k].queue \in Queue /\ evt \in Event
      /\ evt.conn = io[k].conn /\ evt.from = io[k].client /\ io[k].client \in Client
      /\ IoTaskOf(io[k].conn) = k
  BY <1>1 DEF TypeInv, IoInv, IoType, CallbackNamed
<1>3. io'[k].pc = "idle" /\ \A j \in IoTask : j # k => io'[j] = io[j]
  BY <1>1, ServerRecords DEF TypeInv, IoInv
<1>4. CASE PushEvent(k)
  <2>1. conns' = IF evt.type = "ET_CONNECT"
                 THEN [conns EXCEPT ![io[k].conn].client = io[k].client]
                 ELSE conns
    BY <1>2, <1>4 DEF PushEvent
  <2>2. /\ \A i \in Conn : conns'[i].id = conns[i].id /\ conns'[i].used = conns[i].used
        /\ \A i \in Conn : i # io[k].conn => conns'[i] = conns[i]
        /\ conns'[io[k].conn].client =
              IF evt.type = "ET_CONNECT" THEN io[k].client ELSE conns[io[k].conn].client
    BY <1>2, <2>1 DEF TypeInv, ConnInv, ConnType
  <2> QED BY <1>1, <1>2, <1>3, <1>4, <2>2
<1>5. CASE ~PushEvent(k)
  <2>1. conns' = [conns EXCEPT ![io[k].conn].used = FALSE]
    BY <1>2, <1>5 DEF ReadStartFails
  <2>2. /\ \A i \in Conn : conns'[i].id = conns[i].id
        /\ \A i \in Conn : i # io[k].conn => conns'[i] = conns[i]
        /\ conns'[io[k].conn].client = conns[io[k].conn].client
    BY <1>2, <2>1 DEF TypeInv, ConnInv, ConnType
  <2> QED BY <1>1, <1>2, <1>3, <1>5, <2>2
<1> QED BY <1>4, <1>5

-------------------------------------------------------------------------------
(* The places of the clients. *)

LEMMA InitPlaces == Init => PlaceInv
<1> SUFFICES ASSUME Init PROVE PlaceInv
  OBVIOUS
<1>1. /\ \A k \in IoTask : Len(pipe[k]) = 0 /\ ~Connecting(k)
      /\ \A c \in Client : sent[c] = 0
      /\ \A i \in Conn : conns[i].client = NoClient
      /\ acceptor.pc = "start"
  BY ServerRecords DEF Init, Connecting
<1>2. NoClient \notin Client
  BY ServerNumbers
<1> QED BY <1>1, <1>2 DEF PlaceInv, PipesDiffer, InPipe, PassingIsNewest, Opening, Open

(* No client comes to a pipe, into a callback or to a slot. *)
LEMMA PlacesShrink ==
    ASSUME PlaceInv, nextConnectionId' = nextConnectionId,
           PipesDiffer', \A c \in Client : InPipe(c)' => InPipe(c),
           acceptor'.pc # "pass" \/ (acceptor' = acceptor /\ PassingIsNewest'),
           \A c \in Client : Passing(c)' => Passing(c),
           \A c \in Client : sent'[c] = sent[c] \/ \E i \in Conn : Open(i, c),
           \A c \in Client, k \in IoTask : Opening(k, c)' => Opening(k, c),
           \A c \in Client, i \in Conn : Open(i, c)' => Open(i, c)
    PROVE  PlaceInv'
<1>1. PassingIsNewest'
  BY DEF PassingIsNewest
<1>2. \A c \in Client : Waiting(c)' => Waiting(c)
  BY DEF Waiting
<1>3. \A c \in Client : Waiting(c)' => sent'[c] = 0
  BY <1>2 DEF PlaceInv
<1>4. \A c \in Client, k \in IoTask : Waiting(c)' => ~Opening(k, c)'
  BY <1>2 DEF PlaceInv
<1>5. \A c \in Client, i \in Conn : Waiting(c)' => ~Open(i, c)'
  BY <1>2 DEF PlaceInv
<1>6. \A c \in Client, k \in IoTask : Opening(k, c)' => sent'[c] = 0
  BY DEF PlaceInv
<1>7. \A c \in Client : InPipe(c)' => c < nextConnectionId'
  BY DEF PlaceInv
<1>8. /\ \A c \in Client, j, k \in IoTask : Opening(j, c)' /\ Opening(k, c)' => j = k
      /\ \A c \in Client, i \in Conn, k \in IoTask : Opening(k, c)' => ~Open(i, c)'
      /\ \A c \in Client, i, j \in Conn : Open(i, c)' /\ Open(j, c)' => i = j
  BY DEF PlaceInv
<1> QED BY <1>1, <1>3, <1>4, <1>5, <1>6, <1>7, <1>8 DEF PlaceInv

(* The same, with the pipes as they are. *)
LEMMA PlacesKept ==
    ASSUME TypeInv, PlaceInv, UNCHANGED <<pipe, nextConnectionId>>,
           acceptor'.pc # "pass" \/ acceptor' = acceptor,
           \A i \in Conn : /\ conns'[i].id = conns[i].id
                           /\ conns'[i].client \in {conns[i].client, NoClient},
           \A c \in Client : sent'[c] = sent[c] \/ \E i \in Conn : Open(i, c),
           \A c \in Client, k \in IoTask : Opening(k, c)' => Opening(k, c)
    PROVE  PlaceInv'
<1>1. PipesDiffer' /\ \A c \in Client : InPipe(c)' <=> InPipe(c)
  BY DEF PlaceInv, PipesDiffer, InPipe
<1>2. acceptor.conn \in Conn
  BY DEF TypeInv, StartInv
<1>3. \A c \in Client : Passing(c)' => Passing(c)
  BY <1>2 DEF Passing
<1>4. \A c \in Client, i \in Conn : Open(i, c)' => Open(i, c)
  BY ServerNumbers DEF Open
<1>5. acceptor'.pc # "pass" \/ (acceptor' = acceptor /\ PassingIsNewest')
  BY <1>2 DEF PlaceInv, PassingIsNewest, InPipe
<1> QED BY <1>1, <1>3, <1>4, <1>5, PlacesShrink

(* The callbacks do not change. *)
LEMMA OpeningKept ==
    ASSUME UNCHANGED io
    PROVE  \A c \in Client, k \in IoTask : Opening(k, c)' => Opening(k, c)
  BY DEF Opening, Connecting

LEMMA PlacesStart ==
    ASSUME TypeInv, PlaceInv, StartStep
    PROVE  PlaceInv'
<1>1. /\ UNCHANGED <<pipe, nextConnectionId, conns, sent>>
      /\ acceptor'.pc # "pass" \/ acceptor' = acceptor
      /\ UNCHANGED io \/ io' = [k \in IoTask |-> [io[k] EXCEPT !.pc = "stopped"]]
  BY DEF StartStep, AcceptPipe, AcceptPipeFails, ListenFails, HandlePipeConnect,
         PipeConnectFails, connVars, TypeInv, StartInv
<1>2. \A c \in Client, k \in IoTask : Opening(k, c)' => Opening(k, c)
  <2>1. CASE UNCHANGED io
    BY <2>1, OpeningKept
  <2>2. CASE io' = [k \in IoTask |-> [io[k] EXCEPT !.pc = "stopped"]]
    <3>1. \A k \in IoTask : io'[k].pc = "stopped"
      BY <2>2 DEF TypeInv, IoInv, IoType
    <3> QED BY <3>1 DEF Opening, Connecting
  <2> QED BY <1>1, <2>1, <2>2
<1> QED BY <1>1, <1>2, PlacesKept

LEMMA PlacesGrab ==
    ASSUME TypeInv, PlaceInv, GrabConnectionData
    PROVE  PlaceInv'
<1> DEFINE i == acceptor.conn
           new == nextConnectionId
<1>1. /\ acceptor.pc = "scan" /\ new < MaxAccepts /\ i \in Conn /\ new \in Nat
      /\ UNCHANGED <<pipe, io, sent>>
  BY DEF GrabConnectionData, TypeInv, StartInv, ConnInv
<1>2. CASE conns[i].used
  <2>1. /\ acceptor' = [acceptor EXCEPT !.conn = (i + 1) % MaxConnections]
        /\ UNCHANGED <<conns, nextConnectionId>>
    BY <1>2 DEF GrabConnectionData
  <2>2. acceptor'.pc # "pass"
    BY <1>1, <2>1 DEF TypeInv, StartInv
  <2> QED BY <1>1, <2>1, <2>2, OpeningKept, PlacesKept
<1>3. CASE ~conns[i].used
  <2>1. /\ conns' = [conns EXCEPT ![i].used = TRUE, ![i].id = new]
        /\ nextConnectionId' = new + 1
        /\ acceptor' = [pc |-> "pass", conn |-> i]
    BY <1>3 DEF GrabConnectionData
  <2>2. conns'[i].id = new /\ \A j \in Conn : conns'[j].client = conns[j].client
    BY <1>1, <2>1 DEF TypeInv, ConnInv, ConnType
  <2>3. /\ \A c \in Client : InPipe(c)' <=> InPipe(c)
        /\ \A c \in Client, k \in IoTask : Opening(k, c)' <=> Opening(k, c)
        /\ \A c \in Client, j \in Conn : Open(j, c)' <=> Open(j, c)
        /\ PipesDiffer'
    BY <1>1, <2>2 DEF InPipe, Opening, Connecting, Open, PlaceInv, PipesDiffer
  <2>4. \A c \in Client : c \in Nat
    BY ServerBoundAssumption DEF Client
  <2>5. \A c \in Client : Waiting(c)' => Waiting(c)
    <3>1. \A c \in Client : Passing(c)' => c >= new
      BY <1>1, <2>1, <2>2 DEF Passing
    <3>2. \A c \in Client : c >= nextConnectionId' => c >= new
      BY <1>1, <2>1, <2>4
    <3> QED BY <2>3, <3>1, <3>2 DEF Waiting
  <2>6. \A c \in Client : InPipe(c)' => c < nextConnectionId'
    BY <1>1, <2>1, <2>3, <2>4 DEF PlaceInv
  <2>7. new \in Client /\ ~InPipe(new)
    <3>1. new \in Client /\ ~(new < new)
      BY <1>1, ServerBoundAssumption DEF Client
    <3> QED BY <3>1 DEF PlaceInv
  <2>8. PassingIsNewest'
    <3>1. nextConnectionId' - 1 = new /\ nextConnectionId' > 0
      BY <1>1, <2>1
    <3>2. \A k \in IoTask : \A n \in 1 .. Len(pipe[k]) : pipe[k][n] # new
      BY <2>7 DEF InPipe
    <3>3. ~InPipe(nextConnectionId - 1)'
      BY <1>1, <3>1, <3>2 DEF InPipe
    <3> QED BY <2>1, <2>2, <3>1, <3>3 DEF PassingIsNewest
  <2>9. \A c \in Client : Waiting(c)' => sent'[c] = 0
    BY <1>1, <2>5 DEF PlaceInv
  <2>10. /\ \A c \in Client, k \in IoTask : Waiting(c)' => ~Opening(k, c)'
         /\ \A c \in Client, j \in Conn : Waiting(c)' => ~Open(j, c)'
    BY <2>3, <2>5 DEF PlaceInv
  <2>11. /\ \A c \in Client, k \in IoTask : Opening(k, c)' => sent'[c] = 0
         /\ \A c \in Client, j, k \in IoTask : Opening(j, c)' /\ Opening(k, c)' => j = k
         /\ \A c \in Client, j \in Conn, k \in IoTask : Opening(k, c)' => ~Open(j, c)'
         /\ \A c \in Client, h, j \in Conn : Open(h, c)' /\ Open(j, c)' => h = j
    BY <1>1, <2>3 DEF PlaceInv
  <2> QED BY <2>3, <2>6, <2>8, <2>9, <2>10, <2>11 DEF PlaceInv
<1> QED BY <1>2, <1>3

(* The slot of the accepted socket is given back. *)
LEMMA PlacesAcceptFails ==
    ASSUME TypeInv, PlaceInv, AcceptFails \/ PassFails
    PROVE  PlaceInv'
<1>1. /\ acceptor' = [pc |-> "scan", conn |-> 0]
      /\ UNCHANGED <<pipe, nextConnectionId, io, sent>>
  BY DEF AcceptFails, PassFails
<1>0. PICK used \in BOOLEAN : conns' = [conns EXCEPT ![acceptor.conn].used = used]
  BY DEF AcceptFails, PassFails
<1>2. \A i \in Conn : conns'[i].id = conns[i].id /\ conns'[i].client = conns[i].client
  BY <1>0 DEF TypeInv, ConnInv, ConnType
<1> QED BY <1>1, <1>2, OpeningKept, PlacesKept

LEMMA PlacesPass ==
    ASSUME TypeInv, PlaceInv, PassConnection
    PROVE  PlaceInv'
<1> DEFINE i == acceptor.conn
           k == IoTaskOf(i)
           new == conns[i].id
<1>1. /\ acceptor.pc = "pass" /\ i \in Conn /\ acceptor' = [pc |-> "scan", conn |-> 0]
      /\ pipe' = [pipe EXCEPT ![serverPipe[k]] = Append(@, new)]
      /\ UNCHANGED <<conns, nextConnectionId, io, sent>>
  BY DEF PassConnection, TypeInv, StartInv
<1>2. k \in IoTask /\ serverPipe[k] = k /\ new \in Client
  BY <1>1, ServerNumbers DEF TypeInv, StartInv, PipesArePaired, ConnInv, PassHasId
<1>3. new = nextConnectionId - 1 /\ nextConnectionId \in Nat /\ ~InPipe(new) /\ Passing(new)
  BY <1>1 DEF PlaceInv, PassingIsNewest, Passing, TypeInv, ConnInv
<1>4. /\ pipe'[k] = Append(pipe[k], new) /\ pipe[k] \in Seq(Client)
      /\ \A j \in IoTask : j # k => pipe'[j] = pipe[j]
  BY <1>1, <1>2 DEF TypeInv, ConnInv
<1>5. /\ Len(pipe'[k]) = Len(pipe[k]) + 1 /\ Len(pipe[k]) \in Nat
      /\ \A n \in 1 .. Len(pipe[k]) : pipe'[k][n] = pipe[k][n]
      /\ pipe'[k][Len(pipe[k]) + 1] = new
  BY <1>2, <1>4, AppendElements
<1>6. \A c \in Client : InPipe(c)' => InPipe(c) \/ c = new
  <2> SUFFICES ASSUME NEW c \in Client, NEW j \in IoTask, NEW n \in 1 .. Len(pipe'[j]),
                      pipe'[j][n] = c
               PROVE  InPipe(c) \/ c = new
    BY DEF InPipe
  <2>1. CASE j # k
    BY <1>4, <2>1 DEF InPipe
  <2>2. CASE j = k
    BY <1>2, <1>5, <2>2 DEF InPipe
  <2> QED BY <2>1, <2>2
<1>7. PipesDiffer'
  <2> SUFFICES ASSUME NEW j \in IoTask, NEW h \in IoTask, NEW m \in 1 .. Len(pipe'[j]),
                      NEW n \in 1 .. Len(pipe'[h]), pipe'[j][m] = pipe'[h][n]
               PROVE  j = h /\ m = n
    BY DEF PipesDiffer
  <2>1. \A g \in IoTask : \A l \in 1 .. Len(pipe'[g]) :
            \/ l \in 1 .. Len(pipe[g]) /\ pipe'[g][l] = pipe[g][l] /\ pipe'[g][l] # new
            \/ g = k /\ l = Len(pipe[k]) + 1 /\ pipe'[g][l] = new
    <3> SUFFICES ASSUME NEW g \in IoTask, NEW l \in 1 .. Len(pipe'[g])
                 PROVE  \/ l \in 1 .. Len(pipe[g]) /\ pipe'[g][l] = pipe[g][l] /\ pipe'[g][l] # new
                        \/ g = k /\ l = Len(pipe[k]) + 1 /\ pipe'[g][l] = new
      OBVIOUS
    <3>1. CASE g # k
      BY <1>3, <1>4, <3>1 DEF InPipe
    <3>2. CASE g = k
      BY <1>2, <1>3, <1>5, <3>2 DEF InPipe
    <3> QED BY <3>1, <3>2
  <2>2. \/ m \in 1 .. Len(pipe[j]) /\ n \in 1 .. Len(pipe[h]) /\ pipe[j][m] = pipe[h][n]
        \/ j = k /\ h = k /\ m = Len(pipe[k]) + 1 /\ n = Len(pipe[k]) + 1
    BY <2>1
  <2> QED BY <2>2 DEF PlaceInv, PipesDiffer
<1>8. /\ \A c \in Client, j \in IoTask : Opening(j, c)' <=> Opening(j, c)
      /\ \A c \in Client, j \in Conn : Open(j, c)' <=> Open(j, c)
      /\ \A c \in Client : ~Passing(c)'
  BY <1>1 DEF Opening, Connecting, Open, Passing
<1>9. \A c \in Client : Waiting(c)' => Waiting(c)
  BY <1>1, <1>3, <1>6, <1>8 DEF Waiting
<1>10. \A c \in Client : InPipe(c)' => c < nextConnectionId'
  BY <1>1, <1>3, <1>6 DEF PlaceInv
<1>11. PassingIsNewest'
  BY <1>1 DEF PassingIsNewest
<1>12. \A c \in Client : Waiting(c)' => sent'[c] = 0
  BY <1>1, <1>9 DEF PlaceInv
<1>13. /\ \A c \in Client, j \in IoTask : Waiting(c)' => ~Opening(j, c)'
       /\ \A c \in Client, j \in Conn : Waiting(c)' => ~Open(j, c)'
  BY <1>8, <1>9 DEF PlaceInv
<1>14. /\ \A c \in Client, j \in IoTask : Opening(j, c)' => sent'[c] = 0
       /\ \A c \in Client, j, h \in IoTask : Opening(j, c)' /\ Opening(h, c)' => j = h
       /\ \A c \in Client, j \in Conn, h \in IoTask : Opening(h, c)' => ~Open(j, c)'
       /\ \A c \in Client, h, j \in Conn : Open(h, c)' /\ Open(j, c)' => h = j
  BY <1>1, <1>8 DEF PlaceInv
<1> QED BY <1>7, <1>10, <1>11, <1>12, <1>13, <1>14 DEF PlaceInv

(* A client leaves the pipe for the callback that connects it. *)
LEMMA PipeTaken ==
    ASSUME TypeInv, PlaceInv, NEW k \in IoTask, pipe[k] # <<>>,
           pipe' = [pipe EXCEPT ![k] = Tail(@)]
    PROVE  /\ PipesDiffer'
           /\ InPipe(Head(pipe[k]))
           /\ \A c \in Client : InPipe(c)' => InPipe(c) /\ c # Head(pipe[k])
<1>1. pipe[k] \in Seq(Client)
  BY DEF TypeInv, ConnInv
<1>2. /\ pipe'[k] = Tail(pipe[k]) /\ \A j \in IoTask : j # k => pipe'[j] = pipe[j]
  BY DEF TypeInv, ConnInv
<1>3. /\ Head(pipe[k]) = pipe[k][1] /\ Len(pipe[k]) \in Nat \ {0}
      /\ Len(pipe'[k]) = Len(pipe[k]) - 1
      /\ \A n \in 1 .. Len(pipe[k]) - 1 : pipe'[k][n] = pipe[k][n + 1]
  <2>1. /\ Head(pipe[k]) = pipe[k][1] /\ Len(pipe[k]) \in Nat \ {0}
        /\ Len(Tail(pipe[k])) = Len(pipe[k]) - 1
        /\ \A n \in 1 .. Len(pipe[k]) - 1 : Tail(pipe[k])[n] = pipe[k][n + 1]
    BY <1>1, TailElements
  <2> QED BY <1>2, <2>1
<1>4. ASSUME NEW j \in IoTask, NEW n \in 1 .. Len(pipe'[j])
      PROVE  \E m \in 1 .. Len(pipe[j]) :
                 /\ m = (IF j = k THEN n + 1 ELSE n)
                 /\ pipe'[j][n] = pipe[j][m] /\ pipe[j][m] # Head(pipe[k])
  <2>1. CASE j = k
    <3>1. n + 1 \in 1 .. Len(pipe[k]) /\ pipe'[k][n] = pipe[k][n + 1] /\ n + 1 # 1 /\ 1 \in 1 .. Len(pipe[k])
      BY <1>3, <2>1
    <3>2. pipe[k][n + 1] # pipe[k][1]
      BY <3>1 DEF PlaceInv, PipesDiffer
    <3> QED BY <1>3, <2>1, <3>1, <3>2
  <2>2. CASE j # k
    <3>1. n \in 1 .. Len(pipe[j]) /\ pipe'[j][n] = pipe[j][n] /\ 1 \in 1 .. Len(pipe[k])
      BY <1>2, <1>3, <2>2
    <3>2. pipe[j][n] # pipe[k][1]
      BY <2>2, <3>1 DEF PlaceInv, PipesDiffer
    <3> QED BY <1>3, <2>2, <3>1, <3>2
  <2> QED BY <2>1, <2>2
<1>5. PipesDiffer'
  <2> SUFFICES ASSUME NEW j \in IoTask, NEW h \in IoTask, NEW m \in 1 .. Len(pipe'[j]),
                      NEW n \in 1 .. Len(pipe'[h]), pipe'[j][m] = pipe'[h][n]
               PROVE  j = h /\ m = n
    BY DEF PipesDiffer
  <2>1. PICK a \in 1 .. Len(pipe[j]) :
            a = (IF j = k THEN m + 1 ELSE m) /\ pipe'[j][m] = pipe[j][a]
    BY <1>4
  <2>2. PICK b \in 1 .. Len(pipe[h]) :
            b = (IF h = k THEN n + 1 ELSE n) /\ pipe'[h][n] = pipe[h][b]
    BY <1>4
  <2>3. j = h /\ a = b
    BY <2>1, <2>2 DEF PlaceInv, PipesDiffer
  <2> QED BY <2>1, <2>2, <2>3
<1>6. \A c \in Client : InPipe(c)' => InPipe(c) /\ c # Head(pipe[k])
  <2> SUFFICES ASSUME NEW c \in Client, NEW j \in IoTask, NEW n \in 1 .. Len(pipe'[j]),
                      pipe'[j][n] = c
               PROVE  InPipe(c) /\ c # Head(pipe[k])
    BY DEF InPipe
  <2>1. PICK m \in 1 .. Len(pipe[j]) : pipe'[j][n] = pipe[j][m] /\ pipe[j][m] # Head(pipe[k])
    BY <1>4
  <2> QED BY <2>1 DEF InPipe
<1>7. InPipe(Head(pipe[k]))
  BY <1>3 DEF InPipe
<1> QED BY <1>5, <1>6, <1>7

LEMMA PlacesPipeRead ==
    ASSUME TypeInv, PlaceInv, NEW k \in IoTask, HandlePipeRead(k)
    PROVE  PlaceInv'
<1> DEFINE new == Head(pipe[k])
<1>1. /\ pipe[k] # <<>> /\ new \in Client
      /\ io'[k].pc = "assign" /\ io'[k].client = new
      /\ \A j \in IoTask : j # k => io'[j] = io[j]
      /\ \A i \in Conn : /\ conns'[i].id = conns[i].id
                         /\ conns'[i].client \in {conns[i].client, NoClient}
  BY PipeReadEffect
<1>2. /\ pipe' = [pipe EXCEPT ![k] = Tail(@)]
      /\ UNCHANGED <<acceptor, nextConnectionId, sent>>
  BY DEF HandlePipeRead
<1>3. PipesDiffer' /\ InPipe(new) /\ \A c \in Client : InPipe(c)' => InPipe(c) /\ c # new
  BY <1>1, <1>2, PipeTaken
<1>4. acceptor.conn \in Conn /\ nextConnectionId \in Nat /\ \A c \in Client : c \in Nat
  BY ServerBoundAssumption DEF TypeInv, StartInv, ConnInv, Client
<1>5. \A c \in Client : Passing(c)' <=> Passing(c)
  BY <1>1, <1>2, <1>4 DEF Passing
<1>6. /\ \A c \in Client, j \in IoTask : Opening(j, c)' => Opening(j, c) \/ (j = k /\ c = new)
      /\ \A c \in Client, i \in Conn : Open(i, c)' => Open(i, c)
  BY <1>1, ServerNumbers DEF Opening, Connecting, Open
<1>7. new < nextConnectionId /\ ~Passing(new)
  BY <1>1, <1>3 DEF PlaceInv, PassingIsNewest, Passing
<1>8. \A c \in Client : Waiting(c)' => Waiting(c) /\ c # new
  BY <1>1, <1>2, <1>3, <1>4, <1>5, <1>7 DEF Waiting
<1>9. Waiting(new)
  BY <1>3 DEF Waiting
<1>10. sent[new] = 0 /\ (\A j \in IoTask : ~Opening(j, new)) /\ (\A i \in Conn : ~Open(i, new))
  BY <1>1, <1>9 DEF PlaceInv
<1>11. PassingIsNewest'
  <2> SUFFICES ASSUME acceptor'.pc = "pass" PROVE PassingIsNewest'
    BY DEF PassingIsNewest
  <2>1. /\ acceptor.pc = "pass" /\ conns'[acceptor'.conn].id = nextConnectionId' - 1
        /\ nextConnectionId' > 0 /\ ~InPipe(nextConnectionId - 1)
        /\ nextConnectionId - 1 \in Client
    BY <1>1, <1>2, <1>4 DEF PlaceInv, PassingIsNewest, TypeInv, ConnInv, PassHasId
  <2>2. ~InPipe(nextConnectionId - 1)'
    <3>1. \A c \in Client : c = nextConnectionId - 1 => ~InPipe(c)'
      BY <1>3, <2>1
    <3>2. \A c \in Client : c = nextConnectionId - 1 =>
              \A j \in IoTask : \A n \in 1 .. Len(pipe'[j]) : pipe'[j][n] # c
      BY <3>1 DEF InPipe
    <3> QED BY <1>2, <2>1, <3>2 DEF InPipe
  <2> QED BY <2>1, <2>2 DEF PassingIsNewest
<1>12. /\ \A c \in Client : InPipe(c)' => c < nextConnectionId'
       /\ \A c \in Client : Waiting(c)' => sent'[c] = 0
  BY <1>2, <1>3, <1>8 DEF PlaceInv
<1>13. /\ \A c \in Client, j \in IoTask : Waiting(c)' => ~Opening(j, c)'
       /\ \A c \in Client, j \in Conn : Waiting(c)' => ~Open(j, c)'
  BY <1>6, <1>8 DEF PlaceInv
<1>14. /\ \A c \in Client, j \in IoTask : Opening(j, c)' => sent'[c] = 0
       /\ \A c \in Client, j, h \in IoTask : Opening(j, c)' /\ Opening(h, c)' => j = h
       /\ \A c \in Client, j \in Conn, h \in IoTask : Opening(h, c)' => ~Open(j, c)'
       /\ \A c \in Client, h, j \in Conn : Open(h, c)' /\ Open(j, c)' => h = j
  BY <1>2, <1>6, <1>10 DEF PlaceInv
<1> QED BY <1>3, <1>11, <1>12, <1>13, <1>14 DEF PlaceInv

LEMMA PlacesPipeReadFails ==
    ASSUME TypeInv, PlaceInv, NEW k \in IoTask, PipeReadFails(k)
    PROVE  PlaceInv'
<1>1. /\ pipe[k] # <<>>
      /\ \A i \in Conn : /\ conns'[i].id = conns[i].id
                         /\ conns'[i].client \in {conns[i].client, NoClient}
  BY PipeReadFailsEffect
<1>2. /\ pipe' = [pipe EXCEPT ![k] = Tail(@)]
      /\ UNCHANGED <<acceptor, nextConnectionId, sent, io>>
  BY DEF PipeReadFails
<1>3. PipesDiffer' /\ \A c \in Client : InPipe(c)' => InPipe(c)
  BY <1>1, <1>2, PipeTaken
<1>4. acceptor.conn \in Conn
  BY DEF TypeInv, StartInv
<1>5. \A c \in Client : Passing(c)' => Passing(c)
  BY <1>1, <1>2, <1>4 DEF Passing
<1>6. \A c \in Client, i \in Conn : Open(i, c)' => Open(i, c)
  BY <1>1, ServerNumbers DEF Open
<1>7. PassingIsNewest'
  <2> SUFFICES ASSUME acceptor'.pc = "pass" PROVE PassingIsNewest'
    BY DEF PassingIsNewest
  <2>1. /\ acceptor.pc = "pass" /\ conns'[acceptor'.conn].id = nextConnectionId' - 1
        /\ nextConnectionId' > 0 /\ ~InPipe(nextConnectionId - 1)
        /\ nextConnectionId - 1 \in Client
    BY <1>1, <1>2, <1>4 DEF PlaceInv, PassingIsNewest, TypeInv, ConnInv, PassHasId
  <2>2. ~InPipe(nextConnectionId - 1)'
    <3>1. \A c \in Client : c = nextConnectionId - 1 => ~InPipe(c)'
      BY <1>3, <2>1
    <3>2. \A c \in Client : c = nextConnectionId - 1 =>
              \A j \in IoTask : \A n \in 1 .. Len(pipe'[j]) : pipe'[j][n] # c
      BY <3>1 DEF InPipe
    <3> QED BY <1>2, <2>1, <3>2 DEF InPipe
  <2> QED BY <2>1, <2>2 DEF PassingIsNewest
<1> QED BY <1>2, <1>3, <1>5, <1>6, <1>7, OpeningKept, PlacesShrink

LEMMA PlacesCallback ==
    ASSUME TypeInv, PlaceInv, NEW k \in IoTask,
           \/ AssignQueueId(k) \/ OnDisconnect(k)
           \/ \E i \in Conn : OnRead(k, i) \/ OnReadError(k, i)
    PROVE  PlaceInv'
<1>1. UNCHANGED <<pipe, nextConnectionId, acceptor>>
  BY DEF AssignQueueId, OnDisconnect, OnRead, OnReadError, connVars
<1>2. \A j \in IoTask : j # k => io'[j] = io[j]
  BY AssignEffect, DisconnectEffect, ReadEffect, ReadErrorEffect
<1>3. Connecting(k)' => Connecting(k) /\ io'[k].client = io[k].client
  <2>1. CASE AssignQueueId(k)
    BY <2>1, AssignEffect
  <2>2. CASE OnDisconnect(k)
    BY <2>2, DisconnectEffect DEF Connecting
  <2>3. ASSUME NEW i \in Conn, OnRead(k, i) PROVE ~Connecting(k)'
    BY <2>3, ReadEffect DEF Connecting
  <2>4. ASSUME NEW i \in Conn, OnReadError(k, i) PROVE ~Connecting(k)'
    BY <2>4, ReadErrorEffect DEF Connecting
  <2> QED BY <2>1, <2>2, <2>3, <2>4
<1>4. \A c \in Client, j \in IoTask : Opening(j, c)' => Opening(j, c)
  BY <1>2, <1>3 DEF Opening, Connecting
<1>5. \A i \in Conn : /\ conns'[i].id = conns[i].id
                      /\ conns'[i].client \in {conns[i].client, NoClient}
  <2>1. UNCHANGED conns \/ \E i \in Conn : OnReadError(k, i)
    BY DEF AssignQueueId, OnDisconnect, OnRead, connVars
  <2> QED BY <2>1, ReadErrorEffect
<1>6. \A c \in Client : sent'[c] = sent[c] \/ \E i \in Conn : Open(i, c)
  <2>1. UNCHANGED sent \/ \E i \in Conn : OnRead(k, i)
    BY DEF AssignQueueId, OnDisconnect, OnReadError
  <2>2. ASSUME NEW i \in Conn, OnRead(k, i), NEW c \in Client
        PROVE  sent'[c] = sent[c] \/ Open(i, c)
    BY <2>2, ReadEffect DEF Open, TypeInv, ListenerInv
  <2> QED BY <2>1, <2>2
<1> QED BY <1>1, <1>4, <1>5, <1>6, PlacesKept

LEMMA PlacesPush ==
    ASSUME TypeInv, PlaceInv, NEW k \in IoTask, PushEvent(k) \/ ReadStartFails(k)
    PROVE  PlaceInv'
<1> DEFINE i == io[k].conn
           c0 == io[k].client
<1>1. /\ io[k].pc = "push" /\ io'[k].pc = "idle" /\ i \in Conn /\ c0 \in Client
      /\ \A j \in IoTask : j # k => io'[j] = io[j]
      /\ \A j \in Conn : conns'[j].id = conns[j].id
      /\ \A j \in Conn : j # i => conns'[j] = conns[j]
      /\ conns'[i].client = IF PushEvent(k) /\ io[k].evt.type = "ET_CONNECT"
                            THEN c0 ELSE conns[i].client
  BY PushEffect
<1>2. UNCHANGED <<pipe, nextConnectionId, acceptor, sent>>
  BY DEF PushEvent, ReadStartFails
<1>3. \A c \in Client, j \in IoTask : Opening(j, c)' => Opening(j, c) /\ j # k
  BY <1>1 DEF Opening, Connecting
<1>4. CASE ~(PushEvent(k) /\ io[k].evt.type = "ET_CONNECT")
  <2>1. \A j \in Conn : conns'[j].client = conns[j].client
    BY <1>1, <1>4
  <2> QED BY <1>1, <1>2, <1>3, <2>1, PlacesKept
<1>5. CASE io[k].evt.type = "ET_CONNECT"
  <2>1. Opening(k, c0)
    BY <1>1, <1>5 DEF Opening, Connecting
  <2>2. sent[c0] = 0 /\ ~Waiting(c0) /\ \A j \in Conn : ~Open(j, c0)
    BY <1>1, <2>1 DEF PlaceInv
  <2>3. \A c \in Client, j \in IoTask : Opening(j, c)' => c # c0
    BY <1>1, <1>3, <2>1 DEF PlaceInv
  <2>4. \A c \in Client, j \in Conn : Open(j, c)' => Open(j, c) \/ (c = c0 /\ j = i)
    BY <1>1 DEF Open
  <2>5. acceptor.conn \in Conn
    BY DEF TypeInv, StartInv
  <2>6. \A c \in Client : Waiting(c)' <=> Waiting(c)
    <3>1. \A c \in Client : (InPipe(c)' <=> InPipe(c)) /\ (Passing(c)' <=> Passing(c))
      BY <1>1, <1>2, <2>5 DEF InPipe, Passing
    <3> QED BY <1>2, <3>1 DEF Waiting
  <2>7. PipesDiffer' /\ PassingIsNewest' /\ \A c \in Client : InPipe(c)' => c < nextConnectionId'
    BY <1>1, <1>2, <2>5 DEF PlaceInv, PipesDiffer, PassingIsNewest, InPipe
  <2>8. /\ \A c \in Client : Waiting(c)' => sent'[c] = 0
        /\ \A c \in Client, j \in IoTask : Waiting(c)' => ~Opening(j, c)'
        /\ \A c \in Client, j \in Conn : Waiting(c)' => ~Open(j, c)'
    BY <1>2, <1>3, <2>2, <2>4, <2>6 DEF PlaceInv
  <2>9. /\ \A c \in Client, j \in IoTask : Opening(j, c)' => sent'[c] = 0
        /\ \A c \in Client, j, h \in IoTask : Opening(j, c)' /\ Opening(h, c)' => j = h
        /\ \A c \in Client, j \in Conn, h \in IoTask : Opening(h, c)' => ~Open(j, c)'
        /\ \A c \in Client, h, j \in Conn : Open(h, c)' /\ Open(j, c)' => h = j
    BY <1>2, <1>3, <2>2, <2>3, <2>4 DEF PlaceInv
  <2> QED BY <2>7, <2>8, <2>9 DEF PlaceInv
<1> QED BY <1>4, <1>5

LEMMA PlacesStop ==
    ASSUME TypeInv, PlaceInv,
           \/ StopServer \/ StopStep \/ UNCHANGED vars
           \/ \E q \in Queue : WorkerStep(q)
           \/ \E k \in IoTask : \E write \in asyncWrites : AsyncWrite(k, write)
    PROVE  PlaceInv'
<1>1. CASE \E k \in IoTask : StopIoTask(k)
  <2>1. PICK k \in IoTask : StopIoTask(k)
    BY <1>1
  <2>2. io' = [io EXCEPT ![k].pc = "stopped"] /\ UNCHANGED <<connVars, sent>>
    BY <2>1 DEF StopIoTask
  <2>3. io'[k].pc = "stopped" /\ \A j \in IoTask : j # k => io'[j] = io[j]
    BY <2>2 DEF TypeInv, IoInv, IoType
  <2>4. \A c \in Client, j \in IoTask : Opening(j, c)' => Opening(j, c)
    BY <2>3 DEF Opening, Connecting
  <2> QED BY <2>2, <2>4, PlacesKept DEF connVars
<1>2. CASE ~\E k \in IoTask : StopIoTask(k)
  <2>1. /\ UNCHANGED <<pipe, nextConnectionId, conns, io, sent>>
        /\ acceptor'.pc # "pass" \/ acceptor' = acceptor
    <3>1. CASE StopAcceptor
      BY <3>1 DEF StopAcceptor, TypeInv, StartInv
    <3>2. CASE StopServer \/ PushStop
      BY <3>2 DEF StopServer, PushStop, connVars
    <3>3. CASE UNCHANGED vars
      BY <3>3 DEF vars
    <3>4. ASSUME NEW q \in Queue, WorkerStep(q)
          PROVE  UNCHANGED <<connVars, io, sent>>
      BY <3>4 DEF WorkerStep, StartDrain, EndDrain, OnConnectCheck, CreateSession,
                  CreateSessionFails, OnDisconnectCheck, DeleteSession, OnMsg, OnStop
    <3>5. ASSUME NEW k \in IoTask, NEW write \in asyncWrites, AsyncWrite(k, write)
          PROVE  UNCHANGED <<connVars, io, sent>>
      BY <3>5 DEF AsyncWrite
    <3> QED BY <1>2, <3>1, <3>2, <3>3, <3>4, <3>5 DEF StopStep, connVars
  <2> QED BY <2>1, OpeningKept, PlacesKept
<1> QED BY <1>1, <1>2

LEMMA NextPlaces == TypeInv /\ PlaceInv /\ [Next]_vars => PlaceInv'
<1> SUFFICES ASSUME TypeInv, PlaceInv, [Next]_vars PROVE PlaceInv'
  OBVIOUS
<1>1. CASE StartStep
  BY <1>1, PlacesStart
<1>2. CASE AcceptStep
  BY <1>2, PlacesGrab, PlacesAcceptFails, PlacesPass DEF AcceptStep
<1>3. ASSUME NEW k \in IoTask,
             \/ HandlePipeRead(k) \/ PipeReadFails(k) \/ ReadStartFails(k) \/ IoFinish(k)
             \/ \E i \in Conn : OnRead(k, i) \/ OnReadError(k, i)
      PROVE  PlaceInv'
  BY <1>3, PlacesPipeRead, PlacesPipeReadFails, PlacesPush, PlacesCallback DEF IoFinish
<1>4. CASE \/ StopServer \/ StopStep \/ UNCHANGED vars
           \/ \E q \in Queue : WorkerStep(q)
           \/ \E k \in IoTask : \E write \in asyncWrites : AsyncWrite(k, write)
  BY <1>4, PlacesStop
<1> QED BY <1>1, <1>2, <1>3, <1>4 DEF Next

-------------------------------------------------------------------------------
(* The order of the messages. *)

LEMMA MsgTyped ==
    ASSUME TypeInv, NEW q \in Queue, NEW n \in Nat, IsMsg(q, n)
    PROVE  /\ eventQueue[q][n].from \in Client /\ eventQueue[q][n].conn \in Conn
           /\ eventQueue[q][n].seq \in Nat
<1>1. eventQueue[q] \in Seq(Event) /\ n \in 1 .. Len(eventQueue[q])
  BY DEF TypeInv, QueueInv, IsMsg
<1>2. eventQueue[q][n] \in Event /\ Named(eventQueue[q][n])
  BY <1>1 DEF TypeInv, QueueInv
<1> QED BY <1>2 DEF Named, IsMsg, Event

LEMMA CountsTyped ==
    ASSUME TypeInv, NEW c \in Client
    PROVE  sent[c] \in Nat /\ seen[c] \in Nat
  BY ServerBoundAssumption DEF TypeInv, ListenerInv

(* A push adds a message at the end of its queue, if the event is one. *)
LEMMA PushMsgs ==
    ASSUME TypeInv, NEW q \in Queue, NEW evt \in Event, Push(q, evt)
    PROVE  /\ \A r \in Queue : \A n \in Nat :
                 IsMsg(r, n)' <=> \/ IsMsg(r, n)
                                  \/ r = q /\ n = Len(eventQueue[q]) + 1 /\ evt.type = "ET_MSG"
           /\ \A r \in Queue : \A n \in Nat : IsMsg(r, n) => eventQueue'[r][n] = eventQueue[r][n]
           /\ eventQueue'[q][Len(eventQueue[q]) + 1] = evt
           /\ Len(eventQueue[q]) \in Nat
           /\ \A n \in Nat : IsMsg(q, n) => n < Len(eventQueue[q]) + 1
<1> DEFINE new == Len(eventQueue[q]) + 1
<1>1. /\ eventQueue[q] \in Seq(Event) /\ eventQueue'[q] = Append(eventQueue[q], evt)
      /\ \A r \in Queue : r # q => eventQueue'[r] = eventQueue[r]
  BY DEF Push, TypeInv, QueueInv
<1>2. /\ Len(eventQueue'[q]) = new /\ Len(eventQueue[q]) \in Nat
      /\ \A n \in 1 .. Len(eventQueue[q]) : eventQueue'[q][n] = eventQueue[q][n]
      /\ eventQueue'[q][new] = evt
  <2>1. /\ Len(Append(eventQueue[q], evt)) = new /\ Len(eventQueue[q]) \in Nat
        /\ \A n \in 1 .. Len(eventQueue[q]) : Append(eventQueue[q], evt)[n] = eventQueue[q][n]
        /\ Append(eventQueue[q], evt)[new] = evt
    BY <1>1, AppendElements
  <2> QED BY <1>1, <2>1
<1>3. \A r \in Queue : \A n \in Nat : IsMsg(r, n) => eventQueue'[r][n] = eventQueue[r][n]
  BY <1>1, <1>2 DEF IsMsg
<1>4. ASSUME NEW r \in Queue, NEW n \in Nat
      PROVE  IsMsg(r, n)' <=> \/ IsMsg(r, n)
                              \/ r = q /\ n = new /\ evt.type = "ET_MSG"
  <2>1. CASE r # q
    BY <1>1, <2>1 DEF IsMsg
  <2>2. CASE r = q /\ n = new
    BY <1>2, <2>2 DEF IsMsg
  <2>3. CASE r = q /\ n # new
    BY <1>2, <2>3 DEF IsMsg
  <2> QED BY <2>1, <2>2, <2>3
<1>5. \A n \in Nat : IsMsg(q, n) => n < new
  BY <1>2 DEF IsMsg
<1> QED BY <1>2, <1>3, <1>4, <1>5

(* A pop removes the oldest event, the others move up. *)
LEMMA PopMsgs ==
    ASSUME TypeInv, NEW q \in Queue, NEW done \in BOOLEAN, eventQueue[q] # <<>>, Pop(q, done)
    PROVE  /\ \A r \in Queue : \A n \in Nat : IsMsg(r, n)' =>
                 \E m \in Nat : /\ IsMsg(r, m) /\ eventQueue'[r][n] = eventQueue[r][m]
                                /\ m = IF r = q THEN n + 1 ELSE n
                                /\ ~(r = q /\ m = 1)
           /\ \A r \in Queue : \A n \in Nat : IsMsg(r, n) =>
                 \/ r = q /\ n = 1
                 \/ \E m \in Nat : IsMsg(r, m)' /\ eventQueue'[r][m] = eventQueue[r][n]
           /\ Oldest(q) = eventQueue[q][1]
           /\ IsMsg(q, 1) <=> Oldest(q).type = "ET_MSG"
<1>1. /\ eventQueue[q] \in Seq(Event) /\ eventQueue'[q] = Tail(eventQueue[q])
      /\ \A r \in Queue : r # q => eventQueue'[r] = eventQueue[r]
  BY DEF Pop, TypeInv, QueueInv
<1>2. /\ Head(eventQueue[q]) = eventQueue[q][1] /\ Len(eventQueue[q]) \in Nat \ {0}
      /\ Len(eventQueue'[q]) = Len(eventQueue[q]) - 1
      /\ \A n \in 1 .. Len(eventQueue[q]) - 1 : eventQueue'[q][n] = eventQueue[q][n + 1]
  <2>1. /\ Head(eventQueue[q]) = eventQueue[q][1] /\ Len(eventQueue[q]) \in Nat \ {0}
        /\ Len(Tail(eventQueue[q])) = Len(eventQueue[q]) - 1
        /\ \A n \in 1 .. Len(eventQueue[q]) - 1 : Tail(eventQueue[q])[n] = eventQueue[q][n + 1]
    BY <1>1, TailElements
  <2> QED BY <1>1, <2>1
<1>3. ASSUME NEW r \in Queue, NEW n \in Nat, IsMsg(r, n)'
      PROVE  \E m \in Nat : /\ IsMsg(r, m) /\ eventQueue'[r][n] = eventQueue[r][m]
                            /\ m = IF r = q THEN n + 1 ELSE n
                            /\ ~(r = q /\ m = 1)
  <2>1. CASE r # q
    BY <1>1, <1>3, <2>1 DEF IsMsg
  <2>2. CASE r = q
    <3>1. n \in 1 .. Len(eventQueue[q]) - 1 /\ eventQueue'[q][n].type = "ET_MSG"
      BY <1>2, <1>3, <2>2 DEF IsMsg
    <3>2. n + 1 \in 1 .. Len(eventQueue[q]) /\ eventQueue'[q][n] = eventQueue[q][n + 1] /\ n + 1 # 1
      BY <1>2, <3>1
    <3> QED BY <2>2, <3>1, <3>2 DEF IsMsg
  <2> QED BY <2>1, <2>2
<1>4. ASSUME NEW r \in Queue, NEW n \in Nat, IsMsg(r, n), ~(r = q /\ n = 1)
      PROVE  \E m \in Nat : IsMsg(r, m)' /\ eventQueue'[r][m] = eventQueue[r][n]
  <2>1. CASE r # q
    BY <1>1, <1>4, <2>1 DEF IsMsg
  <2>2. CASE r = q
    <3>1. n \in 1 .. Len(eventQueue[q]) /\ n # 1 /\ eventQueue[q][n].type = "ET_MSG"
      BY <1>4, <2>2 DEF IsMsg
    <3>2. n - 1 \in 1 .. Len(eventQueue[q]) - 1 /\ n - 1 \in Nat /\ (n - 1) + 1 = n
      BY <1>2, <3>1
    <3>3. eventQueue'[q][n - 1] = eventQueue[q][n] /\ n - 1 \in 1 .. Len(eventQueue'[q])
      BY <1>2, <3>2
    <3> QED BY <2>2, <3>1, <3>2, <3>3 DEF IsMsg
  <2> QED BY <2>1, <2>2
<1>5. IsMsg(q, 1) <=> Oldest(q).type = "ET_MSG"
  BY <1>2 DEF IsMsg, Oldest
<1> QED BY <1>2, <1>3, <1>4, <1>5 DEF Oldest

(* A message that is dispatched is the next one of its client. *)
LEMMA OldestIsNext ==
    ASSUME TypeInv, OrderInv, NEW q \in Queue, IsMsg(q, 1)
    PROVE  eventQueue[q][1].seq = seen[eventQueue[q][1].from] + 1
<1> DEFINE e == eventQueue[q][1]
           c == e.from
<1>1. c \in Client /\ e.seq \in Nat /\ sent[c] \in Nat /\ seen[c] \in Nat
  BY MsgTyped, CountsTyped
<1>2. seen[c] < e.seq /\ e.seq <= sent[c]
  BY DEF OrderInv, QueuedAreUnseen
<1>3. seen[c] + 1 \in seen[c] + 1 .. sent[c]
  BY <1>1, <1>2
<1>4. CASE \E r \in Queue : \E n \in Nat :
              IsMsg(r, n) /\ eventQueue[r][n].from = c /\ eventQueue[r][n].seq = seen[c] + 1
  <2>1. PICK r \in Queue, n \in Nat :
              IsMsg(r, n) /\ eventQueue[r][n].from = c /\ eventQueue[r][n].seq = seen[c] + 1
    BY <1>4
  <2>2. r = q /\ (1 < n => e.seq < seen[c] + 1)
    BY <2>1 DEF OrderInv, QueuedInOrder
  <2>3. n = 1
    <3>1. n >= 1
      BY <2>1 DEF IsMsg
    <3> QED BY <1>1, <1>2, <2>1, <2>2, <3>1
  <2> QED BY <2>1, <2>2, <2>3
<1>5. CASE \E k \in IoTask : Pushing(k) /\ io[k].client = c /\ seen[c] + 1 = sent[c]
  <2>1. e.seq < sent[c]
    BY <1>5 DEF OrderInv, PushedIsLast
  <2> QED BY <1>1, <1>2, <1>5, <2>1
<1> QED BY <1>1, <1>3, <1>4, <1>5 DEF OrderInv, NoneIsLost

(* The messages stay where they are, and no task begins or ends to push    *)
(* one; a client that is newly read from has sent nothing.                 *)
LEMMA OrderKept ==
    ASSUME TypeInv, OrderInv, UNCHANGED <<seen, sent>>,
           \A r \in Queue : \A n \in Nat : IsMsg(r, n)' <=> IsMsg(r, n),
           \A r \in Queue : \A n \in Nat : IsMsg(r, n) => eventQueue'[r][n] = eventQueue[r][n],
           \A k \in IoTask : Pushing(k)' <=> Pushing(k),
           \A k \in IoTask : Pushing(k) =>
               /\ io'[k] = io[k]
               /\ conns'[io[k].conn].client = conns[io[k].conn].client
               /\ connectionMap'[io[k].conn] = connectionMap[io[k].conn],
           \A i \in Conn, c \in Client : Open(i, c)' =>
               sent[c] = 0 \/ (Open(i, c) /\ connectionMap'[i] = connectionMap[i])
    PROVE  OrderInv'
<1>1. QueuedAreUnseen'
  BY DEF OrderInv, QueuedAreUnseen
<1>2. QueuedInOrder'
  BY DEF OrderInv, QueuedInOrder
<1>3. NoneIsLost'
  <2> SUFFICES ASSUME NEW c \in Client
               PROVE  /\ seen'[c] <= sent'[c]
                      /\ \A s \in seen'[c] + 1 .. sent'[c] :
                            \/ \E q \in Queue : \E n \in Nat :
                                  /\ IsMsg(q, n)' /\ eventQueue'[q][n].from = c
                                  /\ eventQueue'[q][n].seq = s
                            \/ \E k \in IoTask : Pushing(k)' /\ io'[k].client = c /\ s = sent'[c]
    BY DEF NoneIsLost
  <2> QED BY DEF OrderInv, NoneIsLost
<1>4. PushedIsLast'
  BY DEF OrderInv, PushedIsLast
<1>5. QueuedAtSlot'
  <2> SUFFICES ASSUME NEW q \in Queue, NEW i \in Conn, NEW n \in Nat, IsMsg(q, n)',
                      Open(i, eventQueue[q][n].from)'
               PROVE  q = connectionMap'[i] /\ eventQueue'[q][n].conn = i
    BY DEF QueuedAtSlot
  <2>1. /\ IsMsg(q, n) /\ eventQueue'[q][n] = eventQueue[q][n]
        /\ conns'[i].client = eventQueue[q][n].from
    BY DEF Open
  <2>2. PICK c \in Client : c = eventQueue[q][n].from
    BY <2>1, MsgTyped
  <2>3. Open(i, c)' /\ sent[c] # 0
    <3>1. seen[c] \in Nat /\ sent[c] \in Nat /\ eventQueue[q][n].seq \in Nat
      BY <2>1, <2>2, MsgTyped, CountsTyped
    <3>2. seen[c] < eventQueue[q][n].seq /\ eventQueue[q][n].seq <= sent[c]
      BY <2>1, <2>2 DEF OrderInv, QueuedAreUnseen
    <3> QED BY <2>1, <2>2, <3>1, <3>2 DEF Open
  <2>4. Open(i, c) /\ connectionMap'[i] = connectionMap[i]
    BY <2>3
  <2> QED BY <2>1, <2>2, <2>4 DEF OrderInv, QueuedAtSlot
<1> QED BY <1>1, <1>2, <1>3, <1>4, <1>5 DEF OrderInv

(* The oldest event is done; when it is a message it is dispatched. *)
LEMMA OrderPopped ==
    ASSUME TypeInv, OrderInv, NEW q \in Queue, NEW done \in BOOLEAN, eventQueue[q] # <<>>,
           Pop(q, done), UNCHANGED <<sent, io, conns, connectionMap>>,
           \/ Oldest(q).type # "ET_MSG" /\ UNCHANGED seen
           \/ /\ Oldest(q).type = "ET_MSG"
              /\ seen' = [seen EXCEPT ![Oldest(q).from] = Oldest(q).seq]
    PROVE  OrderInv' /\ \A c \in Client : seen'[c] = seen[c] \/ seen'[c] = seen[c] + 1
<1> DEFINE e == eventQueue[q][1]
<1>1. \A r \in Queue : \A n \in Nat : IsMsg(r, n)' =>
          \E m \in Nat : /\ IsMsg(r, m) /\ eventQueue'[r][n] = eventQueue[r][m]
                         /\ m = IF r = q THEN n + 1 ELSE n
                         /\ ~(r = q /\ m = 1)
  BY PopMsgs
<1>2. \A r \in Queue : \A n \in Nat : IsMsg(r, n) =>
          \/ r = q /\ n = 1
          \/ \E m \in Nat : IsMsg(r, m)' /\ eventQueue'[r][m] = eventQueue[r][n]
  BY PopMsgs
<1>3. Oldest(q) = e /\ (IsMsg(q, 1) <=> e.type = "ET_MSG")
  BY PopMsgs
<1>4. \A c \in Client : sent[c] \in Nat /\ seen[c] \in Nat
  BY CountsTyped
<1>5. IsMsg(q, 1) => e.from \in Client /\ e.seq = seen[e.from] + 1 /\ e.seq <= sent[e.from]
  BY MsgTyped, OldestIsNext DEF OrderInv, QueuedAreUnseen
<1>6. \A c \in Client : /\ ~(IsMsg(q, 1) /\ e.from = c) => seen'[c] = seen[c]
                        /\ IsMsg(q, 1) /\ e.from = c => seen'[c] = e.seq
  <2>1. seen \in [Client -> 0 .. MaxMsgs]
    BY DEF TypeInv, ListenerInv
  <2> QED BY <1>3, <2>1
<1>7. \A c \in Client : /\ seen'[c] = seen[c] \/ seen'[c] = seen[c] + 1
                        /\ seen'[c] \in Nat /\ seen'[c] <= sent[c]
  <2>1. \A c \in Client : seen[c] <= sent[c]
    BY DEF OrderInv, NoneIsLost
  <2> QED BY <1>4, <1>5, <1>6, <2>1
<1>8. QueuedAreUnseen'
  <2> SUFFICES ASSUME NEW r \in Queue, NEW n \in Nat, IsMsg(r, n)'
               PROVE  /\ seen'[eventQueue'[r][n].from] < eventQueue'[r][n].seq
                      /\ eventQueue'[r][n].seq <= sent'[eventQueue'[r][n].from]
    BY DEF QueuedAreUnseen
  <2>1. PICK m \in Nat : /\ IsMsg(r, m) /\ eventQueue'[r][n] = eventQueue[r][m]
                         /\ ~(r = q /\ m = 1)
    BY <1>1
  <2> DEFINE d == eventQueue[r][m]
  <2>2. d.from \in Client /\ d.seq \in Nat /\ seen[d.from] < d.seq /\ d.seq <= sent[d.from]
    BY <2>1, MsgTyped DEF OrderInv, QueuedAreUnseen
  <2>3. CASE IsMsg(q, 1) /\ e.from = d.from
    <3>1. r = q /\ (1 < m => e.seq < d.seq)
      BY <2>1, <2>3 DEF OrderInv, QueuedInOrder
    <3>2. 1 < m
      BY <2>1, <3>1 DEF IsMsg
    <3>3. seen'[d.from] = e.seq
      BY <1>6, <2>2, <2>3
    <3> QED BY <2>1, <2>2, <3>1, <3>2, <3>3
  <2>4. CASE ~(IsMsg(q, 1) /\ e.from = d.from)
    BY <1>6, <2>1, <2>2, <2>4
  <2> QED BY <2>3, <2>4
<1>9. QueuedInOrder'
  <2> SUFFICES ASSUME NEW r \in Queue, NEW t \in Queue, NEW m \in Nat, NEW n \in Nat,
                      IsMsg(r, m)', IsMsg(t, n)',
                      eventQueue'[r][m].from = eventQueue'[t][n].from
               PROVE  r = t /\ (m < n => eventQueue'[r][m].seq < eventQueue'[t][n].seq)
    BY DEF QueuedInOrder
  <2>1. PICK a \in Nat : /\ IsMsg(r, a) /\ eventQueue'[r][m] = eventQueue[r][a]
                         /\ a = IF r = q THEN m + 1 ELSE m
    BY <1>1
  <2>2. PICK b \in Nat : /\ IsMsg(t, b) /\ eventQueue'[t][n] = eventQueue[t][b]
                         /\ b = IF t = q THEN n + 1 ELSE n
    BY <1>1
  <2>3. r = t /\ (a < b => eventQueue[r][a].seq < eventQueue[t][b].seq)
    BY <2>1, <2>2 DEF OrderInv, QueuedInOrder
  <2>4. m < n => a < b
    BY <2>1, <2>2, <2>3
  <2> QED BY <2>1, <2>2, <2>3, <2>4
<1>10. NoneIsLost'
  <2> SUFFICES ASSUME NEW c \in Client, NEW s \in seen'[c] + 1 .. sent'[c]
               PROVE  \/ \E r \in Queue : \E n \in Nat :
                            /\ IsMsg(r, n)' /\ eventQueue'[r][n].from = c
                            /\ eventQueue'[r][n].seq = s
                      \/ \E k \in IoTask : Pushing(k)' /\ io'[k].client = c /\ s = sent'[c]
    BY <1>7 DEF NoneIsLost
  <2>1. s \in seen[c] + 1 .. sent[c] /\ seen'[c] < s
    BY <1>4, <1>7
  <2>2. CASE \E k \in IoTask : Pushing(k) /\ io[k].client = c /\ s = sent[c]
    BY <2>2 DEF Pushing
  <2>3. CASE \E r \in Queue : \E n \in Nat :
                IsMsg(r, n) /\ eventQueue[r][n].from = c /\ eventQueue[r][n].seq = s
    <3>1. PICK r \in Queue, n \in Nat :
                IsMsg(r, n) /\ eventQueue[r][n].from = c /\ eventQueue[r][n].seq = s
      BY <2>3
    <3>2. ~(r = q /\ n = 1)
      <4> SUFFICES ASSUME r = q, n = 1 PROVE FALSE
        OBVIOUS
      <4>1. seen'[c] = s
        BY <1>6, <3>1
      <4> QED BY <1>7, <2>1, <4>1
    <3>3. \E m \in Nat : IsMsg(r, m)' /\ eventQueue'[r][m] = eventQueue[r][n]
      BY <1>2, <3>1, <3>2
    <3> QED BY <3>1, <3>3
  <2> QED BY <2>1, <2>2, <2>3 DEF OrderInv, NoneIsLost
<1>11. PushedIsLast'
  <2> SUFFICES ASSUME NEW k \in IoTask, Pushing(k), NEW c, c = io[k].client
               PROVE  /\ io[k].evt.seq = sent[c] /\ seen'[c] < sent[c]
                      /\ conns[io[k].conn].client = c /\ io[k].queue = connectionMap[io[k].conn]
                      /\ \A r \in Queue : \A n \in Nat :
                            IsMsg(r, n)' /\ eventQueue'[r][n].from = c => eventQueue'[r][n].seq < sent[c]
    BY DEF PushedIsLast, Pushing
  <2>1. c \in Client
    BY DEF Pushing, TypeInv, IoInv, CallbackNamed
  <2>2. /\ io[k].evt.seq = sent[c] /\ seen[c] < sent[c]
        /\ conns[io[k].conn].client = c /\ io[k].queue = connectionMap[io[k].conn]
        /\ \A r \in Queue : \A n \in Nat :
              IsMsg(r, n) /\ eventQueue[r][n].from = c => eventQueue[r][n].seq < sent[c]
    BY DEF OrderInv, PushedIsLast
  <2>3. seen'[c] < sent[c]
    BY <1>6, <2>1, <2>2
  <2>4. \A r \in Queue : \A n \in Nat :
            IsMsg(r, n)' /\ eventQueue'[r][n].from = c => eventQueue'[r][n].seq < sent[c]
    BY <1>1, <2>2
  <2> QED BY <2>2, <2>3, <2>4
<1>12. QueuedAtSlot'
  <2> SUFFICES ASSUME NEW r \in Queue, NEW i \in Conn, NEW n \in Nat, IsMsg(r, n)',
                      conns[i].client = eventQueue'[r][n].from
               PROVE  r = connectionMap[i] /\ eventQueue'[r][n].conn = i
    BY DEF QueuedAtSlot, Open
  <2>1. PICK m \in Nat : IsMsg(r, m) /\ eventQueue'[r][n] = eventQueue[r][m]
    BY <1>1
  <2> QED BY <2>1 DEF OrderInv, QueuedAtSlot, Open
<1> QED BY <1>7, <1>8, <1>9, <1>10, <1>11, <1>12 DEF OrderInv

(* Two slots that read from one client are one; so are two tasks that      *)
(* push a message of it.                                                   *)
LEMMA PusherIsOne ==
    ASSUME TypeInv, PlaceInv, OrderInv, NEW k \in IoTask, Pushing(k), NEW i \in Conn,
           conns[i].client = io[k].client
    PROVE  /\ i = io[k].conn /\ IoTaskOf(i) = k /\ io[k].client \in Client
<1>1. io[k].client \in Client /\ io[k].conn \in Conn /\ IoTaskOf(io[k].conn) = k
  BY DEF Pushing, TypeInv, IoInv, IoType, CallbackNamed
<1>2. conns[io[k].conn].client = io[k].client
  BY DEF OrderInv, PushedIsLast
<1> QED BY <1>1, <1>2 DEF PlaceInv, Open

LEMMA OrderRead ==
    ASSUME TypeInv, PlaceInv, OrderInv, NEW k \in IoTask, NEW i \in Conn, OnRead(k, i)
    PROVE  OrderInv'
<1> DEFINE c == conns[i].client
<1>1. /\ IoTaskOf(i) = k /\ c \in Client /\ io[k].pc = "idle" /\ sent[c] \in Nat
      /\ sent' = [sent EXCEPT ![c] = @ + 1]
      /\ io'[k].pc = "push" /\ io'[k].conn = i /\ io'[k].client = c
      /\ io'[k].queue = connectionMap[i]
      /\ io'[k].evt.type = "ET_MSG" /\ io'[k].evt.seq = sent[c] + 1
      /\ \A j \in IoTask : j # k => io'[j] = io[j]
  BY ReadEffect
<1>2. UNCHANGED <<conns, connectionMap, eventQueue, seen>>
  BY DEF OnRead, connVars, muxVars, serverVars
<1>3. /\ sent'[c] = sent[c] + 1 /\ \A d \in Client : d # c => sent'[d] = sent[d]
      /\ \A d \in Client : sent[d] \in Nat /\ seen[d] \in Nat
      /\ \A d \in Client : sent'[d] \in Nat /\ sent'[d] >= sent[d]
  <2>1. \A d \in Client : sent[d] \in Nat /\ seen[d] \in Nat
    BY CountsTyped
  <2>2. sent'[c] = sent[c] + 1 /\ \A d \in Client : d # c => sent'[d] = sent[d]
    BY <1>1 DEF TypeInv, ListenerInv
  <2> QED BY <2>1, <2>2
<1>4. \A j \in IoTask : Pushing(j) => j # k /\ io[j].client # c /\ io[j].client \in Client
  <2> SUFFICES ASSUME NEW j \in IoTask, Pushing(j)
               PROVE  j # k /\ io[j].client # c /\ io[j].client \in Client
    OBVIOUS
  <2>1. j # k
    BY <1>1 DEF Pushing
  <2>2. io[j].client # c
    BY <1>1, <2>1, PusherIsOne
  <2>3. io[j].client \in Client
    BY DEF Pushing, TypeInv, IoInv, CallbackNamed
  <2> QED BY <2>1, <2>2, <2>3
<1>5. /\ Pushing(k)'
      /\ \A j \in IoTask : j # k => (Pushing(j)' <=> Pushing(j))
      /\ \A r \in Queue : \A n \in Nat : IsMsg(r, n)' <=> IsMsg(r, n)
  BY <1>1, <1>2 DEF Pushing, IsMsg
<1>6. \A r \in Queue : \A n \in Nat : IsMsg(r, n) =>
          /\ eventQueue[r][n].from \in Client /\ eventQueue[r][n].seq \in Nat
          /\ seen[eventQueue[r][n].from] < eventQueue[r][n].seq
          /\ eventQueue[r][n].seq <= sent[eventQueue[r][n].from]
  BY MsgTyped DEF OrderInv, QueuedAreUnseen
<1>7. QueuedAreUnseen'
  <2>1. \A r \in Queue : \A n \in Nat : IsMsg(r, n) =>
            eventQueue[r][n].seq <= sent'[eventQueue[r][n].from]
    BY <1>3, <1>6
  <2> QED BY <1>2, <1>5, <1>6, <2>1 DEF QueuedAreUnseen
<1>8. QueuedInOrder' /\ QueuedAtSlot'
  BY <1>2, <1>5 DEF OrderInv, QueuedInOrder, QueuedAtSlot, Open
<1>9. NoneIsLost'
  <2>1. \A d \in Client : seen[d] <= sent[d]
    BY DEF OrderInv, NoneIsLost
  <2>2. \A d \in Client : seen'[d] <= sent'[d]
    BY <1>2, <1>3, <2>1
  <2> SUFFICES ASSUME NEW d \in Client, NEW s \in seen'[d] + 1 .. sent'[d]
               PROVE  \/ \E r \in Queue : \E n \in Nat :
                            /\ IsMsg(r, n)' /\ eventQueue'[r][n].from = d
                            /\ eventQueue'[r][n].seq = s
                      \/ \E j \in IoTask : Pushing(j)' /\ io'[j].client = d /\ s = sent'[d]
    BY <2>2 DEF NoneIsLost
  <2>3. CASE d = c /\ s = sent'[c]
    BY <1>1, <1>5, <2>3
  <2>4. CASE ~(d = c /\ s = sent'[c])
    <3>1. s \in seen[d] + 1 .. sent[d]
      BY <1>2, <1>3, <2>4
    <3>2. CASE \E r \in Queue : \E n \in Nat :
                  IsMsg(r, n) /\ eventQueue[r][n].from = d /\ eventQueue[r][n].seq = s
      BY <1>2, <1>5, <3>2
    <3>3. CASE \E j \in IoTask : Pushing(j) /\ io[j].client = d /\ s = sent[d]
      BY <1>1, <1>3, <1>4, <1>5, <3>3
    <3> QED BY <3>1, <3>2, <3>3 DEF OrderInv, NoneIsLost
  <2> QED BY <2>3, <2>4
<1>10. PushedIsLast'
  <2>1. /\ io'[k].evt.seq = sent'[c] /\ seen'[c] < sent'[c]
        /\ \A r \in Queue : \A n \in Nat :
              IsMsg(r, n)' /\ eventQueue'[r][n].from = c => eventQueue'[r][n].seq < sent'[c]
    <3>1. seen[c] <= sent[c]
      BY <1>1 DEF OrderInv, NoneIsLost
    <3> QED BY <1>1, <1>2, <1>3, <1>5, <1>6, <3>1
  <2>2. conns'[io'[k].conn].client = c /\ io'[k].queue = connectionMap'[io'[k].conn]
    BY <1>1, <1>2
  <2>3. ASSUME NEW j \in IoTask, j # k, Pushing(j)
        PROVE  /\ io'[j].evt.seq = sent'[io'[j].client] /\ seen'[io'[j].client] < sent'[io'[j].client]
               /\ conns'[io'[j].conn].client = io'[j].client
               /\ io'[j].queue = connectionMap'[io'[j].conn]
               /\ \A r \in Queue : \A n \in Nat :
                     IsMsg(r, n)' /\ eventQueue'[r][n].from = io'[j].client
                     => eventQueue'[r][n].seq < sent'[io'[j].client]
    <3>1. io'[j] = io[j] /\ sent'[io[j].client] = sent[io[j].client]
      BY <1>1, <1>3, <1>4, <2>3
    <3> QED BY <1>2, <1>5, <2>3, <3>1 DEF OrderInv, PushedIsLast
  <2> QED BY <1>1, <1>5, <2>1, <2>2, <2>3 DEF PushedIsLast
<1> QED BY <1>7, <1>8, <1>9, <1>10 DEF OrderInv

(* A message enters its queue. *)
LEMMA OrderPushMsg ==
    ASSUME TypeInv, PlaceInv, OrderInv, NEW k \in IoTask, PushEvent(k),
           io[k].evt.type = "ET_MSG"
    PROVE  OrderInv'
<1> DEFINE c == io[k].client
           i == io[k].conn
           q == io[k].queue
           e == io[k].evt
           new == Len(eventQueue[q]) + 1
<1>1. /\ io[k].pc = "push" /\ io'[k].pc = "idle" /\ i \in Conn /\ c \in Client /\ q \in Queue
      /\ IoTaskOf(i) = k /\ e \in Event /\ e.conn = i /\ e.from = c /\ Push(q, e)
      /\ \A j \in IoTask : j # k => io'[j] = io[j]
  BY PushEffect
<1>2. UNCHANGED <<conns, connectionMap, seen, sent>>
  BY DEF PushEvent, muxVars, serverVars
<1>3. /\ \A r \in Queue : \A n \in Nat :
            IsMsg(r, n)' <=> IsMsg(r, n) \/ (r = q /\ n = new)
      /\ \A r \in Queue : \A n \in Nat : IsMsg(r, n) => eventQueue'[r][n] = eventQueue[r][n]
      /\ eventQueue'[q][new] = e /\ new \in Nat
      /\ \A n \in Nat : IsMsg(q, n) => n < new
  <2>1. /\ \A r \in Queue : \A n \in Nat :
              IsMsg(r, n)' <=> IsMsg(r, n) \/ (r = q /\ n = new /\ e.type = "ET_MSG")
        /\ \A r \in Queue : \A n \in Nat : IsMsg(r, n) => eventQueue'[r][n] = eventQueue[r][n]
        /\ eventQueue'[q][new] = e /\ Len(eventQueue[q]) \in Nat
        /\ \A n \in Nat : IsMsg(q, n) => n < new
    BY <1>1, PushMsgs
  <2> QED BY <2>1
<1>4. Pushing(k)
  BY <1>1 DEF Pushing
<1>5. /\ e.seq = sent[c] /\ seen[c] < sent[c] /\ conns[i].client = c /\ q = connectionMap[i]
      /\ \A r \in Queue : \A n \in Nat :
            IsMsg(r, n) /\ eventQueue[r][n].from = c => eventQueue[r][n].seq < sent[c]
  BY <1>4 DEF OrderInv, PushedIsLast
<1>6. \A r \in Queue : \A n \in Nat : IsMsg(r, n) /\ eventQueue[r][n].from = c => r = q
  BY <1>1, <1>5 DEF OrderInv, QueuedAtSlot, Open
<1>7. sent[c] \in Nat
  BY <1>1, CountsTyped
<1>8. QueuedAreUnseen'
  <2>1. \A r \in Queue : \A n \in Nat : IsMsg(r, n) =>
            /\ seen[eventQueue[r][n].from] < eventQueue[r][n].seq
            /\ eventQueue[r][n].seq <= sent[eventQueue[r][n].from]
    BY DEF OrderInv, QueuedAreUnseen
  <2>2. SUFFICES ASSUME NEW r \in Queue, NEW n \in Nat, IsMsg(r, n)'
                 PROVE  /\ seen'[eventQueue'[r][n].from] < eventQueue'[r][n].seq
                        /\ eventQueue'[r][n].seq <= sent'[eventQueue'[r][n].from]
    BY DEF QueuedAreUnseen
  <2>3. CASE IsMsg(r, n)
    BY <1>2, <1>3, <2>1, <2>3
  <2>4. CASE r = q /\ n = new
    BY <1>1, <1>2, <1>3, <1>5, <1>7, <2>4
  <2> QED BY <1>3, <2>2, <2>3, <2>4
<1>9. QueuedInOrder'
  <2> SUFFICES ASSUME NEW r \in Queue, NEW t \in Queue, NEW m \in Nat, NEW n \in Nat,
                      IsMsg(r, m)', IsMsg(t, n)',
                      eventQueue'[r][m].from = eventQueue'[t][n].from
               PROVE  r = t /\ (m < n => eventQueue'[r][m].seq < eventQueue'[t][n].seq)
    BY DEF QueuedInOrder
  <2>1. CASE IsMsg(r, m) /\ IsMsg(t, n)
    BY <1>3, <2>1 DEF OrderInv, QueuedInOrder
  <2>2. CASE r = q /\ m = new /\ IsMsg(t, n)
    <3>1. t = q /\ n < new
      BY <1>1, <1>3, <1>6, <2>2
    <3> QED BY <1>3, <2>2, <3>1
  <2>3. CASE IsMsg(r, m) /\ t = q /\ n = new
    <3>1. r = q /\ eventQueue'[r][m] = eventQueue[r][m] /\ eventQueue[r][m].from = c
      BY <1>1, <1>3, <1>6, <2>3
    <3> QED BY <1>3, <1>5, <2>3, <3>1
  <2>4. CASE r = q /\ m = new /\ t = q /\ n = new
    BY <1>3, <2>4
  <2> QED BY <1>3, <2>1, <2>2, <2>3, <2>4
<1>10. \A j \in IoTask : Pushing(j) /\ j # k =>
           /\ Pushing(j)' /\ io'[j] = io[j] /\ io[j].client # c
  <2> SUFFICES ASSUME NEW j \in IoTask, Pushing(j), j # k
               PROVE  Pushing(j)' /\ io'[j] = io[j] /\ io[j].client # c
    OBVIOUS
  <2>1. io'[j] = io[j] /\ Pushing(j)'
    BY <1>1 DEF Pushing
  <2>2. io[j].client # c
    BY <1>1, <1>5, PusherIsOne
  <2> QED BY <2>1, <2>2
<1>11. NoneIsLost'
  <2>1. \A d \in Client : seen[d] <= sent[d]
    BY DEF OrderInv, NoneIsLost
  <2> SUFFICES ASSUME NEW d \in Client, NEW s \in seen[d] + 1 .. sent[d]
               PROVE  \/ \E r \in Queue : \E n \in Nat :
                            /\ IsMsg(r, n)' /\ eventQueue'[r][n].from = d
                            /\ eventQueue'[r][n].seq = s
                      \/ \E j \in IoTask : Pushing(j)' /\ io'[j].client = d /\ s = sent[d]
    BY <1>2, <2>1 DEF NoneIsLost
  <2>2. CASE \E r \in Queue : \E n \in Nat :
                IsMsg(r, n) /\ eventQueue[r][n].from = d /\ eventQueue[r][n].seq = s
    BY <1>3, <2>2
  <2>3. ASSUME NEW j \in IoTask, Pushing(j), io[j].client = d, s = sent[d]
        PROVE  \/ \E r \in Queue : \E n \in Nat :
                     /\ IsMsg(r, n)' /\ eventQueue'[r][n].from = d
                     /\ eventQueue'[r][n].seq = s
               \/ \E h \in IoTask : Pushing(h)' /\ io'[h].client = d /\ s = sent[d]
    <3>1. CASE j = k
      BY <1>1, <1>3, <1>5, <2>3, <3>1
    <3>2. CASE j # k
      BY <1>10, <2>3, <3>2
    <3> QED BY <3>1, <3>2
  <2> QED BY <2>2, <2>3 DEF OrderInv, NoneIsLost
<1>12. PushedIsLast'
  <2>1. \A j \in IoTask : Pushing(j)' => j # k /\ Pushing(j)
    BY <1>1 DEF Pushing
  <2>2. ASSUME NEW j \in IoTask, Pushing(j)', NEW d, d = io'[j].client
        PROVE  /\ io'[j].evt.seq = sent'[d] /\ seen'[d] < sent'[d]
               /\ conns'[io'[j].conn].client = d /\ io'[j].queue = connectionMap'[io'[j].conn]
               /\ \A r \in Queue : \A n \in Nat :
                     IsMsg(r, n)' /\ eventQueue'[r][n].from = d => eventQueue'[r][n].seq < sent'[d]
    <3>1. j # k /\ Pushing(j) /\ io'[j] = io[j] /\ d # c /\ d = io[j].client
      BY <1>10, <2>1, <2>2
    <3>2. /\ io[j].evt.seq = sent[d] /\ seen[d] < sent[d]
          /\ conns[io[j].conn].client = d /\ io[j].queue = connectionMap[io[j].conn]
          /\ \A r \in Queue : \A n \in Nat :
                IsMsg(r, n) /\ eventQueue[r][n].from = d => eventQueue[r][n].seq < sent[d]
      BY <3>1 DEF OrderInv, PushedIsLast
    <3>3. \A r \in Queue : \A n \in Nat : IsMsg(r, n)' /\ eventQueue'[r][n].from = d =>
              IsMsg(r, n) /\ eventQueue[r][n].from = d /\ eventQueue'[r][n] = eventQueue[r][n]
      BY <1>1, <1>3, <3>1
    <3> QED BY <1>2, <3>1, <3>2, <3>3
  <2> QED BY <2>2 DEF PushedIsLast
<1>13. QueuedAtSlot'
  <2> SUFFICES ASSUME NEW r \in Queue, NEW j \in Conn, NEW n \in Nat, IsMsg(r, n)',
                      conns[j].client = eventQueue'[r][n].from
               PROVE  r = connectionMap[j] /\ eventQueue'[r][n].conn = j
    BY <1>2 DEF QueuedAtSlot, Open
  <2>1. CASE IsMsg(r, n)
    BY <1>3, <2>1 DEF OrderInv, QueuedAtSlot, Open
  <2>2. CASE r = q /\ n = new
    <3>1. j = i
      BY <1>1, <1>3, <1>4, <2>2, PusherIsOne
    <3> QED BY <1>1, <1>3, <1>5, <2>2, <3>1
  <2> QED BY <1>3, <2>1, <2>2
<1> QED BY <1>8, <1>9, <1>11, <1>12, <1>13 DEF OrderInv

(* ET_CONNECT or ET_DISCONNECT enters its queue. *)
LEMMA OrderPushOther ==
    ASSUME TypeInv, PlaceInv, OrderInv, NEW k \in IoTask, PushEvent(k) \/ ReadStartFails(k),
           io[k].evt.type # "ET_MSG"
    PROVE  OrderInv'
<1> DEFINE c == io[k].client
           i == io[k].conn
<1>1. /\ io[k].pc = "push" /\ io'[k].pc = "idle" /\ i \in Conn /\ c \in Client
      /\ IoTaskOf(i) = k /\ io[k].queue \in Queue /\ io[k].evt \in Event
      /\ Push(io[k].queue, io[k].evt)
      /\ \A j \in IoTask : j # k => io'[j] = io[j]
      /\ \A j \in Conn : j # i => conns'[j] = conns[j]
      /\ conns'[i].client = IF PushEvent(k) /\ io[k].evt.type = "ET_CONNECT"
                            THEN c ELSE conns[i].client
  BY PushEffect
<1>2. UNCHANGED <<connectionMap, seen, sent>>
  BY DEF PushEvent, ReadStartFails, muxVars, serverVars
<1>3. /\ \A r \in Queue : \A n \in Nat : IsMsg(r, n)' <=> IsMsg(r, n)
      /\ \A r \in Queue : \A n \in Nat : IsMsg(r, n) => eventQueue'[r][n] = eventQueue[r][n]
  BY <1>1, PushMsgs
<1>4. \A j \in IoTask : Pushing(j)' <=> Pushing(j)
  BY <1>1 DEF Pushing
<1>5. \A j \in IoTask : Pushing(j) => io'[j] = io[j] /\ io[j].conn \in Conn /\ io[j].conn # i
  BY <1>1 DEF Pushing, TypeInv, IoInv, IoType, CallbackNamed
<1>6. \A j \in Conn, d \in Client : Open(j, d)' => sent[d] = 0 \/ Open(j, d)
  <2>1. io[k].evt.type = "ET_CONNECT" => sent[c] = 0
    BY <1>1 DEF PlaceInv, Opening, Connecting
  <2> QED BY <1>1, <2>1 DEF Open
<1> QED BY <1>1, <1>2, <1>3, <1>4, <1>5, <1>6, OrderKept

(* What touches neither a message nor the slot of one. *)
LEMMA OrderUnchanged ==
    ASSUME TypeInv, OrderInv, UNCHANGED <<seen, sent, eventQueue, connectionMap>>,
           \A k \in IoTask : Pushing(k)' <=> Pushing(k),
           \A k \in IoTask : Pushing(k) =>
               io'[k] = io[k] /\ conns'[io[k].conn].client = conns[io[k].conn].client,
           \A i \in Conn : conns'[i].client \in {conns[i].client, NoClient}
    PROVE  OrderInv'
<1>1. \A r \in Queue : \A n \in Nat : IsMsg(r, n)' <=> IsMsg(r, n)
  BY DEF IsMsg
<1>2. \A i \in Conn, c \in Client : Open(i, c)' => Open(i, c)
  BY ServerNumbers DEF Open
<1> QED BY <1>1, <1>2, OrderKept

(* Before the server listens, no client has an id. *)
NoneAccepted == acceptor.pc = "start" => nextConnectionId = 0

LEMMA NextAccepted == TypeInv /\ NoneAccepted /\ [Next]_vars => NoneAccepted'
<1> SUFFICES ASSUME TypeInv, NoneAccepted, [Next]_vars PROVE NoneAccepted'
  OBVIOUS
<1>1. acceptor \in [pc : {"start", "scan", "pass", "failed", "stopped"}, conn : Conn]
  BY DEF TypeInv, StartInv
<1>2. CASE StartStep
  BY <1>1, <1>2 DEF StartStep, AcceptPipe, AcceptPipeFails, ListenFails, HandlePipeConnect,
                    PipeConnectFails, connVars, NoneAccepted
<1>3. CASE AcceptStep
  BY <1>1, <1>3 DEF AcceptStep, GrabConnectionData, AcceptFails, PassConnection, PassFails,
                    NoneAccepted
<1>4. ASSUME NEW k \in IoTask,
             \/ HandlePipeRead(k) \/ PipeReadFails(k) \/ ReadStartFails(k) \/ IoFinish(k)
             \/ \E i \in Conn : OnRead(k, i) \/ OnReadError(k, i)
             \/ \E write \in asyncWrites : AsyncWrite(k, write)
      PROVE  UNCHANGED <<acceptor, nextConnectionId>>
  BY <1>4 DEF HandlePipeRead, PipeReadFails, ReadStartFails, IoFinish, AssignQueueId,
              OnDisconnect, PushEvent, OnRead, OnReadError, AsyncWrite, connVars
<1>5. ASSUME NEW q \in Queue, WorkerStep(q)
      PROVE  UNCHANGED <<acceptor, nextConnectionId>>
  BY <1>5 DEF WorkerStep, StartDrain, EndDrain, OnConnectCheck, CreateSession, connVars,
              CreateSessionFails, OnDisconnectCheck, DeleteSession, OnMsg, OnStop
<1>6. CASE StopServer \/ StopStep
  BY <1>1, <1>6 DEF StopServer, StopStep, StopAcceptor, StopIoTask, PushStop, connVars, NoneAccepted
<1>7. CASE UNCHANGED vars
  BY <1>7 DEF vars, NoneAccepted
<1> QED BY <1>2, <1>3, <1>4, <1>5, <1>6, <1>7 DEF Next, NoneAccepted

(* So no task pushes a message when uv_listen fails. *)
LEMMA OrderStart ==
    ASSUME TypeInv, PlaceInv, OrderInv, NoneAccepted, StartStep
    PROVE  OrderInv'
<1>1. CASE ListenFails
  <2>1. /\ io' = [k \in IoTask |-> [io[k] EXCEPT !.pc = "stopped"]] /\ acceptor.pc = "start"
        /\ UNCHANGED <<seen, sent, eventQueue, connectionMap, conns>>
    BY <1>1 DEF ListenFails, muxVars, serverVars
  <2>2. \A k \in IoTask : ~Pushing(k)'
    <3>1. \A k \in IoTask : io'[k].pc = "stopped"
      BY <2>1 DEF TypeInv, IoInv, IoType
    <3> QED BY <3>1 DEF Pushing
  <2>3. \A k \in IoTask : ~Pushing(k)
    <3> SUFFICES ASSUME NEW k \in IoTask, Pushing(k) PROVE FALSE
      OBVIOUS
    <3>1. io[k].client \in Client /\ io[k].conn \in Conn
      BY DEF Pushing, TypeInv, IoInv, IoType, CallbackNamed
    <3>2. Open(io[k].conn, io[k].client)
      BY DEF OrderInv, PushedIsLast, Open
    <3>3. io[k].client >= nextConnectionId
      BY <2>1, <3>1, ServerBoundAssumption DEF NoneAccepted, Client
    <3> QED BY <3>1, <3>2, <3>3 DEF PlaceInv, Waiting
  <2> QED BY <2>1, <2>2, <2>3, OrderUnchanged
<1>2. CASE ~ListenFails
  <2>1. UNCHANGED <<seen, sent, eventQueue, connectionMap, conns, io>>
    BY <1>2 DEF StartStep, AcceptPipe, AcceptPipeFails, HandlePipeConnect, PipeConnectFails,
                muxVars, serverVars, connVars
  <2> QED BY <2>1, OrderUnchanged DEF Pushing
<1> QED BY <1>1, <1>2

(* The accept loop gives slots away and takes them back. *)
LEMMA AcceptEffect ==
    ASSUME TypeInv, AcceptStep
    PROVE  \A i \in Conn : conns'[i].client = conns[i].client
<1>1. acceptor.conn \in Conn
  BY DEF TypeInv, StartInv
<1>2. \/ UNCHANGED conns
      \/ \E used \in BOOLEAN : conns' = [conns EXCEPT ![acceptor.conn].used = used]
      \/ conns' = [conns EXCEPT ![acceptor.conn].used = TRUE,
                                ![acceptor.conn].id = nextConnectionId]
  BY DEF AcceptStep, GrabConnectionData, AcceptFails, PassConnection, PassFails
<1>3. CASE \E used \in BOOLEAN : conns' = [conns EXCEPT ![acceptor.conn].used = used]
  BY <1>1, <1>3 DEF TypeInv, ConnInv, ConnType
<1>4. CASE conns' = [conns EXCEPT ![acceptor.conn].used = TRUE,
                                  ![acceptor.conn].id = nextConnectionId]
  BY <1>1, <1>4 DEF TypeInv, ConnInv, ConnType
<1> QED BY <1>2, <1>3, <1>4

LEMMA OrderAccept ==
    ASSUME TypeInv, OrderInv, AcceptStep
    PROVE  OrderInv'
<1>1. UNCHANGED <<seen, sent, eventQueue, connectionMap, io>>
  BY DEF AcceptStep, GrabConnectionData, AcceptFails, PassConnection, PassFails, muxVars, serverVars
<1>2. acceptor.conn \in Conn /\ \A k \in IoTask : io[k].conn \in Conn
  BY DEF TypeInv, StartInv, IoInv, IoType
<1>3. \A i \in Conn : conns'[i].client = conns[i].client
  BY AcceptEffect
<1> QED BY <1>1, <1>2, <1>3, OrderUnchanged DEF Pushing

LEMMA OrderCallback ==
    ASSUME TypeInv, OrderInv, NEW k \in IoTask,
           \/ HandlePipeRead(k) \/ PipeReadFails(k) \/ OnDisconnect(k)
           \/ \E i \in Conn : OnReadError(k, i)
    PROVE  OrderInv'
<1>1. UNCHANGED <<seen, sent, eventQueue, connectionMap>>
  BY DEF HandlePipeRead, PipeReadFails, OnDisconnect, OnReadError, muxVars, serverVars
<1>2. /\ \A j \in IoTask : j # k => io'[j] = io[j]
      /\ \A i \in Conn : /\ conns'[i].client \in {conns[i].client, NoClient}
                         /\ IoTaskOf(i) # k => conns'[i] = conns[i]
      /\ ~Pushing(k) /\ ~Pushing(k)'
  <2>1. CASE HandlePipeRead(k)
    <3>1. ~Pushing(k) /\ ~Pushing(k)'
      BY <2>1, PipeReadEffect DEF Pushing
    <3> QED BY <2>1, <3>1, PipeReadEffect
  <2>2. CASE PipeReadFails(k)
    <3>1. UNCHANGED io /\ io[k].pc = "idle"
      BY <2>2 DEF PipeReadFails
    <3>2. ~Pushing(k) /\ ~Pushing(k)'
      BY <3>1 DEF Pushing
    <3> QED BY <2>2, <3>1, <3>2, PipeReadFailsEffect
  <2>3. CASE OnDisconnect(k)
    <3>1. UNCHANGED conns
      BY <2>3 DEF OnDisconnect, connVars
    <3>2. ~Pushing(k) /\ ~Pushing(k)'
      BY <2>3, DisconnectEffect DEF Pushing
    <3> QED BY <2>3, <3>1, <3>2, DisconnectEffect
  <2>4. ASSUME NEW i \in Conn, OnReadError(k, i)
        PROVE  /\ \A j \in IoTask : j # k => io'[j] = io[j]
               /\ \A j \in Conn : /\ conns'[j].client \in {conns[j].client, NoClient}
                                  /\ IoTaskOf(j) # k => conns'[j] = conns[j]
               /\ ~Pushing(k) /\ ~Pushing(k)'
    <3>1. ~Pushing(k) /\ ~Pushing(k)'
      BY <2>4, ReadErrorEffect DEF Pushing
    <3> QED BY <2>4, <3>1, ReadErrorEffect
  <2> QED BY <2>1, <2>2, <2>3, <2>4
<1>3. \A j \in IoTask : Pushing(j)' <=> Pushing(j)
  BY <1>2 DEF Pushing
<1>4. \A j \in IoTask : Pushing(j) =>
          io'[j] = io[j] /\ conns'[io[j].conn].client = conns[io[j].conn].client
  <2>1. \A j \in IoTask : Pushing(j) => io[j].conn \in Conn /\ IoTaskOf(io[j].conn) = j
    BY DEF Pushing, TypeInv, IoInv, IoType, CallbackNamed
  <2> QED BY <1>2, <2>1
<1> QED BY <1>1, <1>2, <1>3, <1>4, OrderUnchanged

LEMMA OrderAssign ==
    ASSUME TypeInv, OrderInv, NEW k \in IoTask, AssignQueueId(k)
    PROVE  OrderInv'
<1>1. /\ Connecting(k) /\ io'[k].pc = "push" /\ io'[k].evt.type = "ET_CONNECT"
      /\ io[k].conn \in Conn /\ IoTaskOf(io[k].conn) = k /\ conns[io[k].conn].client = NoClient
      /\ \A j \in IoTask : j # k => io'[j] = io[j]
      /\ \A i \in Conn : i # io[k].conn => connectionMap'[i] = connectionMap[i]
  BY AssignEffect
<1>2. UNCHANGED <<seen, sent, eventQueue, conns>>
  BY DEF AssignQueueId, connVars, serverVars
<1>3. \A r \in Queue : \A n \in Nat : IsMsg(r, n)' <=> IsMsg(r, n)
  BY <1>2 DEF IsMsg
<1>4. \A j \in IoTask : Pushing(j)' <=> Pushing(j)
  BY <1>1 DEF Pushing, Connecting
<1>5. \A j \in IoTask : Pushing(j) => j # k /\ io[j].conn \in Conn /\ io[j].conn # io[k].conn
  BY <1>1 DEF Pushing, Connecting, TypeInv, IoInv, IoType, CallbackNamed
<1>6. \A i \in Conn, c \in Client : Open(i, c)' => Open(i, c) /\ i # io[k].conn
  BY <1>1, <1>2, ServerNumbers DEF Open
<1> QED BY <1>1, <1>2, <1>3, <1>4, <1>5, <1>6, OrderKept

LEMMA OrderStop ==
    ASSUME TypeInv, OrderInv, StopServer \/ StopStep \/ UNCHANGED vars
    PROVE  OrderInv'
<1>1. CASE PushStop
  <2>1. /\ stopsSent \in Queue /\ Push(stopsSent, StopEvent(stopsSent))
        /\ UNCHANGED <<seen, sent, connectionMap, conns, io>>
    BY <1>1, SizeAssumption
    DEF PushStop, TypeInv, StopTypes, Queue, connVars, muxVars, serverVars
  <2>2. StopEvent(stopsSent) \in Event /\ StopEvent(stopsSent).type # "ET_MSG"
    BY <2>1, ServerRecords DEF StopEvent
  <2>3. /\ \A r \in Queue : \A n \in Nat : IsMsg(r, n)' <=> IsMsg(r, n)
        /\ \A r \in Queue : \A n \in Nat : IsMsg(r, n) => eventQueue'[r][n] = eventQueue[r][n]
    BY <2>1, <2>2, PushMsgs
  <2> QED BY <2>1, <2>3, OrderKept DEF Pushing, Open
<1>2. ASSUME NEW k \in IoTask, StopIoTask(k)
      PROVE  OrderInv'
  <2>1. /\ io' = [io EXCEPT ![k].pc = "stopped"] /\ io[k].pc = "idle"
        /\ UNCHANGED <<seen, sent, eventQueue, connectionMap, conns>>
    BY <1>2 DEF StopIoTask, connVars, muxVars, serverVars
  <2>2. io'[k].pc = "stopped" /\ \A j \in IoTask : j # k => io'[j] = io[j]
    BY <2>1 DEF TypeInv, IoInv, IoType
  <2>3. /\ \A j \in IoTask : Pushing(j)' <=> Pushing(j)
        /\ \A j \in IoTask : Pushing(j) => io'[j] = io[j]
    BY <2>1, <2>2 DEF Pushing
  <2> QED BY <2>1, <2>3, OrderUnchanged
<1>3. CASE StopServer \/ StopAcceptor \/ UNCHANGED vars
  <2>1. UNCHANGED <<seen, sent, eventQueue, connectionMap, conns, io>>
    BY <1>3 DEF StopServer, StopAcceptor, vars, connVars, muxVars, serverVars
  <2> QED BY <2>1, OrderUnchanged DEF Pushing
<1> QED BY <1>1, <1>2, <1>3 DEF StopStep

(* A worker either leaves the queues alone or handles the oldest event. *)
LEMMA OrderWorker ==
    ASSUME TypeInv, OrderInv, NEW q \in Queue, WorkerStep(q)
    PROVE  OrderInv' /\ \A c \in Client : seen'[c] = seen[c] \/ seen'[c] = seen[c] + 1
<1>1. UNCHANGED <<sent, io, conns, connectionMap>>
  BY DEF WorkerStep, StartDrain, EndDrain, OnConnectCheck, CreateSession, connVars, muxVars,
         CreateSessionFails, OnDisconnectCheck, DeleteSession, OnMsg, OnStop
<1>2. CASE OnMsg(q)
  <2>1. /\ eventQueue[q] # <<>> /\ Oldest(q).type = "ET_MSG" /\ Pop(q, FALSE)
        /\ seen' = [seen EXCEPT ![Oldest(q).from] = Oldest(q).seq]
    BY <1>2 DEF OnMsg, Handles
  <2> QED BY <1>1, <2>1, OrderPopped
<1>3. CASE ~OnMsg(q)
  <2>1. UNCHANGED seen
    BY <1>3 DEF WorkerStep, StartDrain, EndDrain, OnConnectCheck, CreateSession, serverVars,
                CreateSessionFails, OnDisconnectCheck, DeleteSession, OnStop
  <2>2. CASE UNCHANGED eventQueue
    BY <1>1, <2>1, <2>2, OrderUnchanged DEF Pushing
  <2>3. CASE ~UNCHANGED eventQueue
    <3>1. /\ eventQueue[q] # <<>> /\ Oldest(q).type # "ET_MSG"
          /\ \E done \in BOOLEAN : Pop(q, done)
      BY <1>3, <2>3 DEF WorkerStep, StartDrain, EndDrain, OnConnectCheck, CreateSession, Handles,
                CreateSessionFails, OnDisconnectCheck, DeleteSession, OnStop, TypeInv, QueueInv
    <3> QED BY <1>1, <2>1, <3>1, OrderPopped
  <2> QED BY <2>2, <2>3
<1> QED BY <1>2, <1>3

LEMMA InitOrder == Init => OrderInv /\ NoneAccepted
<1> SUFFICES ASSUME Init PROVE OrderInv /\ NoneAccepted
  OBVIOUS
<1>1. /\ \A q \in Queue : \A n \in Nat : ~IsMsg(q, n)
      /\ \A k \in IoTask : ~Pushing(k)
      /\ \A c \in Client : seen[c] = 0 /\ sent[c] = 0
  BY ServerRecords DEF Init, IsMsg, Pushing
<1> QED BY <1>1 DEF Init, OrderInv, QueuedAreUnseen, QueuedInOrder, NoneIsLost, PushedIsLast,
                QueuedAtSlot, NoneAccepted

LEMMA NextOrder ==
    TypeInv /\ PlaceInv /\ NoneAccepted /\ OrderInv /\ [Next]_vars =>
        OrderInv' /\ \A c \in Client : seen'[c] = seen[c] \/ seen'[c] = seen[c] + 1
<1> SUFFICES ASSUME TypeInv, PlaceInv, NoneAccepted, OrderInv, [Next]_vars
             PROVE  OrderInv' /\ \A c \in Client : seen'[c] = seen[c] \/ seen'[c] = seen[c] + 1
  OBVIOUS
<1>1. CASE StartStep
  <2>1. UNCHANGED seen
    BY <1>1 DEF StartStep, AcceptPipe, AcceptPipeFails, ListenFails, HandlePipeConnect,
                PipeConnectFails, serverVars
  <2> QED BY <1>1, <2>1, OrderStart
<1>2. CASE AcceptStep
  <2>1. UNCHANGED seen
    BY <1>2 DEF AcceptStep, GrabConnectionData, AcceptFails, PassConnection, PassFails, serverVars
  <2> QED BY <1>2, <2>1, OrderAccept
<1>3. ASSUME NEW k \in IoTask,
             \/ HandlePipeRead(k) \/ PipeReadFails(k) \/ ReadStartFails(k) \/ IoFinish(k)
             \/ \E i \in Conn : OnRead(k, i) \/ OnReadError(k, i)
             \/ \E write \in asyncWrites : AsyncWrite(k, write)
      PROVE  OrderInv' /\ UNCHANGED seen
  <2>1. UNCHANGED seen
    BY <1>3 DEF HandlePipeRead, PipeReadFails, ReadStartFails, IoFinish, AssignQueueId,
                OnDisconnect, PushEvent, OnRead, OnReadError, AsyncWrite, serverVars
  <2>2. ASSUME NEW write \in asyncWrites, AsyncWrite(k, write) PROVE OrderInv'
    <3>1. UNCHANGED <<seen, sent, eventQueue, connectionMap, conns, io>>
      BY <2>2 DEF AsyncWrite, connVars, muxVars
    <3> QED BY <3>1, OrderUnchanged DEF Pushing
  <2>3. CASE PushEvent(k) \/ ReadStartFails(k)
    <3>1. ReadStartFails(k) => io[k].evt.type # "ET_MSG"
      BY DEF ReadStartFails
    <3> QED BY <2>1, <2>3, <3>1, OrderPushMsg, OrderPushOther
  <2> QED BY <1>3, <2>1, <2>2, <2>3, OrderCallback, OrderAssign, OrderRead DEF IoFinish
<1>4. ASSUME NEW q \in Queue, WorkerStep(q)
      PROVE  OrderInv' /\ \A c \in Client : seen'[c] = seen[c] \/ seen'[c] = seen[c] + 1
  BY <1>4, OrderWorker
<1>5. CASE StopServer \/ StopStep \/ UNCHANGED vars
  <2>1. UNCHANGED seen
    BY <1>5 DEF StopServer, StopStep, StopAcceptor, StopIoTask, PushStop, vars, serverVars
  <2> QED BY <1>5, <2>1, OrderStop
<1> QED BY <1>1, <1>2, <1>3, <1>4, <1>5 DEF Next

(***************************************************************************)
(* The messages of a client are dispatched in the order they were read,    *)
(* none twice and none left out, for any number of I/O tasks, queues and   *)
(* slots and whatever fails.  A slot is mapped to its queue before it is   *)
(* read from and not again as long as the connection is open, so all       *)
(* messages of a client are in one queue, and that queue is in order.      *)
(***************************************************************************)
THEOREM DispatchedInOrder == Spec => DispatchInOrder
<1> DEFINE Inv == TypeInv /\ PlaceInv /\ NoneAccepted /\ OrderInv
<1>1. Init => Inv
  BY InitTypes, InitPlaces, InitOrder
<1>2. Inv /\ [Next]_vars => Inv'
  BY NextTypes, NextPlaces, NextAccepted, NextOrder
<1>3. Inv /\ [Next]_vars =>
          [\A c \in Client : seen'[c] = seen[c] \/ seen'[c] = seen[c] + 1]_vars
  BY NextOrder
<1> QED BY <1>1, <1>2, <1>3, PTL DEF Spec, DispatchInOrder

LEMMA OrderAlways == Spec => [](TypeInv /\ PlaceInv /\ OrderInv)
<1> DEFINE Inv == TypeInv /\ PlaceInv /\ NoneAccepted /\ OrderInv
<1>1. Init => Inv
  BY InitTypes, InitPlaces, InitOrder
<1>2. Inv /\ [Next]_vars => Inv'
  BY NextTypes, NextPlaces, NextAccepted, NextOrder
<1> QED BY <1>1, <1>2, PTL DEF Spec

-------------------------------------------------------------------------------
(* The stop. *)

LEMMA InitStop == Init => StopInv
<1> SUFFICES ASSUME Init PROVE StopInv
  OBVIOUS
<1>1. \A q \in Queue : ~worker[q].done /\ worker[q].pc = "wait" /\ Len(eventQueue[q]) = 0
  BY DEF Init
<1> QED BY <1>1 DEF Init, StopInv

(* As long as a task is not stopped, no ET_STOP was sent. *)
LEMMA NoStopYet ==
    ASSUME TypeInv, StopInv, NEW k \in IoTask, io[k].pc # "stopped"
    PROVE  /\ runState # "RS_IDLE" /\ stopsSent = 0
           /\ \A q \in Queue : \A n \in 1 .. Len(eventQueue[q]) : eventQueue[q][n].type # "ET_STOP"
           /\ \A q \in Queue : ~worker[q].done /\ worker[q].pc # "exited"
<1>1. runState # "RS_IDLE" /\ ~(stopsSent > 0)
  BY DEF StopInv
<1>2. stopsSent = 0 /\ \A q \in Queue : ~(q < stopsSent)
  BY <1>1, SizeAssumption DEF TypeInv, StopTypes, Queue
<1> QED BY <1>1, <1>2 DEF StopInv

LEMMA StopInvKept ==
    ASSUME StopInv, UNCHANGED <<stopVars, eventQueue, worker>>,
           \A k \in IoTask : io[k].pc = "stopped" => io'[k].pc = "stopped"
    PROVE  StopInv'
  BY DEF StopInv, stopVars

(* A step of a task that is not stopped. *)
LEMMA StopInvIo ==
    ASSUME TypeInv, StopInv, NEW k \in IoTask,
           \/ HandlePipeRead(k) \/ PipeReadFails(k) \/ ReadStartFails(k) \/ IoFinish(k)
           \/ \E i \in Conn : OnRead(k, i) \/ OnReadError(k, i)
           \/ \E write \in asyncWrites : AsyncWrite(k, write)
    PROVE  StopInv'
<1>1. io[k].pc # "stopped" /\ UNCHANGED <<stopVars, worker>>
  BY DEF HandlePipeRead, PipeReadFails, ReadStartFails, IoFinish, AssignQueueId,
         OnDisconnect, PushEvent, OnRead, OnReadError, AsyncWrite
<1>2. /\ runState # "RS_IDLE" /\ stopsSent = 0
      /\ \A q \in Queue : \A n \in 1 .. Len(eventQueue[q]) : eventQueue[q][n].type # "ET_STOP"
      /\ \A q \in Queue : ~worker[q].done /\ worker[q].pc # "exited"
  BY <1>1, NoStopYet
<1>3. \A q \in Queue : \A n \in 1 .. Len(eventQueue'[q]) : eventQueue'[q][n].type # "ET_STOP"
  <2>1. CASE PushEvent(k) \/ ReadStartFails(k)
    <3> DEFINE q == io[k].queue
               evt == io[k].evt
    <3>1. q \in Queue /\ evt \in Event /\ Push(q, evt) /\ io[k].pc = "push"
      BY <2>1, PushEffect
    <3>2. evt.type # "ET_STOP"
      BY <3>1 DEF TypeInv, IoInv, CallbackNamed
    <3>3. /\ eventQueue[q] \in Seq(Event) /\ eventQueue'[q] = Append(eventQueue[q], evt)
          /\ \A r \in Queue : r # q => eventQueue'[r] = eventQueue[r]
      BY <3>1 DEF Push, TypeInv, QueueInv
    <3>4. /\ Len(eventQueue'[q]) = Len(eventQueue[q]) + 1 /\ Len(eventQueue[q]) \in Nat
          /\ \A n \in 1 .. Len(eventQueue[q]) : eventQueue'[q][n] = eventQueue[q][n]
          /\ eventQueue'[q][Len(eventQueue[q]) + 1] = evt
      <4>1. /\ Len(Append(eventQueue[q], evt)) = Len(eventQueue[q]) + 1
            /\ Len(eventQueue[q]) \in Nat
            /\ \A n \in 1 .. Len(eventQueue[q]) : Append(eventQueue[q], evt)[n] = eventQueue[q][n]
            /\ Append(eventQueue[q], evt)[Len(eventQueue[q]) + 1] = evt
        BY <3>1, <3>3, AppendElements
      <4> QED BY <3>3, <4>1
    <3>5. \A n \in 1 .. Len(eventQueue'[q]) : eventQueue'[q][n].type # "ET_STOP"
      <4> SUFFICES ASSUME NEW n \in 1 .. Len(eventQueue'[q])
                   PROVE  eventQueue'[q][n].type # "ET_STOP"
        OBVIOUS
      <4>1. n \in 1 .. Len(eventQueue[q]) \/ n = Len(eventQueue[q]) + 1
        BY <3>4
      <4>2. CASE n = Len(eventQueue[q]) + 1
        BY <3>2, <3>4, <4>2
      <4>3. CASE n \in 1 .. Len(eventQueue[q])
        BY <1>2, <3>1, <3>4, <4>3
      <4> QED BY <4>1, <4>2, <4>3
    <3> QED BY <1>2, <3>3, <3>5
  <2>2. CASE UNCHANGED eventQueue
    BY <1>2, <2>2
  <2> QED BY <2>1, <2>2 DEF HandlePipeRead, PipeReadFails, IoFinish, AssignQueueId,
                            OnDisconnect, OnRead, OnReadError, AsyncWrite
<1> QED BY <1>1, <1>2, <1>3 DEF StopInv, stopVars

LEMMA StopInvWorker ==
    ASSUME TypeInv, StopInv, NEW q \in Queue, WorkerStep(q)
    PROVE  StopInv'
<1>1. UNCHANGED <<stopVars, io>>
  BY DEF WorkerStep, StartDrain, EndDrain, OnConnectCheck, CreateSession,
         CreateSessionFails, OnDisconnectCheck, DeleteSession, OnMsg, OnStop
<1>2. ASSUME NEW done \in BOOLEAN, Pop(q, done), eventQueue[q] # <<>>,
             done => Oldest(q).type = "ET_STOP"
      PROVE  StopInv'
  <2>1. /\ eventQueue[q] \in Seq(Event) /\ eventQueue'[q] = Tail(eventQueue[q])
        /\ \A r \in Queue : r # q => eventQueue'[r] = eventQueue[r]
    BY <1>2, QueuePopped DEF TypeInv
  <2>2. /\ Head(eventQueue[q]) = eventQueue[q][1] /\ Len(eventQueue[q]) \in Nat \ {0}
        /\ Len(Tail(eventQueue[q])) = Len(eventQueue[q]) - 1
        /\ Tail(eventQueue[q]) \in Seq(Event)
        /\ \A n \in 1 .. Len(eventQueue[q]) - 1 : Tail(eventQueue[q])[n] = eventQueue[q][n + 1]
    BY <1>2, <2>1, TailElements
  <2>3. \A n \in 1 .. Len(eventQueue'[q]) : eventQueue'[q][n].type = "ET_STOP" =>
            q < stopsSent /\ n = Len(eventQueue'[q])
    <3> SUFFICES ASSUME NEW n \in 1 .. Len(eventQueue'[q]), eventQueue'[q][n].type = "ET_STOP"
                 PROVE  q < stopsSent /\ n = Len(eventQueue'[q])
      OBVIOUS
    <3>1. n + 1 \in 1 .. Len(eventQueue[q]) /\ eventQueue[q][n + 1].type = "ET_STOP"
      BY <2>1, <2>2
    <3>2. q < stopsSent /\ n + 1 = Len(eventQueue[q])
      BY <3>1 DEF StopInv
    <3> QED BY <2>1, <2>2, <3>2
  <2>4. /\ worker'[q].done = done /\ worker'[q].pc = "drain"
        /\ \A r \in Queue : r # q => worker'[r] = worker[r]
    BY <1>2 DEF Pop, TypeInv, QueueInv
  <2>5. done => q < stopsSent /\ eventQueue'[q] = <<>>
    <3> SUFFICES ASSUME done PROVE q < stopsSent /\ eventQueue'[q] = <<>>
      OBVIOUS
    <3>1. 1 \in 1 .. Len(eventQueue[q]) /\ eventQueue[q][1].type = "ET_STOP"
      BY <1>2, <2>2 DEF Oldest
    <3>2. q < stopsSent /\ Len(eventQueue[q]) = 1
      BY <3>1 DEF StopInv
    <3>3. Len(Tail(eventQueue[q])) = 0
      BY <2>2, <3>2
    <3>4. Tail(eventQueue[q]) = <<>>
      BY <2>2, <3>3, NoElements
    <3> QED BY <2>1, <3>2, <3>4
  <2> QED BY <1>1, <2>1, <2>3, <2>4, <2>5 DEF StopInv, stopVars
<1>3. ASSUME UNCHANGED eventQueue, worker'[q].done = worker[q].done,
             worker'[q].pc = "exited" => worker[q].done,
             \A r \in Queue : r # q => worker'[r] = worker[r]
      PROVE  StopInv'
  BY <1>1, <1>3 DEF StopInv, stopVars
<1>4. CASE StartDrain(q) \/ EndDrain(q)
  <2>1. /\ UNCHANGED eventQueue /\ worker'[q].done = worker[q].done
        /\ worker'[q].pc = "exited" => worker[q].done
        /\ \A r \in Queue : r # q => worker'[r] = worker[r]
    BY <1>4 DEF StartDrain, EndDrain, TypeInv, QueueInv, WorkerType
  <2> QED BY <1>3, <2>1
<1>5. CASE OnConnectCheck(q) \/ OnDisconnectCheck(q)
  <2>1. CASE Pop(q, FALSE)
    BY <1>2, <1>5, <2>1 DEF OnConnectCheck, OnDisconnectCheck, Handles
  <2>2. CASE ~Pop(q, FALSE)
    <3>1. /\ UNCHANGED eventQueue
          /\ \E pc \in {"create", "delete"} : worker' = [worker EXCEPT ![q].pc = pc]
      BY <1>5, <2>2 DEF OnConnectCheck, OnDisconnectCheck
    <3>2. /\ worker'[q].done = worker[q].done /\ worker'[q].pc # "exited"
          /\ \A r \in Queue : r # q => worker'[r] = worker[r]
      BY <3>1 DEF TypeInv, QueueInv, WorkerType
    <3> QED BY <1>3, <3>1, <3>2
  <2> QED BY <2>1, <2>2
<1>6. CASE CreateSession(q) \/ CreateSessionFails(q) \/ DeleteSession(q) \/ OnMsg(q)
  <2>1. Pop(q, FALSE) /\ eventQueue[q] # <<>>
    BY <1>6 DEF CreateSession, CreateSessionFails, DeleteSession, OnMsg, Handles, TypeInv, QueueInv
  <2> QED BY <1>2, <2>1
<1>7. CASE OnStop(q)
  BY <1>2, <1>7 DEF OnStop, Handles
<1> QED BY <1>4, <1>5, <1>6, <1>7 DEF WorkerStep

LEMMA StopInvStop ==
    ASSUME TypeInv, StopInv, StopServer \/ StopStep
    PROVE  StopInv'
<1>1. CASE StopServer
  <2>1. runState = "RS_RUNNING" /\ runState' = "RS_SHUTTING_DOWN"
        /\ UNCHANGED <<stopsSent, io, eventQueue, worker>>
    BY <1>1 DEF StopServer
  <2> QED BY <2>1 DEF StopInv
<1>2. CASE StopAcceptor
  BY <1>2, StopInvKept DEF StopAcceptor
<1>3. ASSUME NEW k \in IoTask, StopIoTask(k)
      PROVE  StopInv'
  <2>1. /\ io[k].pc = "idle" /\ io' = [io EXCEPT ![k].pc = "stopped"]
        /\ \A j \in IoTask : j < k => io[j].pc = "stopped"
        /\ runState' = IF k = IoConcurrency - 1 THEN "RS_IDLE" ELSE runState
        /\ UNCHANGED <<stopsSent, eventQueue, worker>>
    BY <1>3 DEF StopIoTask
  <2>2. /\ runState # "RS_IDLE" /\ stopsSent = 0
    BY <2>1, NoStopYet
  <2>3. io'[k].pc = "stopped" /\ \A j \in IoTask : j # k => io'[j] = io[j]
    BY <2>1 DEF TypeInv, IoInv, IoType
  <2>4. runState' = "RS_IDLE" => \A j \in IoTask : io'[j].pc = "stopped"
    <3>1. k = IoConcurrency - 1 => \A j \in IoTask : j = k \/ j < k
      BY SizeAssumption DEF IoTask
    <3> QED BY <2>1, <2>2, <2>3, <3>1
  <2> QED BY <2>1, <2>2, <2>4 DEF StopInv
<1>4. CASE PushStop
  <2> DEFINE q == stopsSent
  <2>1. /\ q \in Queue /\ Push(q, StopEvent(q)) /\ runState = "RS_IDLE" /\ stopsSent' = q + 1
        /\ UNCHANGED <<io, worker, runState>>
    BY <1>4, SizeAssumption DEF PushStop, TypeInv, StopTypes, Queue
  <2>2. StopEvent(q) \in Event
    BY <2>1, ServerRecords
  <2>3. /\ eventQueue[q] \in Seq(Event) /\ eventQueue'[q] = Append(eventQueue[q], StopEvent(q))
        /\ \A r \in Queue : r # q => eventQueue'[r] = eventQueue[r]
    BY <2>1 DEF Push, TypeInv, QueueInv
  <2>4. /\ Len(eventQueue'[q]) = Len(eventQueue[q]) + 1 /\ Len(eventQueue[q]) \in Nat
        /\ \A n \in 1 .. Len(eventQueue[q]) : eventQueue'[q][n] = eventQueue[q][n]
    <3>1. /\ Len(Append(eventQueue[q], StopEvent(q))) = Len(eventQueue[q]) + 1
          /\ Len(eventQueue[q]) \in Nat
          /\ \A n \in 1 .. Len(eventQueue[q]) :
                Append(eventQueue[q], StopEvent(q))[n] = eventQueue[q][n]
      BY <2>2, <2>3, AppendElements
    <3> QED BY <2>3, <3>1
  <2>5. /\ ~(q < stopsSent) /\ q < q + 1 /\ q + 1 > 0
        /\ \A r \in Queue : r < stopsSent => r # q /\ r < q + 1
    BY <2>1, SizeAssumption DEF Queue
  <2>6. \A n \in 1 .. Len(eventQueue[q]) : eventQueue[q][n].type # "ET_STOP"
    BY <2>1, <2>5 DEF StopInv
  <2>7. \A n \in 1 .. Len(eventQueue'[q]) : eventQueue'[q][n].type = "ET_STOP" =>
            n = Len(eventQueue'[q])
    BY <2>4, <2>6
  <2>8. ~(worker[q].done \/ worker[q].pc = "exited")
    BY <2>1, <2>5 DEF StopInv
  <2>9. \A r \in Queue : \A n \in 1 .. Len(eventQueue'[r]) :
            eventQueue'[r][n].type = "ET_STOP" => r < stopsSent' /\ n = Len(eventQueue'[r])
    <3> SUFFICES ASSUME NEW r \in Queue, NEW n \in 1 .. Len(eventQueue'[r]),
                        eventQueue'[r][n].type = "ET_STOP"
                 PROVE  r < stopsSent' /\ n = Len(eventQueue'[r])
      OBVIOUS
    <3>1. CASE r = q
      BY <2>1, <2>5, <2>7, <3>1
    <3>2. CASE r # q
      BY <2>1, <2>3, <2>5, <3>2 DEF StopInv
    <3> QED BY <3>1, <3>2
  <2>10. \A r \in Queue : worker'[r].done \/ worker'[r].pc = "exited" =>
             r < stopsSent' /\ eventQueue'[r] = <<>>
    BY <2>1, <2>3, <2>5, <2>8 DEF StopInv
  <2> QED BY <2>1, <2>9, <2>10 DEF StopInv
<1> QED BY <1>1, <1>2, <1>3, <1>4 DEF StopStep

LEMMA NextStop == TypeInv /\ StopInv /\ [Next]_vars => StopInv'
<1> SUFFICES ASSUME TypeInv, StopInv, [Next]_vars PROVE StopInv'
  OBVIOUS
<1>1. CASE StartStep
  <2>1. /\ UNCHANGED <<stopVars, eventQueue, worker>>
        /\ UNCHANGED io \/ io' = [k \in IoTask |-> [io[k] EXCEPT !.pc = "stopped"]]
    BY <1>1 DEF StartStep, AcceptPipe, AcceptPipeFails, ListenFails, HandlePipeConnect,
                PipeConnectFails
  <2>2. \A k \in IoTask : io[k].pc = "stopped" => io'[k].pc = "stopped"
    BY <2>1 DEF TypeInv, IoInv, IoType
  <2> QED BY <2>1, <2>2, StopInvKept
<1>2. CASE AcceptStep
  BY <1>2, StopInvKept DEF AcceptStep, GrabConnectionData, AcceptFails, PassConnection, PassFails
<1>3. CASE UNCHANGED vars
  BY <1>3, StopInvKept DEF vars, stopVars
<1> QED BY <1>1, <1>2, <1>3, StopInvIo, StopInvWorker, StopInvStop DEF Next

(***************************************************************************)
(* A message that was read is dispatched before stop() returns: the last   *)
(* I/O task is stopped, with nothing left to push, before the first        *)
(* ET_STOP is pushed, so a worker that exits leaves an empty queue.        *)
(***************************************************************************)
THEOREM StopAlwaysDrains == Spec => []StopDrains
<1>1. TypeInv /\ OrderInv /\ StopInv => StopDrains
  <2> SUFFICES ASSUME TypeInv, OrderInv, StopInv, Stopped PROVE seen = sent
    BY DEF StopDrains
  <2>1. \A q \in Queue : eventQueue[q] = <<>> /\ q < stopsSent
    BY DEF Stopped, StopInv
  <2>2. stopsSent > 0
    BY <2>1, ServerNumbers
  <2>3. \A k \in IoTask : ~Pushing(k)
    BY <2>2 DEF StopInv, Pushing
  <2>4. \A q \in Queue : \A n \in Nat : ~IsMsg(q, n)
    BY <2>1 DEF IsMsg
  <2>5. \A c \in Client : seen[c] = sent[c]
    <3> SUFFICES ASSUME NEW c \in Client, seen[c] # sent[c] PROVE FALSE
      OBVIOUS
    <3>1. sent[c] \in Nat /\ seen[c] \in Nat /\ seen[c] <= sent[c]
      BY CountsTyped DEF OrderInv, NoneIsLost
    <3>2. sent[c] \in seen[c] + 1 .. sent[c]
      BY <3>1
    <3> QED BY <2>3, <2>4, <3>2 DEF OrderInv, NoneIsLost
  <2>6. seen \in [Client -> 0 .. MaxMsgs] /\ sent \in [Client -> 0 .. MaxMsgs]
    BY DEF TypeInv, ListenerInv
  <2> QED BY <2>5, <2>6
<1>2. Spec => []StopInv
  <2>1. Init => StopInv
    BY InitStop
  <2>2. TypeInv /\ StopInv /\ [Next]_vars => StopInv'
    BY NextStop
  <2> QED BY <2>1, <2>2, TypesAlways, PTL DEF Spec
<1> QED BY <1>1, <1>2, OrderAlways, PTL

-------------------------------------------------------------------------------
(* The replies. *)

(* A client that is newly read from has sent nothing. *)
LEMMA OpenedIsSilent ==
    ASSUME TypeInv, PlaceInv, [Next]_vars
    PROVE  \A i \in Conn, c \in Client : Open(i, c)' => Open(i, c) \/ sent[c] = 0
<1>1. ASSUME \A i \in Conn : conns'[i].client \in {conns[i].client, NoClient}
      PROVE  \A i \in Conn, c \in Client : Open(i, c)' => Open(i, c)
  BY <1>1, ServerNumbers DEF Open
<1>2. CASE StartStep
  <2>1. UNCHANGED conns
    BY <1>2 DEF StartStep, AcceptPipe, AcceptPipeFails, ListenFails, HandlePipeConnect,
                PipeConnectFails, connVars
  <2> QED BY <1>1, <2>1
<1>3. CASE AcceptStep
  BY <1>1, <1>3, AcceptEffect
<1>4. ASSUME NEW k \in IoTask,
             \/ HandlePipeRead(k) \/ PipeReadFails(k) \/ AssignQueueId(k) \/ OnDisconnect(k)
             \/ \E i \in Conn : OnRead(k, i) \/ OnReadError(k, i)
             \/ \E write \in asyncWrites : AsyncWrite(k, write)
      PROVE  \A i \in Conn, c \in Client : Open(i, c)' => Open(i, c) \/ sent[c] = 0
  <2>1. CASE UNCHANGED conns
    BY <1>1, <2>1
  <2>2. CASE HandlePipeRead(k)
    BY <1>1, <2>2, PipeReadEffect
  <2>3. CASE PipeReadFails(k)
    BY <1>1, <2>3, PipeReadFailsEffect
  <2>4. CASE \E i \in Conn : OnReadError(k, i)
    BY <1>1, <2>4, ReadErrorEffect
  <2> QED BY <1>4, <2>1, <2>2, <2>3, <2>4
          DEF AssignQueueId, OnDisconnect, OnRead, AsyncWrite, connVars
<1>5. ASSUME NEW k \in IoTask, PushEvent(k) \/ ReadStartFails(k)
      PROVE  \A i \in Conn, c \in Client : Open(i, c)' => Open(i, c) \/ sent[c] = 0
  <2>1. /\ io[k].pc = "push" /\ io[k].client \in Client /\ io[k].conn \in Conn
        /\ \A i \in Conn : i # io[k].conn => conns'[i] = conns[i]
        /\ \/ conns'[io[k].conn].client = conns[io[k].conn].client
           \/ conns'[io[k].conn].client = io[k].client /\ io[k].evt.type = "ET_CONNECT"
    BY <1>5, PushEffect
  <2>2. io[k].evt.type = "ET_CONNECT" => sent[io[k].client] = 0
    BY <2>1 DEF PlaceInv, Opening, Connecting
  <2> QED BY <2>1, <2>2 DEF Open
<1>6. ASSUME NEW q \in Queue, WorkerStep(q)
      PROVE  UNCHANGED conns
  BY <1>6 DEF WorkerStep, StartDrain, EndDrain, OnConnectCheck, CreateSession, connVars,
              CreateSessionFails, OnDisconnectCheck, DeleteSession, OnMsg, OnStop
<1>7. CASE StopServer \/ StopStep \/ UNCHANGED vars
  <2>1. UNCHANGED conns
    BY <1>7 DEF StopServer, StopStep, StopAcceptor, StopIoTask, PushStop, vars, connVars
  <2> QED BY <1>1, <2>1
<1> QED BY <1>1, <1>2, <1>3, <1>4, <1>5, <1>6, <1>7 DEF Next, IoFinish

LEMMA NextReplies ==
    TypeInv /\ PlaceInv /\ OrderInv /\ ReplyInv /\ [Next]_vars => ReplyInv'
<1> SUFFICES ASSUME TypeInv, PlaceInv, OrderInv, ReplyInv, [Next]_vars PROVE ReplyInv'
  OBVIOUS
<1>1. \A write \in asyncWrites : write.of \in Client /\ write.seq \in Nat /\ write.conn \in Conn
  BY DEF TypeInv, ListenerInv
<1>2. \A c \in Client : sent[c] \in Nat /\ seen[c] \in Nat /\ seen[c] <= sent[c]
  BY CountsTyped DEF OrderInv, NoneIsLost
<1>3. \A write \in asyncWrites : sent[write.of] # 0
  BY <1>1, <1>2 DEF ReplyInv
<1>4. \A write \in asyncWrites : \A i \in Conn : Open(i, write.of)' => write.conn = i
  BY <1>1, <1>3, OpenedIsSilent DEF ReplyInv, Open
<1>5. CASE \E q \in Queue : OnMsg(q)
  <2>1. PICK q \in Queue : OnMsg(q)
    BY <1>5
  <2> DEFINE evt == Oldest(q)
             reply == [conn |-> evt.conn, of |-> evt.from, seq |-> evt.seq]
  <2>2. /\ eventQueue[q] # <<>> /\ evt.type = "ET_MSG" /\ Pop(q, FALSE)
        /\ seen' = [seen EXCEPT ![evt.from] = evt.seq] /\ UNCHANGED conns
        /\ \A write \in asyncWrites' : write \in asyncWrites \/ write = reply
    BY <2>1 DEF OnMsg, Handles, connVars
  <2>3. IsMsg(q, 1) /\ evt = eventQueue[q][1]
    BY <2>2, PopMsgs
  <2>4. evt.from \in Client /\ evt.seq = seen[evt.from] + 1
    BY <2>3, MsgTyped, OldestIsNext
  <2>5. seen'[evt.from] = evt.seq /\ \A c \in Client : c # evt.from => seen'[c] = seen[c]
    BY <2>2, <2>4 DEF TypeInv, ListenerInv
  <2>6. \A write \in asyncWrites : write.seq > 0 /\ write.seq <= seen'[write.of]
    <3> SUFFICES ASSUME NEW write \in asyncWrites
                 PROVE  write.seq > 0 /\ write.seq <= seen'[write.of]
      OBVIOUS
    <3>1. /\ write.of \in Client /\ write.seq \in Nat /\ write.seq > 0
          /\ write.seq <= seen[write.of] /\ seen[write.of] \in Nat
      BY <1>1, <1>2 DEF ReplyInv
    <3>2. seen'[write.of] = seen[write.of] \/ seen'[write.of] = seen[write.of] + 1
      BY <2>4, <2>5, <3>1
    <3> QED BY <3>1, <3>2
  <2>7. /\ reply.seq > 0 /\ reply.seq <= seen'[reply.of]
        /\ \A i \in Conn : Open(i, evt.from) => reply.conn = i
    <3>1. reply.seq = evt.seq /\ reply.of = evt.from /\ reply.conn = evt.conn
      OBVIOUS
    <3>2. evt.seq > 0 /\ evt.seq <= seen'[evt.from]
      BY <1>2, <2>4, <2>5
    <3>3. \A i \in Conn : Open(i, evt.from) => evt.conn = i
      BY <2>3 DEF OrderInv, QueuedAtSlot
    <3> QED BY <3>1, <3>2, <3>3
  <2> SUFFICES ASSUME NEW write \in asyncWrites'
               PROVE  /\ write.seq > 0 /\ write.seq <= seen'[write.of]
                      /\ \A i \in Conn : conns'[i].client = write.of => write.conn = i
    BY DEF ReplyInv, Open
  <2>8. CASE write \in asyncWrites
    BY <1>4, <2>6, <2>8 DEF Open
  <2>9. CASE write = reply
    <3>1. /\ write.seq > 0 /\ write.seq <= seen'[write.of] /\ write.of = evt.from
          /\ \A i \in Conn : conns[i].client = evt.from => write.conn = i
      BY <2>7, <2>9 DEF Open
    <3> QED BY <2>2, <3>1
  <2> QED BY <2>2, <2>8, <2>9
<1>6. CASE ~\E q \in Queue : OnMsg(q)
  <2>1. asyncWrites' \subseteq asyncWrites /\ UNCHANGED seen
    <3>1. CASE StartStep \/ AcceptStep \/ StopServer \/ StopStep \/ UNCHANGED vars
      BY <3>1 DEF StartStep, AcceptPipe, AcceptPipeFails, ListenFails, HandlePipeConnect,
                  PipeConnectFails, AcceptStep, GrabConnectionData, AcceptFails, PassConnection,
                  PassFails, StopServer, StopStep, StopAcceptor, StopIoTask, PushStop, vars,
                  serverVars
    <3>2. ASSUME NEW k \in IoTask,
                 \/ HandlePipeRead(k) \/ PipeReadFails(k) \/ ReadStartFails(k) \/ IoFinish(k)
                 \/ \E i \in Conn : OnRead(k, i) \/ OnReadError(k, i)
                 \/ \E write \in asyncWrites : AsyncWrite(k, write)
          PROVE  asyncWrites' \subseteq asyncWrites /\ UNCHANGED seen
      BY <3>2 DEF HandlePipeRead, PipeReadFails, ReadStartFails, IoFinish, AssignQueueId,
                  OnDisconnect, PushEvent, OnRead, OnReadError, AsyncWrite, serverVars
    <3>3. ASSUME NEW q \in Queue, WorkerStep(q)
          PROVE  UNCHANGED <<asyncWrites, seen>>
      BY <1>6, <3>3 DEF WorkerStep, StartDrain, EndDrain, OnConnectCheck, CreateSession, serverVars,
                        CreateSessionFails, OnDisconnectCheck, DeleteSession, OnStop
    <3> QED BY <3>1, <3>2, <3>3 DEF Next
  <2> QED BY <1>4, <2>1 DEF ReplyInv
<1> QED BY <1>5, <1>6

(***************************************************************************)
(* A reply that waits for its I/O task goes to the client whose message it *)
(* answers as long as that client is connected, although it names only a   *)
(* slot: an open connection keeps its slot, and a client that comes to the *)
(* slot later has sent nothing before, so no earlier reply is its own.     *)
(***************************************************************************)
THEOREM RepliesReachLive == Spec => []ReplyReachesLive
<1>1. Init => ReplyInv
  BY DEF Init, ReplyInv
<1>2. TypeInv /\ PlaceInv /\ OrderInv /\ ReplyInv /\ [Next]_vars => ReplyInv'
  BY NextReplies
<1>3. ReplyInv => ReplyReachesLive
  BY DEF ReplyInv, ReplyReachesLive, Open
<1> QED BY <1>1, <1>2, <1>3, OrderAlways, PTL DEF Spec

-------------------------------------------------------------------------------
(* The pending connections, as long as nothing has failed. *)

(* What the parts of PendingInv say of one slot. *)
LEMMA PendingSlots ==
    ASSUME TypeInv, NEW k \in IoTask, NEW n \in 1 .. Len(pipe[k])
    PROVE  /\ n \in 1 .. Len(pendingConns[k]) /\ pendingConns[k][n] \in Conn
           /\ IoTaskOf(pendingConns[k][n]) = k
<1>1. /\ pipe[k] \in Seq(Client) /\ pendingConns[k] \in Seq(Conn)
      /\ Len(pipe[k]) <= Len(pendingConns[k])
  BY DEF TypeInv, ConnInv, PendingCovers
<1>2. n \in 1 .. Len(pendingConns[k])
  BY <1>1
<1> QED BY <1>1, <1>2 DEF TypeInv, ConnInv, PendingCovers

(* The lists and the slots stay; no slot comes into a callback. *)
LEMMA PendingKept ==
    ASSUME PendingInStep, SlotsApart, SlotsInUse, UNCHANGED <<pendingConns, pipe, conns>>,
           \A k \in IoTask : Connecting(k)' => Connecting(k) /\ io'[k].conn = io[k].conn,
           acceptor'.pc = "pass" => acceptor' = acceptor
    PROVE  PendingInStep' /\ SlotsApart' /\ SlotsInUse'
<1>1. PendingInStep'
  BY DEF PendingInStep
<1>2. SlotsInUse'
  BY DEF SlotsInUse
<1>3. SlotsApart'
  BY DEF SlotsApart
<1> QED BY <1>1, <1>2, <1>3

(* A slot that is neither pending nor passed on nor in a callback changes. *)
LEMMA PendingElsewhere ==
    ASSUME TypeInv, PendingInStep, SlotsApart, SlotsInUse, NEW i \in Conn,
           UNCHANGED <<pendingConns, pipe>>,
           \A j \in Conn : j # i => conns'[j] = conns[j],
           \A k \in IoTask : Connecting(k)' =>
               Connecting(k) /\ io'[k].conn = io[k].conn /\ io[k].conn # i /\ io[k].conn \in Conn,
           acceptor'.pc = "pass" => acceptor' = acceptor /\ acceptor.conn # i /\ acceptor.conn \in Conn,
           \A k \in IoTask : \A n \in 1 .. Len(pipe[k]) : pendingConns[k][n] # i,
           conns'[i].client # NoClient => conns'[i].used
    PROVE  PendingInStep' /\ SlotsApart' /\ SlotsInUse'
<1>1. \A k \in IoTask : \A n \in 1 .. Len(pipe[k]) :
          pendingConns[k][n] \in Conn /\ conns'[pendingConns[k][n]] = conns[pendingConns[k][n]]
  BY PendingSlots
<1>2. PendingInStep'
  BY <1>1 DEF PendingInStep
<1>3. SlotsInUse'
  <2>1. \A k \in IoTask : Connecting(k)' => conns'[io'[k].conn].used
    BY DEF SlotsInUse
  <2>2. \A j \in Conn : conns'[j].client # NoClient => conns'[j].used
    BY DEF SlotsInUse
  <2> QED BY <2>1, <2>2 DEF SlotsInUse
<1>4. SlotsApart'
  <2>1. \A j, k \in IoTask : Connecting(j)' =>
            \A n \in 1 .. Len(pipe'[k]) : pendingConns'[k][n] # io'[j].conn
    BY DEF SlotsApart
  <2>2. acceptor'.pc = "pass" =>
            /\ \A k \in IoTask : \A n \in 1 .. Len(pipe'[k]) : pendingConns'[k][n] # acceptor'.conn
            /\ \A j \in IoTask : Connecting(j)' => acceptor'.conn # io'[j].conn
            /\ conns'[acceptor'.conn].used /\ conns'[acceptor'.conn].client = NoClient
    BY DEF SlotsApart
  <2> QED BY <2>1, <2>2 DEF SlotsApart
<1> QED BY <1>2, <1>3, <1>4

LEMMA PendingGrab ==
    ASSUME TypeInv, PendingInStep, SlotsApart, SlotsInUse, GrabConnectionData
    PROVE  PendingInStep' /\ SlotsApart' /\ SlotsInUse'
<1> DEFINE i == acceptor.conn
<1>1. /\ acceptor.pc = "scan" /\ i \in Conn /\ UNCHANGED <<pendingConns, pipe, io>>
  BY DEF GrabConnectionData, TypeInv, StartInv
<1>2. CASE conns[i].used
  <2>1. /\ acceptor' = [acceptor EXCEPT !.conn = (i + 1) % MaxConnections] /\ UNCHANGED conns
    BY <1>2 DEF GrabConnectionData
  <2>2. acceptor'.pc # "pass"
    BY <1>1, <2>1 DEF TypeInv, StartInv
  <2>3. \A k \in IoTask : Connecting(k)' => Connecting(k) /\ io'[k].conn = io[k].conn
    BY <1>1 DEF Connecting
  <2> QED BY <1>1, <2>1, <2>2, <2>3, PendingKept
<1>3. CASE ~conns[i].used
  <2>1. /\ conns' = [conns EXCEPT ![i].used = TRUE, ![i].id = nextConnectionId]
        /\ acceptor' = [pc |-> "pass", conn |-> i]
    BY <1>3 DEF GrabConnectionData
  <2>2. /\ conns'[i].used /\ conns'[i].client = conns[i].client
        /\ \A j \in Conn : j # i => conns'[j] = conns[j]
    BY <1>1, <2>1 DEF TypeInv, ConnInv, ConnType
  <2>3. conns[i].client = NoClient
    BY <1>1, <1>3 DEF SlotsInUse
  <2>4. \A k \in IoTask : \A n \in 1 .. Len(pipe[k]) :
            /\ pendingConns[k][n] # i
            /\ pendingConns[k][n] \in Conn /\ conns'[pendingConns[k][n]] = conns[pendingConns[k][n]]
    BY <1>3, <2>2, PendingSlots DEF PendingInStep
  <2>5. \A k \in IoTask : /\ Connecting(k)' <=> Connecting(k)
                          /\ Connecting(k) => io[k].conn # i /\ io[k].conn \in Conn
    BY <1>1, <1>3 DEF Connecting, SlotsInUse, TypeInv, IoInv, IoType
  <2>6. PendingInStep'
    BY <1>1, <2>4 DEF PendingInStep
  <2>7. SlotsInUse'
    <3>1. \A k \in IoTask : Connecting(k)' => conns'[io'[k].conn].used
      BY <1>1, <2>2, <2>5 DEF SlotsInUse
    <3>2. \A j \in Conn : conns'[j].client # NoClient => conns'[j].used
      BY <2>2 DEF SlotsInUse
    <3> QED BY <3>1, <3>2 DEF SlotsInUse
  <2>8. SlotsApart'
    <3>1. \A j, k \in IoTask : Connecting(j)' =>
              \A n \in 1 .. Len(pipe'[k]) : pendingConns'[k][n] # io'[j].conn
      BY <1>1, <2>5 DEF SlotsApart
    <3>2. /\ \A k \in IoTask : \A n \in 1 .. Len(pipe'[k]) : pendingConns'[k][n] # acceptor'.conn
          /\ \A j \in IoTask : Connecting(j)' => acceptor'.conn # io'[j].conn
          /\ conns'[acceptor'.conn].used /\ conns'[acceptor'.conn].client = NoClient
      BY <1>1, <2>1, <2>2, <2>3, <2>4, <2>5
    <3> QED BY <3>1, <3>2 DEF SlotsApart
  <2> QED BY <2>6, <2>7, <2>8
<1> QED BY <1>2, <1>3

LEMMA PendingPass ==
    ASSUME TypeInv, PendingInStep, SlotsApart, SlotsInUse, PassConnection
    PROVE  PendingInStep' /\ SlotsApart' /\ SlotsInUse'
<1> DEFINE i == acceptor.conn
           k == IoTaskOf(i)
           new == Len(pipe[k]) + 1
<1>1. /\ acceptor.pc = "pass" /\ i \in Conn /\ acceptor' = [pc |-> "scan", conn |-> 0]
      /\ pendingConns' = [pendingConns EXCEPT ![k] = Append(@, i)]
      /\ pipe' = [pipe EXCEPT ![serverPipe[k]] = Append(@, conns[i].id)]
      /\ UNCHANGED <<conns, io>>
  BY DEF PassConnection, TypeInv, StartInv
<1>2. k \in IoTask /\ serverPipe[k] = k /\ conns[i].id \in Client
  BY <1>1, ServerNumbers DEF TypeInv, StartInv, PipesArePaired, ConnInv, PassHasId
<1>3. /\ pipe[k] \in Seq(Client) /\ pendingConns[k] \in Seq(Conn)
      /\ pipe'[k] = Append(pipe[k], conns[i].id) /\ pendingConns'[k] = Append(pendingConns[k], i)
      /\ \A j \in IoTask : j # k => pipe'[j] = pipe[j] /\ pendingConns'[j] = pendingConns[j]
  BY <1>1, <1>2 DEF TypeInv, ConnInv
<1>4. Len(pendingConns[k]) = Len(pipe[k])
  BY <1>2 DEF PendingInStep
<1>5. /\ Len(pipe'[k]) = new /\ Len(pipe[k]) \in Nat /\ Len(pendingConns'[k]) = new
      /\ \A n \in 1 .. Len(pipe[k]) :
            pipe'[k][n] = pipe[k][n] /\ pendingConns'[k][n] = pendingConns[k][n]
      /\ pipe'[k][new] = conns[i].id /\ pendingConns'[k][new] = i
  <2>1. /\ Len(Append(pipe[k], conns[i].id)) = new /\ Len(pipe[k]) \in Nat
        /\ \A n \in 1 .. Len(pipe[k]) : Append(pipe[k], conns[i].id)[n] = pipe[k][n]
        /\ Append(pipe[k], conns[i].id)[new] = conns[i].id
    BY <1>2, <1>3, AppendElements
  <2>2. /\ Len(Append(pendingConns[k], i)) = new
        /\ \A n \in 1 .. Len(pipe[k]) : Append(pendingConns[k], i)[n] = pendingConns[k][n]
        /\ Append(pendingConns[k], i)[new] = i
    BY <1>1, <1>3, <1>4, AppendElements
  <2> QED BY <1>3, <2>1, <2>2
<1>6. ASSUME NEW j \in IoTask, NEW n \in 1 .. Len(pipe'[j])
      PROVE  \/ /\ n \in 1 .. Len(pipe[j]) /\ pipe'[j][n] = pipe[j][n]
                /\ pendingConns'[j][n] = pendingConns[j][n]
             \/ j = k /\ n = new /\ pipe'[j][n] = conns[i].id /\ pendingConns'[j][n] = i
  <2>1. CASE j # k
    BY <1>3, <2>1
  <2>2. CASE j = k
    BY <1>2, <1>5, <2>2
  <2> QED BY <2>1, <2>2
<1>7. /\ conns[i].used /\ conns[i].client = NoClient
      /\ \A j \in IoTask : \A n \in 1 .. Len(pipe[j]) : pendingConns[j][n] # i
      /\ \A j \in IoTask : Connecting(j) => i # io[j].conn
  BY <1>1 DEF SlotsApart
<1>8. PendingInStep'
  <2> SUFFICES ASSUME NEW j \in IoTask
               PROVE  /\ Len(pendingConns'[j]) = Len(pipe'[j])
                      /\ \A n \in 1 .. Len(pipe'[j]) :
                            /\ conns[pendingConns'[j][n]].id = pipe'[j][n]
                            /\ conns[pendingConns'[j][n]].used
                            /\ conns[pendingConns'[j][n]].client = NoClient
                      /\ \A m, n \in 1 .. Len(pipe'[j]) :
                            pendingConns'[j][m] = pendingConns'[j][n] => m = n
    BY <1>1 DEF PendingInStep
  <2>1. Len(pendingConns'[j]) = Len(pipe'[j])
    BY <1>3, <1>5 DEF PendingInStep
  <2>2. \A n \in 1 .. Len(pipe[j]) : /\ conns[pendingConns[j][n]].id = pipe[j][n]
                                     /\ conns[pendingConns[j][n]].used
                                     /\ conns[pendingConns[j][n]].client = NoClient
    BY DEF PendingInStep
  <2>3. \A n \in 1 .. Len(pipe'[j]) : /\ conns[pendingConns'[j][n]].id = pipe'[j][n]
                                      /\ conns[pendingConns'[j][n]].used
                                      /\ conns[pendingConns'[j][n]].client = NoClient
    BY <1>6, <1>7, <2>2
  <2>4. ASSUME NEW m \in 1 .. Len(pipe'[j]), NEW n \in 1 .. Len(pipe'[j]),
               pendingConns'[j][m] = pendingConns'[j][n]
        PROVE  m = n
    <3>1. \/ m \in 1 .. Len(pipe[j]) /\ pendingConns'[j][m] = pendingConns[j][m]
          \/ m = new /\ pendingConns'[j][m] = i
      BY <1>6
    <3>2. \/ n \in 1 .. Len(pipe[j]) /\ pendingConns'[j][n] = pendingConns[j][n]
          \/ n = new /\ pendingConns'[j][n] = i
      BY <1>6
    <3> QED BY <1>7, <2>4, <3>1, <3>2 DEF PendingInStep
  <2> QED BY <2>1, <2>3, <2>4
<1>9. SlotsInUse'
  BY <1>1 DEF SlotsInUse, Connecting
<1>10. SlotsApart'
  <2>1. ASSUME NEW j \in IoTask, Connecting(j)', NEW h \in IoTask, NEW n \in 1 .. Len(pipe'[h])
        PROVE  pendingConns'[h][n] # io'[j].conn
    <3>1. Connecting(j) /\ io'[j] = io[j]
      BY <1>1, <2>1 DEF Connecting
    <3> QED BY <1>6, <1>7, <3>1 DEF SlotsApart
  <2> QED BY <1>1, <2>1 DEF SlotsApart
<1> QED BY <1>8, <1>9, <1>10

LEMMA PendingPipeRead ==
    ASSUME TypeInv, PendingInStep, SlotsApart, SlotsInUse, NEW k \in IoTask, HandlePipeRead(k)
    PROVE  PendingInStep' /\ SlotsApart' /\ SlotsInUse'
<1> DEFINE i == Head(pendingConns[k])
<1>1. /\ pipe[k] # <<>> /\ pendingConns[k] # <<>> /\ i \in Conn /\ IoTaskOf(i) = k
      /\ io'[k].pc = "assign" /\ io'[k].conn = i
      /\ \A j \in IoTask : j # k => io'[j] = io[j]
      /\ \A j \in Conn : /\ conns'[j].id = conns[j].id /\ conns'[j].used = conns[j].used
                         /\ conns'[j].client \in {conns[j].client, NoClient}
  BY PipeReadEffect
<1>2. /\ pendingConns' = [pendingConns EXCEPT ![k] = Tail(@)]
      /\ pipe' = [pipe EXCEPT ![k] = Tail(@)] /\ UNCHANGED acceptor
  BY DEF HandlePipeRead
<1>3. /\ pipe[k] \in Seq(Client) /\ pendingConns[k] \in Seq(Conn)
      /\ pipe'[k] = Tail(pipe[k]) /\ pendingConns'[k] = Tail(pendingConns[k])
      /\ \A j \in IoTask : j # k => pipe'[j] = pipe[j] /\ pendingConns'[j] = pendingConns[j]
  BY <1>2 DEF TypeInv, ConnInv
<1>4. Len(pendingConns[k]) = Len(pipe[k])
  BY DEF PendingInStep
<1>5. /\ Len(pipe[k]) \in Nat \ {0} /\ i = pendingConns[k][1]
      /\ Len(pipe'[k]) = Len(pipe[k]) - 1 /\ Len(pendingConns'[k]) = Len(pipe[k]) - 1
      /\ \A n \in 1 .. Len(pipe[k]) - 1 :
            pipe'[k][n] = pipe[k][n + 1] /\ pendingConns'[k][n] = pendingConns[k][n + 1]
  <2>1. /\ Len(pipe[k]) \in Nat \ {0} /\ Len(Tail(pipe[k])) = Len(pipe[k]) - 1
        /\ \A n \in 1 .. Len(pipe[k]) - 1 : Tail(pipe[k])[n] = pipe[k][n + 1]
    BY <1>1, <1>3, TailElements
  <2>2. /\ i = pendingConns[k][1] /\ Len(Tail(pendingConns[k])) = Len(pipe[k]) - 1
        /\ \A n \in 1 .. Len(pipe[k]) - 1 : Tail(pendingConns[k])[n] = pendingConns[k][n + 1]
    BY <1>1, <1>3, <1>4, TailElements
  <2> QED BY <1>3, <2>1, <2>2
<1>6. ASSUME NEW j \in IoTask, NEW n \in 1 .. Len(pipe'[j])
      PROVE  \E m \in 1 .. Len(pipe[j]) :
                /\ m = (IF j = k THEN n + 1 ELSE n)
                /\ pipe'[j][n] = pipe[j][m] /\ pendingConns'[j][n] = pendingConns[j][m]
                /\ pendingConns[j][m] # i /\ pendingConns[j][m] \in Conn
  <2>1. CASE j # k
    <3>1. n \in 1 .. Len(pipe[j]) /\ pipe'[j][n] = pipe[j][n] /\ pendingConns'[j][n] = pendingConns[j][n]
      BY <1>3, <2>1
    <3>2. pendingConns[j][n] # i /\ pendingConns[j][n] \in Conn
      BY <1>1, <2>1, <3>1, PendingSlots
    <3> QED BY <2>1, <3>1, <3>2
  <2>2. CASE j = k
    <3>1. /\ n + 1 \in 1 .. Len(pipe[k]) /\ n + 1 # 1 /\ 1 \in 1 .. Len(pipe[k])
          /\ pipe'[k][n] = pipe[k][n + 1] /\ pendingConns'[k][n] = pendingConns[k][n + 1]
      BY <1>5, <2>2
    <3>2. pendingConns[k][n + 1] # i
      BY <1>5, <3>1 DEF PendingInStep
    <3>3. pendingConns[k][n + 1] \in Conn
      BY <3>1, PendingSlots
    <3> QED BY <2>2, <3>1, <3>2, <3>3
  <2> QED BY <2>1, <2>2
<1>7. 1 \in 1 .. Len(pipe[k])
  BY <1>5
<1>8. PendingInStep'
  <2> SUFFICES ASSUME NEW j \in IoTask
               PROVE  /\ Len(pendingConns'[j]) = Len(pipe'[j])
                      /\ \A n \in 1 .. Len(pipe'[j]) :
                            /\ conns'[pendingConns'[j][n]].id = pipe'[j][n]
                            /\ conns'[pendingConns'[j][n]].used
                            /\ conns'[pendingConns'[j][n]].client = NoClient
                      /\ \A m, n \in 1 .. Len(pipe'[j]) :
                            pendingConns'[j][m] = pendingConns'[j][n] => m = n
    BY DEF PendingInStep
  <2>1. Len(pendingConns'[j]) = Len(pipe'[j])
    BY <1>3, <1>5 DEF PendingInStep
  <2>2. ASSUME NEW n \in 1 .. Len(pipe'[j])
        PROVE  /\ conns'[pendingConns'[j][n]].id = pipe'[j][n]
               /\ conns'[pendingConns'[j][n]].used
               /\ conns'[pendingConns'[j][n]].client = NoClient
    <3>1. PICK m \in 1 .. Len(pipe[j]) :
              /\ pipe'[j][n] = pipe[j][m] /\ pendingConns'[j][n] = pendingConns[j][m]
              /\ pendingConns[j][m] \in Conn
      BY <1>6
    <3>2. /\ conns[pendingConns[j][m]].id = pipe[j][m] /\ conns[pendingConns[j][m]].used
          /\ conns[pendingConns[j][m]].client = NoClient
      BY DEF PendingInStep
    <3> QED BY <1>1, <3>1, <3>2
  <2>3. ASSUME NEW m \in 1 .. Len(pipe'[j]), NEW n \in 1 .. Len(pipe'[j]),
               pendingConns'[j][m] = pendingConns'[j][n]
        PROVE  m = n
    <3>1. PICK a \in 1 .. Len(pipe[j]) :
              a = (IF j = k THEN m + 1 ELSE m) /\ pendingConns'[j][m] = pendingConns[j][a]
      BY <1>6
    <3>2. PICK b \in 1 .. Len(pipe[j]) :
              b = (IF j = k THEN n + 1 ELSE n) /\ pendingConns'[j][n] = pendingConns[j][b]
      BY <1>6
    <3>3. a = b
      BY <2>3, <3>1, <3>2 DEF PendingInStep
    <3> QED BY <3>1, <3>2, <3>3
  <2> QED BY <2>1, <2>2, <2>3
<1>9. SlotsInUse'
  <2>1. conns[i].used
    BY <1>5, <1>7 DEF PendingInStep
  <2>2. ASSUME NEW j \in IoTask, Connecting(j)'
        PROVE  conns'[io'[j].conn].used
    <3>1. CASE j = k
      BY <1>1, <2>1, <3>1
    <3>2. CASE j # k
      <4>1. Connecting(j) /\ io'[j] = io[j] /\ io[j].conn \in Conn
        BY <1>1, <2>2, <3>2 DEF Connecting, TypeInv, IoInv, IoType
      <4> QED BY <1>1, <4>1 DEF SlotsInUse
    <3> QED BY <3>1, <3>2
  <2>3. \A j \in Conn : conns'[j].client # NoClient => conns'[j].used
    BY <1>1 DEF SlotsInUse
  <2> QED BY <2>2, <2>3 DEF SlotsInUse
<1>10. SlotsApart'
  <2>1. ASSUME NEW j \in IoTask, Connecting(j)', NEW h \in IoTask, NEW n \in 1 .. Len(pipe'[h])
        PROVE  pendingConns'[h][n] # io'[j].conn
    <3>1. PICK m \in 1 .. Len(pipe[h]) :
              pendingConns'[h][n] = pendingConns[h][m] /\ pendingConns[h][m] # i
      BY <1>6
    <3>2. CASE j = k
      BY <1>1, <3>1, <3>2
    <3>3. CASE j # k
      <4>1. Connecting(j) /\ io'[j] = io[j]
        BY <1>1, <2>1, <3>3 DEF Connecting
      <4> QED BY <3>1, <4>1 DEF SlotsApart
    <3> QED BY <3>2, <3>3
  <2>2. ASSUME acceptor'.pc = "pass"
        PROVE  /\ \A h \in IoTask : \A n \in 1 .. Len(pipe'[h]) : pendingConns'[h][n] # acceptor'.conn
               /\ \A j \in IoTask : Connecting(j)' => acceptor'.conn # io'[j].conn
               /\ conns'[acceptor'.conn].used /\ conns'[acceptor'.conn].client = NoClient
    <3>1. /\ acceptor.conn \in Conn /\ acceptor' = acceptor /\ acceptor.pc = "pass"
          /\ \A h \in IoTask : \A n \in 1 .. Len(pipe[h]) : pendingConns[h][n] # acceptor.conn
          /\ \A j \in IoTask : Connecting(j) => acceptor.conn # io[j].conn
          /\ conns[acceptor.conn].used /\ conns[acceptor.conn].client = NoClient
      BY <1>2, <2>2 DEF SlotsApart, TypeInv, StartInv
    <3>2. \A h \in IoTask : \A n \in 1 .. Len(pipe'[h]) : pendingConns'[h][n] # acceptor'.conn
      BY <1>6, <3>1
    <3>3. i # acceptor.conn
      BY <1>5, <1>7, <3>1
    <3>4. \A j \in IoTask : Connecting(j)' => acceptor'.conn # io'[j].conn
      BY <1>1, <3>1, <3>3 DEF Connecting
    <3> QED BY <1>1, <3>1, <3>2, <3>4
  <2> QED BY <2>1, <2>2 DEF SlotsApart
<1> QED BY <1>8, <1>9, <1>10

(* The socket of slot i fails, and the slot is neither pending nor in a    *)
(* callback, since somebody reads from it.                                 *)
LEMMA PendingReadError ==
    ASSUME TypeInv, PendingInStep, SlotsApart, SlotsInUse,
           NEW k \in IoTask, NEW i \in Conn, OnReadError(k, i)
    PROVE  PendingInStep' /\ SlotsApart' /\ SlotsInUse'
<1>1. /\ io'[k].pc = "disconnect" /\ conns[i].client # NoClient /\ conns'[i].client = NoClient
      /\ \A j \in IoTask : j # k => io'[j] = io[j]
      /\ \A j \in Conn : j # i => conns'[j] = conns[j]
  BY ReadErrorEffect
<1>2. UNCHANGED <<pendingConns, pipe, acceptor>>
  BY DEF OnReadError
<1>3. \A j \in IoTask : Connecting(j)' =>
          Connecting(j) /\ io'[j].conn = io[j].conn /\ io[j].conn # i /\ io[j].conn \in Conn
  <2> SUFFICES ASSUME NEW j \in IoTask, Connecting(j)'
               PROVE  Connecting(j) /\ io'[j].conn = io[j].conn /\ io[j].conn # i
                      /\ io[j].conn \in Conn
    OBVIOUS
  <2>1. j # k
    BY <1>1 DEF Connecting
  <2>2. io'[j] = io[j] /\ Connecting(j)
    BY <1>1, <2>1 DEF Connecting
  <2>3. conns[io[j].conn].client = NoClient /\ io[j].conn \in Conn
    BY <2>2 DEF TypeInv, IoInv, IoType, CallbackNamed
  <2> QED BY <1>1, <2>2, <2>3
<1>4. acceptor'.pc = "pass" => acceptor' = acceptor /\ acceptor.conn # i /\ acceptor.conn \in Conn
  BY <1>1, <1>2 DEF SlotsApart, TypeInv, StartInv
<1>5. \A j \in IoTask : \A n \in 1 .. Len(pipe[j]) : pendingConns[j][n] # i
  BY <1>1 DEF PendingInStep
<1> QED BY <1>1, <1>2, <1>3, <1>4, <1>5, PendingElsewhere

(* The callback of a slot ends, and the slot is read from. *)
LEMMA PendingPush ==
    ASSUME TypeInv, PendingInStep, SlotsApart, SlotsInUse, NEW k \in IoTask, PushEvent(k)
    PROVE  PendingInStep' /\ SlotsApart' /\ SlotsInUse'
<1> DEFINE i == io[k].conn
<1>1. /\ io[k].pc = "push" /\ io'[k].pc = "idle" /\ i \in Conn /\ IoTaskOf(i) = k
      /\ \A j \in IoTask : j # k => io'[j] = io[j]
      /\ \A j \in Conn : j # i => conns'[j] = conns[j]
      /\ conns'[i].used = conns[i].used
  BY PushEffect
<1>2. UNCHANGED <<pendingConns, pipe, acceptor>>
  BY DEF PushEvent
<1>3. \A j \in IoTask : Connecting(j)' =>
          Connecting(j) /\ io'[j].conn = io[j].conn /\ io[j].conn # i /\ io[j].conn \in Conn
  <2> SUFFICES ASSUME NEW j \in IoTask, Connecting(j)'
               PROVE  Connecting(j) /\ io'[j].conn = io[j].conn /\ io[j].conn # i
                      /\ io[j].conn \in Conn
    OBVIOUS
  <2>1. j # k
    BY <1>1 DEF Connecting
  <2>2. io'[j] = io[j] /\ Connecting(j)
    BY <1>1, <2>1 DEF Connecting
  <2>3. IoTaskOf(io[j].conn) = j /\ io[j].conn \in Conn
    BY <2>2 DEF TypeInv, IoInv, IoType, CallbackNamed, Connecting
  <2> QED BY <1>1, <2>1, <2>2, <2>3
<1>4. CASE io[k].evt.type = "ET_CONNECT"
  <2>1. Connecting(k)
    BY <1>1, <1>4 DEF Connecting
  <2>2. conns[i].used
    BY <2>1 DEF SlotsInUse
  <2>3. acceptor'.pc = "pass" => acceptor' = acceptor /\ acceptor.conn # i /\ acceptor.conn \in Conn
    BY <1>2, <2>1 DEF SlotsApart, TypeInv, StartInv
  <2>4. \A j \in IoTask : \A n \in 1 .. Len(pipe[j]) : pendingConns[j][n] # i
    BY <2>1 DEF SlotsApart
  <2> QED BY <1>1, <1>2, <1>3, <2>2, <2>3, <2>4, PendingElsewhere
<1>5. CASE io[k].evt.type # "ET_CONNECT"
  <2>1. UNCHANGED conns
    BY <1>5 DEF PushEvent
  <2> QED BY <1>2, <1>3, <2>1, PendingKept
<1> QED BY <1>4, <1>5

(* The other steps of the callbacks leave the lists and the slots alone. *)
LEMMA PendingCallback ==
    ASSUME TypeInv, PendingInStep, SlotsApart, SlotsInUse, NEW k \in IoTask,
           \/ AssignQueueId(k) \/ OnDisconnect(k)
           \/ \E i \in Conn : OnRead(k, i)
           \/ \E write \in asyncWrites : AsyncWrite(k, write)
    PROVE  PendingInStep' /\ SlotsApart' /\ SlotsInUse'
<1>1. UNCHANGED <<pendingConns, pipe, conns, acceptor>>
  BY DEF AssignQueueId, OnDisconnect, OnRead, AsyncWrite, connVars
<1>2. \A j \in IoTask : Connecting(j)' => Connecting(j) /\ io'[j].conn = io[j].conn
  <2>1. CASE AssignQueueId(k)
    BY <2>1, AssignEffect DEF Connecting
  <2>2. CASE OnDisconnect(k)
    BY <2>2, DisconnectEffect DEF Connecting
  <2>3. ASSUME NEW i \in Conn, OnRead(k, i)
        PROVE  \A j \in IoTask : Connecting(j)' => Connecting(j) /\ io'[j].conn = io[j].conn
    BY <2>3, ReadEffect DEF Connecting
  <2>4. ASSUME NEW write \in asyncWrites, AsyncWrite(k, write)
        PROVE  \A j \in IoTask : Connecting(j)' => Connecting(j) /\ io'[j].conn = io[j].conn
    BY <2>4 DEF AsyncWrite, Connecting
  <2> QED BY <2>1, <2>2, <2>3, <2>4
<1> QED BY <1>1, <1>2, PendingKept

(* Start-up, the workers and the stop leave them alone too. *)
LEMMA PendingOthers ==
    ASSUME TypeInv, PendingInStep, SlotsApart, SlotsInUse,
           \/ AcceptPipe \/ (\E k \in IoTask : HandlePipeConnect(k))
           \/ (\E q \in Queue : WorkerStep(q)) \/ StopServer \/ StopStep \/ UNCHANGED vars
    PROVE  PendingInStep' /\ SlotsApart' /\ SlotsInUse'
<1>1. CASE AcceptPipe
  <2>1. UNCHANGED <<pendingConns, pipe, conns, io>> /\ acceptor'.pc # "pass"
    BY <1>1 DEF AcceptPipe, TypeInv, StartInv
  <2> QED BY <2>1, PendingKept DEF Connecting
<1>2. CASE StopAcceptor
  <2>1. UNCHANGED <<pendingConns, pipe, conns, io>> /\ acceptor'.pc # "pass"
    BY <1>2 DEF StopAcceptor, TypeInv, StartInv
  <2> QED BY <2>1, PendingKept DEF Connecting
<1>3. ASSUME NEW k \in IoTask, StopIoTask(k)
      PROVE  PendingInStep' /\ SlotsApart' /\ SlotsInUse'
  <2>1. UNCHANGED <<pendingConns, pipe, conns, acceptor>> /\ io' = [io EXCEPT ![k].pc = "stopped"]
    BY <1>3 DEF StopIoTask, connVars
  <2>2. io'[k].pc = "stopped" /\ \A j \in IoTask : j # k => io'[j] = io[j]
    BY <2>1 DEF TypeInv, IoInv, IoType
  <2>3. \A j \in IoTask : Connecting(j)' => Connecting(j) /\ io'[j].conn = io[j].conn
    BY <2>2 DEF Connecting
  <2> QED BY <2>1, <2>3, PendingKept
<1>4. CASE \/ \E k \in IoTask : HandlePipeConnect(k)
           \/ (\E q \in Queue : WorkerStep(q)) \/ StopServer \/ PushStop \/ UNCHANGED vars
  <2>1. UNCHANGED <<pendingConns, pipe, conns, acceptor, io>>
    BY <1>4 DEF HandlePipeConnect, WorkerStep, StartDrain, EndDrain, OnConnectCheck, CreateSession,
                CreateSessionFails, OnDisconnectCheck, DeleteSession, OnMsg, OnStop, StopServer,
                PushStop, vars, connVars
  <2> QED BY <2>1, PendingKept DEF Connecting
<1> QED BY <1>1, <1>2, <1>3, <1>4 DEF StopStep

(* A step that leaves the number of failures at 0 is none of the failures. *)
LEMMA NothingFails ==
    ASSUME TypeInv, [Next]_vars, faults' = 0
    PROVE  /\ ~AcceptPipeFails /\ ~ListenFails /\ ~AcceptFails /\ ~PassFails
           /\ \A k \in IoTask : ~PipeConnectFails(k) /\ ~PipeReadFails(k) /\ ~ReadStartFails(k)
           /\ \A q \in Queue : ~CreateSessionFails(q)
           /\ faults = 0
<1>1. ~Fails
  BY DEF Fails, TypeInv, StopTypes
<1>2. /\ ~AcceptPipeFails /\ ~ListenFails /\ ~AcceptFails /\ ~PassFails
      /\ \A k \in IoTask : ~PipeConnectFails(k) /\ ~PipeReadFails(k) /\ ~ReadStartFails(k)
      /\ \A q \in Queue : ~CreateSessionFails(q)
  BY <1>1 DEF AcceptPipeFails, ListenFails, AcceptFails, PassFails, PipeConnectFails,
              PipeReadFails, ReadStartFails, CreateSessionFails
<1>3. faults = 0
  <2>1. CASE UNCHANGED vars
    BY <2>1 DEF vars
  <2>2. CASE StartStep \/ AcceptStep \/ StopServer \/ StopStep
    BY <1>2, <2>2 DEF StartStep, AcceptPipe, HandlePipeConnect, AcceptStep, GrabConnectionData,
                      PassConnection, StopServer, StopStep, StopAcceptor, StopIoTask, PushStop
  <2>3. ASSUME NEW k \in IoTask,
               \/ HandlePipeRead(k) \/ IoFinish(k)
               \/ \E i \in Conn : OnRead(k, i) \/ OnReadError(k, i)
               \/ \E write \in asyncWrites : AsyncWrite(k, write)
        PROVE  faults = 0
    BY <2>3 DEF HandlePipeRead, IoFinish, AssignQueueId, OnDisconnect, PushEvent, OnRead,
                OnReadError, AsyncWrite
  <2>4. ASSUME NEW q \in Queue, WorkerStep(q)
        PROVE  faults = 0
    BY <1>2, <2>4 DEF WorkerStep, StartDrain, EndDrain, OnConnectCheck, CreateSession,
                      OnDisconnectCheck, DeleteSession, OnMsg, OnStop
  <2> QED BY <1>2, <2>1, <2>2, <2>3, <2>4 DEF Next
<1> QED BY <1>2, <1>3

LEMMA NextPending == TypeInv /\ PendingInv /\ [Next]_vars => PendingInv'
<1> SUFFICES ASSUME TypeInv, PendingInv, [Next]_vars, faults' = 0
             PROVE  PendingInStep' /\ SlotsApart' /\ SlotsInUse'
  BY DEF PendingInv
<1>2. /\ ~AcceptPipeFails /\ ~ListenFails /\ ~AcceptFails /\ ~PassFails
      /\ \A k \in IoTask : ~PipeConnectFails(k) /\ ~PipeReadFails(k) /\ ~ReadStartFails(k)
      /\ \A q \in Queue : ~CreateSessionFails(q)
      /\ faults = 0
  BY NothingFails
<1>4. PendingInStep /\ SlotsApart /\ SlotsInUse
  BY <1>2 DEF PendingInv
<1>5. CASE \/ StartStep \/ (\E q \in Queue : WorkerStep(q)) \/ StopServer \/ StopStep
           \/ UNCHANGED vars
  BY <1>2, <1>4, <1>5, PendingOthers DEF StartStep
<1>6. CASE AcceptStep
  BY <1>2, <1>4, <1>6, PendingGrab, PendingPass DEF AcceptStep
<1>7. ASSUME NEW k \in IoTask, HandlePipeRead(k)
      PROVE  PendingInStep' /\ SlotsApart' /\ SlotsInUse'
  BY <1>4, <1>7, PendingPipeRead
<1>8. ASSUME NEW k \in IoTask, IoFinish(k)
      PROVE  PendingInStep' /\ SlotsApart' /\ SlotsInUse'
  BY <1>4, <1>8, PendingCallback, PendingPush DEF IoFinish
<1>9. ASSUME NEW k \in IoTask, NEW i \in Conn, OnRead(k, i) \/ OnReadError(k, i)
      PROVE  PendingInStep' /\ SlotsApart' /\ SlotsInUse'
  BY <1>4, <1>9, PendingCallback, PendingReadError
<1>10. ASSUME NEW k \in IoTask, NEW write \in asyncWrites, AsyncWrite(k, write)
       PROVE  PendingInStep' /\ SlotsApart' /\ SlotsInUse'
  BY <1>4, <1>10, PendingCallback
<1> QED BY <1>2, <1>5, <1>6, <1>7, <1>8, <1>9, <1>10 DEF Next

LEMMA InitPending == Init => PendingInv
<1> SUFFICES ASSUME Init PROVE PendingInStep /\ SlotsApart /\ SlotsInUse
  BY DEF PendingInv
<1>1. \A k \in IoTask : ~Connecting(k)
  BY ServerRecords DEF Init, Connecting
<1>2. \A k \in IoTask : Len(pipe[k]) = 0 /\ Len(pendingConns[k]) = 0
  BY DEF Init
<1>3. acceptor.pc # "pass" /\ \A i \in Conn : conns[i].client = NoClient
  BY DEF Init
<1> QED BY <1>1, <1>2, <1>3 DEF PendingInStep, SlotsApart, SlotsInUse

(***************************************************************************)
(* As long as no call has failed, the connection that handlePipeRead takes *)
(* from the list of pending connections is the one whose socket is on the  *)
(* pipe, "sure to be correlated with callback order": the list and the     *)
(* pipe hold the same connections in the same order, and a slot that waits *)
(* in the list is in use, so that nobody gives it another id meanwhile.    *)
(***************************************************************************)
THEOREM PendingAlwaysMatches == Spec => []PendingMatchesPipe
<1>1. TypeInv /\ PendingInv => PendingMatchesPipe
  <2> SUFFICES ASSUME TypeInv, PendingInv, faults = 0, NEW k \in IoTask, pipe[k] # <<>>
               PROVE  conns[Head(pendingConns[k])].id = Head(pipe[k])
    BY DEF PendingMatchesPipe
  <2>1. pipe[k] \in Seq(Client) /\ pendingConns[k] \in Seq(Conn)
    BY DEF TypeInv, ConnInv
  <2>2. /\ Len(pendingConns[k]) = Len(pipe[k])
        /\ \A n \in 1 .. Len(pipe[k]) : conns[pendingConns[k][n]].id = pipe[k][n]
    BY DEF PendingInv, PendingInStep
  <2>3. 1 \in 1 .. Len(pipe[k]) /\ Head(pipe[k]) = pipe[k][1]
    BY <2>1
  <2>4. Head(pendingConns[k]) = pendingConns[k][1]
    BY <2>1, <2>2, <2>3
  <2> QED BY <2>2, <2>3, <2>4
<1>2. TypeInv /\ PendingInv /\ [Next]_vars => PendingInv'
  BY NextPending
<1> QED BY <1>1, <1>2, InitPending, TypesAlways, PTL DEF Spec
===============================================================================
