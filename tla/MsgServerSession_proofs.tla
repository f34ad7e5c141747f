------------------------ MODULE MsgServerSession_proofs ------------------------
(***************************************************************************)
(* Proof that the sessions of MsgServer follow the connections of          *)
(* TcpServer when one worker handles all events and no call fails, for any *)
(* number of slots, I/O tasks, clients and messages.                       *)
(***************************************************************************)
EXTENDS MsgServer_proofs, NaturalsInduction, WellFoundedInduction

(* The session of slot i after event e, if it was s before. *)
AfterEvent(e, i, s) ==
    IF e.type = "ET_CONNECT" /\ e.conn = i THEN e.id
    ELSE IF e.type = "ET_DISCONNECT" /\ e.conn = i THEN NoClient
    ELSE s

(* A connection is announced to a slot without session, the end of one to  *)
(* a slot with a session.                                                  *)
Expected(e, i, s) ==
    e.conn = i => /\ e.type = "ET_CONNECT" => s = NoClient
                  /\ e.type = "ET_DISCONNECT" => s # NoClient

(* Handling the events of queue one after the other takes slot i from      *)
(* session s to session t, by the sessions that f lists, and every event   *)
(* finds the session it expects.                                           *)
Passes(f, i, queue, s, t) ==
    /\ f \in [0 .. Len(queue) -> ClientOrNone]
    /\ f[0] = s /\ f[Len(queue)] = t
    /\ \A n \in 1 .. Len(queue) : /\ f[n] = AfterEvent(queue[n], i, f[n - 1])
                                  /\ Expected(queue[n], i, f[n - 1])

Leads(i, queue, s, t) == \E f : Passes(f, i, queue, s, t)

(* The end of the connection of slot i is on its way to the queue. *)
Disconnecting(k, i) ==
    /\ io[k].conn = i
    /\ io[k].pc = "disconnect" \/ (io[k].pc = "push" /\ io[k].evt.type = "ET_DISCONNECT")

(* The client of slot i as far as the queue has heard. *)
Announced(i) ==
    IF Disconnecting(IoTaskOf(i), i) THEN io[IoTaskOf(i)].client ELSE conns[i].client

(* The events in the queue take the sessions to the connections. *)
SessionsForetold == \A i \in Conn : Leads(i, eventQueue[0], sessions[i], Announced(i))

(* onConnect copies the details of its own client. *)
DetailsOfClient ==
    \A k \in IoTask :
        /\ io[k].pc = "assign" => conns[io[k].conn].id = io[k].client
        /\ io[k].pc = "push" /\ io[k].evt.type = "ET_CONNECT" => io[k].evt.id = io[k].client

(* A slot whose end is still to be announced is not read from. *)
ClosedFirst == \A k \in IoTask, i \in Conn : Disconnecting(k, i) => conns[i].client = NoClient

(* A handler is in the middle of the event it began with. *)
HandlersMatch ==
    \A q \in Queue : /\ worker[q].pc = "create" => Oldest(q).type = "ET_CONNECT"
                     /\ worker[q].pc = "delete" => Oldest(q).type = "ET_DISCONNECT"

SessionParts == SessionsForetold /\ DetailsOfClient /\ ClosedFirst /\ HandlersMatch

SessionInv == faults = 0 => SessionParts

-------------------------------------------------------------------------------
(* Leads, for the empty queue, after a push and after a pop. *)

LEMMA AfterTyped ==
    ASSUME NEW e \in Event, NEW i, NEW s \in ClientOrNone
    PROVE  AfterEvent(e, i, s) \in ClientOrNone
  BY DEF AfterEvent, Event, ClientOrNone

LEMMA LeadsNowhere ==
    ASSUME NEW i, NEW s \in ClientOrNone
    PROVE  Leads(i, <<>>, s, s)
<1> DEFINE f == [n \in 0 .. 0 |-> s]
<1>1. Passes(f, i, <<>>, s, s)
  BY DEF Passes
<1> QED BY <1>1 DEF Leads

LEMMA LeadsPush ==
    ASSUME NEW i, NEW queue \in Seq(Event), NEW s, NEW t, NEW e \in Event,
           Leads(i, queue, s, t), Expected(e, i, t)
    PROVE  Leads(i, Append(queue, e), s, AfterEvent(e, i, t))
<1>1. PICK f : Passes(f, i, queue, s, t)
  BY DEF Leads
<1> DEFINE len == Len(queue)
           new == Append(queue, e)
           u == AfterEvent(e, i, t)
           g == [n \in 0 .. len + 1 |-> IF n = len + 1 THEN u ELSE f[n]]
<1>2. /\ len \in Nat /\ Len(new) = len + 1 /\ new[len + 1] = e
      /\ \A n \in 1 .. len : new[n] = queue[n]
  BY AppendElements
<1>3. /\ f \in [0 .. len -> ClientOrNone] /\ f[0] = s /\ f[len] = t
      /\ \A n \in 1 .. len : f[n] = AfterEvent(queue[n], i, f[n - 1]) /\ Expected(queue[n], i, f[n - 1])
  BY <1>1 DEF Passes
<1>4. t \in ClientOrNone /\ u \in ClientOrNone
  BY <1>2, <1>3, AfterTyped
<1> HIDE DEF new, u, len
<1>5. /\ g \in [0 .. len + 1 -> ClientOrNone]
      /\ g[len + 1] = u /\ \A n \in 0 .. len : g[n] = f[n]
  BY <1>2, <1>3, <1>4
<1> HIDE DEF g
<1>6. g[0] = s /\ g[len] = t
  BY <1>2, <1>3, <1>5
<1>7. ASSUME NEW n \in 1 .. len + 1
      PROVE  g[n] = AfterEvent(new[n], i, g[n - 1]) /\ Expected(new[n], i, g[n - 1])
  <2>1. CASE n = len + 1
    <3>1. n - 1 = len
      BY <1>2, <2>1
    <3> QED BY <1>2, <1>5, <1>6, <2>1, <3>1 DEF u
  <2>2. CASE n # len + 1
    <3>1. n \in 1 .. len /\ n \in 0 .. len /\ n - 1 \in 0 .. len
      BY <1>2, <2>2
    <3> QED BY <1>2, <1>3, <1>5, <3>1
  <2> QED BY <2>1, <2>2
<1>8. Passes(g, i, new, s, u)
  BY <1>2, <1>5, <1>6, <1>7 DEF Passes
<1> QED BY <1>8 DEF Leads, new, u

LEMMA LeadsPop ==
    ASSUME NEW i, NEW queue \in Seq(Event), queue # <<>>, NEW s, NEW t, Leads(i, queue, s, t)
    PROVE  /\ Expected(Head(queue), i, s)
           /\ Leads(i, Tail(queue), AfterEvent(Head(queue), i, s), t)
<1>1. PICK f : Passes(f, i, queue, s, t)
  BY DEF Leads
<1> DEFINE len == Len(queue)
           rest == Tail(queue)
           g == [n \in 0 .. len - 1 |-> f[n + 1]]
<1>2. /\ len \in Nat \ {0} /\ Len(rest) = len - 1 /\ Head(queue) = queue[1]
      /\ \A n \in 1 .. len - 1 : rest[n] = queue[n + 1]
  BY TailElements
<1>3. /\ f \in [0 .. len -> ClientOrNone] /\ f[0] = s /\ f[len] = t
      /\ \A n \in 1 .. len : f[n] = AfterEvent(queue[n], i, f[n - 1]) /\ Expected(queue[n], i, f[n - 1])
  BY <1>1 DEF Passes
<1> HIDE DEF rest, len
<1>4. f[1] = AfterEvent(Head(queue), i, s) /\ Expected(Head(queue), i, s)
  <2>1. 1 \in 1 .. len /\ 1 - 1 = 0
    BY <1>2
  <2> QED BY <1>2, <1>3, <2>1
<1>5. /\ g \in [0 .. len - 1 -> ClientOrNone]
      /\ \A n \in 0 .. len - 1 : g[n] = f[n + 1]
  BY <1>2, <1>3
<1> HIDE DEF g
<1>6. g[0] = f[1] /\ g[len - 1] = t
  BY <1>2, <1>3, <1>5
<1>7. ASSUME NEW n \in 1 .. len - 1
      PROVE  g[n] = AfterEvent(rest[n], i, g[n - 1]) /\ Expected(rest[n], i, g[n - 1])
  <2>1. /\ n \in 0 .. len - 1 /\ n - 1 \in 0 .. len - 1 /\ n + 1 \in 1 .. len
        /\ (n + 1) - 1 = n /\ (n - 1) + 1 = n
    BY <1>2
  <2>2. g[n] = f[n + 1] /\ g[n - 1] = f[n]
    BY <1>5, <2>1
  <2>3. /\ f[n + 1] = AfterEvent(queue[n + 1], i, f[n])
        /\ Expected(queue[n + 1], i, f[n])
    BY <1>3, <2>1
  <2> QED BY <1>2, <2>2, <2>3
<1>8. Passes(g, i, rest, f[1], t)
  BY <1>2, <1>5, <1>6, <1>7 DEF Passes
<1> QED BY <1>4, <1>8 DEF Leads, rest

(* A queue without events of the slot leads from its session to itself:    *)
(* otherwise there would be a first event that changed it.                 *)
LEMMA LeadsAround ==
    ASSUME NEW i, NEW queue \in Seq(Event), NEW s, NEW t, Leads(i, queue, s, t),
           \A n \in 1 .. Len(queue) : queue[n].type = "ET_STOP" \/ queue[n].conn # i
    PROVE  s = t
<1>1. PICK f : Passes(f, i, queue, s, t)
  BY DEF Leads
<1> DEFINE len == Len(queue)
           Changed == {n \in 0 .. len : f[n] # s}
<1>2. len \in Nat
  OBVIOUS
<1>3. /\ f[0] = s /\ f[len] = t
      /\ \A n \in 1 .. len : f[n] = AfterEvent(queue[n], i, f[n - 1])
  BY <1>1 DEF Passes
<1> SUFFICES ASSUME s # t PROVE FALSE
  OBVIOUS
<1>4. Changed \in SUBSET Nat /\ Changed # {}
  BY <1>2, <1>3
<1>5. PICK x \in Changed : \A y \in Changed : ~(<<y, x>> \in OpToRel(<, Nat))
  BY <1>4, NatLessThanWellFounded, WFMin, Zenon
<1>6. x \in 1 .. len /\ x - 1 \in Nat /\ x - 1 \in 0 .. len /\ x - 1 < x /\ x \in Nat
  BY <1>2, <1>3
<1>7. <<x - 1, x>> \in OpToRel(<, Nat)
  BY <1>6 DEF OpToRel
<1>8. f[x - 1] = s
  BY <1>5, <1>6, <1>7
<1>9. f[x] = f[x - 1]
  BY <1>3, <1>6 DEF AfterEvent
<1> QED BY <1>8, <1>9

-------------------------------------------------------------------------------
(* The sessions and the queue of the one worker. *)

LEMMA OneQueue ==
    ASSUME Concurrency = 1
    PROVE  Queue = {0}
  BY DEF Queue

LEMMA ForetoldKept ==
    ASSUME SessionsForetold, UNCHANGED <<eventQueue, sessions>>,
           \A i \in Conn : Announced(i)' = Announced(i)
    PROVE  SessionsForetold'
  BY DEF SessionsForetold

LEMMA ForetoldPush ==
    ASSUME TypeInv, SessionsForetold, Concurrency = 1, UNCHANGED sessions,
           NEW STATE q, q \in Queue, NEW STATE e, e \in Event, Push(q, e),
           \A i \in Conn : /\ Expected(e, i, Announced(i))
                           /\ Announced(i)' = AfterEvent(e, i, Announced(i))
    PROVE  SessionsForetold'
<1>1. 0 \in Queue /\ q = 0
  BY OneQueue
<1>2. eventQueue[0] \in Seq(Event) /\ eventQueue'[0] = Append(eventQueue[0], e)
  BY <1>1 DEF Push, TypeInv, QueueInv
<1>3. ASSUME NEW i \in Conn
      PROVE  Leads(i, eventQueue'[0], sessions'[i], Announced(i)')
  <2>1. Leads(i, eventQueue[0], sessions[i], Announced(i))
    BY DEF SessionsForetold
  <2> HIDE DEF Announced
  <2>2. Leads(i, Append(eventQueue[0], e), sessions[i], AfterEvent(e, i, Announced(i)))
    BY <1>2, <2>1, LeadsPush
  <2> QED BY <1>2, <2>2
<1> QED BY <1>3 DEF SessionsForetold

LEMMA ForetoldPop ==
    ASSUME TypeInv, SessionsForetold, eventQueue[0] # <<>>, 0 \in Queue,
           eventQueue'[0] = Tail(eventQueue[0]),
           \A i \in Conn : /\ sessions'[i] = AfterEvent(Oldest(0), i, sessions[i])
                           /\ Announced(i)' = Announced(i)
    PROVE  SessionsForetold'
<1>1. eventQueue[0] \in Seq(Event)
  BY DEF TypeInv, QueueInv
<1>2. ASSUME NEW i \in Conn
      PROVE  Leads(i, eventQueue'[0], sessions'[i], Announced(i)')
  <2>1. Leads(i, eventQueue[0], sessions[i], Announced(i))
    BY DEF SessionsForetold
  <2>2. Leads(i, Tail(eventQueue[0]), AfterEvent(Head(eventQueue[0]), i, sessions[i]), Announced(i))
    BY <1>1, <2>1, LeadsPop
  <2> QED BY <2>2 DEF Oldest
<1> QED BY <1>2 DEF SessionsForetold

(* The oldest event finds the session it expects. *)
LEMMA OldestExpected ==
    ASSUME TypeInv, SessionsForetold, eventQueue[0] # <<>>, 0 \in Queue, Oldest(0).conn \in Conn
    PROVE  Expected(Oldest(0), Oldest(0).conn, sessions[Oldest(0).conn])
<1>1. eventQueue[0] \in Seq(Event)
  BY DEF TypeInv, QueueInv
<1>2. Leads(Oldest(0).conn, eventQueue[0], sessions[Oldest(0).conn], Announced(Oldest(0).conn))
  BY DEF SessionsForetold
<1> QED BY <1>1, <1>2, LeadsPop DEF Oldest

-------------------------------------------------------------------------------
LEMMA InitSession == Init => SessionParts
<1> SUFFICES ASSUME Init PROVE SessionParts
  OBVIOUS
<1>1. \A k \in IoTask : io[k].pc = "idle"
  BY ServerRecords DEF Init
<1>2. \A i \in Conn : IoTaskOf(i) \in IoTask
  BY ServerNumbers
<1>3. \A i \in Conn : Announced(i) = NoClient
  BY <1>1, <1>2 DEF Init, Announced, Disconnecting
<1>4. eventQueue[0] = <<>> /\ \A i \in Conn : sessions[i] = NoClient
  BY ServerNumbers DEF Init
<1>5. NoClient \in ClientOrNone
  BY DEF ClientOrNone
<1>6. SessionsForetold
  BY <1>3, <1>4, <1>5, LeadsNowhere DEF SessionsForetold
<1>7. DetailsOfClient /\ ClosedFirst
  BY <1>1 DEF DetailsOfClient, ClosedFirst, Disconnecting
<1>8. HandlersMatch
  BY DEF Init, HandlersMatch
<1> QED BY <1>6, <1>7, <1>8 DEF SessionParts

(* The queue, the worker and the sessions stay; a slot that a callback is  *)
(* about keeps its id, and the readers are the same.                       *)
LEMMA SessionKept ==
    ASSUME TypeInv, SessionParts, UNCHANGED <<eventQueue, worker, sessions>>,
           \A k \in IoTask : io'[k] = io[k] \/ (io[k].pc = "idle" /\ io'[k].pc = "stopped"),
           \A i \in Conn : conns'[i].client = conns[i].client,
           \A k \in IoTask : io[k].pc = "assign" => conns'[io[k].conn].id = conns[io[k].conn].id
    PROVE  SessionParts'
<1>1. \A k \in IoTask, i \in Conn : Disconnecting(k, i)' <=> Disconnecting(k, i)
  BY DEF Disconnecting
<1>2. \A k \in IoTask, i \in Conn : Disconnecting(k, i) => io'[k] = io[k]
  BY DEF Disconnecting
<1>3. \A i \in Conn : IoTaskOf(i) \in IoTask
  BY ServerNumbers
<1>4. \A i \in Conn : Announced(i)' = Announced(i)
  BY <1>1, <1>2, <1>3 DEF Announced
<1>5. SessionsForetold'
  BY <1>4, ForetoldKept DEF SessionParts
<1>6. DetailsOfClient'
  BY DEF SessionParts, DetailsOfClient
<1>7. ClosedFirst'
  BY <1>1 DEF SessionParts, ClosedFirst
<1>8. HandlersMatch'
  BY DEF SessionParts, HandlersMatch, Oldest
<1> QED BY <1>5, <1>6, <1>7, <1>8 DEF SessionParts

(* Start-up, the accept loop, the replies and stop() leave all this alone. *)
LEMMA SessionOthers ==
    ASSUME TypeInv, SessionParts, SlotsInUse,
           \/ AcceptPipe \/ (\E k \in IoTask : HandlePipeConnect(k))
           \/ GrabConnectionData \/ PassConnection
           \/ (\E k \in IoTask : \E write \in asyncWrites : AsyncWrite(k, write))
           \/ StopServer \/ StopAcceptor \/ (\E k \in IoTask : StopIoTask(k)) \/ UNCHANGED vars
    PROVE  SessionParts'
<1>1. UNCHANGED <<eventQueue, worker, sessions>>
  BY DEF AcceptPipe, HandlePipeConnect, GrabConnectionData, PassConnection, AsyncWrite, StopServer,
         StopAcceptor, StopIoTask, vars, serverVars
<1>2. \A k \in IoTask : io'[k] = io[k] \/ (io[k].pc = "idle" /\ io'[k].pc = "stopped")
  <2>1. ASSUME NEW k \in IoTask, StopIoTask(k)
        PROVE  \A j \in IoTask : io'[j] = io[j] \/ (io[j].pc = "idle" /\ io'[j].pc = "stopped")
    <3>1. io[k].pc = "idle" /\ io' = [io EXCEPT ![k].pc = "stopped"]
      BY <2>1 DEF StopIoTask
    <3>2. io'[k].pc = "stopped" /\ \A j \in IoTask : j # k => io'[j] = io[j]
      BY <3>1 DEF TypeInv, IoInv, IoType
    <3> QED BY <3>1, <3>2
  <2>2. (\E k \in IoTask : StopIoTask(k)) \/ UNCHANGED io
    BY DEF AcceptPipe, HandlePipeConnect, GrabConnectionData, PassConnection, AsyncWrite,
           StopServer, StopAcceptor, vars
  <2> QED BY <2>1, <2>2
<1>3. /\ \A i \in Conn : conns'[i].client = conns[i].client
      /\ \A i \in Conn : conns[i].used => conns'[i].id = conns[i].id
  <2>1. CASE GrabConnectionData
    <3>1. \/ conns' = conns
          \/ /\ ~conns[acceptor.conn].used
             /\ conns' = [conns EXCEPT ![acceptor.conn].used = TRUE,
                                       ![acceptor.conn].id = nextConnectionId]
      BY <2>1 DEF GrabConnectionData
    <3>2. acceptor.conn \in Conn /\ conns \in [Conn -> ConnType]
      BY DEF TypeInv, StartInv, ConnInv
    <3>3. CASE conns' = [conns EXCEPT ![acceptor.conn].used = TRUE,
                                      ![acceptor.conn].id = nextConnectionId]
      <4>1. \A i \in Conn : i # acceptor.conn => conns'[i] = conns[i]
        BY <3>2, <3>3
      <4>2. conns'[acceptor.conn].client = conns[acceptor.conn].client
        BY <3>2, <3>3 DEF ConnType
      <4> QED BY <3>1, <4>1, <4>2
    <3> QED BY <3>1, <3>3
  <2>2. CASE ~GrabConnectionData
    <3>1. UNCHANGED conns
      BY <2>2 DEF AcceptPipe, HandlePipeConnect, PassConnection, AsyncWrite, StopServer,
                  StopAcceptor, StopIoTask, vars, connVars
    <3> QED BY <3>1
  <2> QED BY <2>1, <2>2
<1>4. \A k \in IoTask : io[k].pc = "assign" => conns'[io[k].conn].id = conns[io[k].conn].id
  <2>1. \A k \in IoTask : io[k].conn \in Conn
    BY DEF TypeInv, IoInv, IoType
  <2> QED BY <1>3, <2>1 DEF SlotsInUse, Connecting
<1> QED BY <1>1, <1>2, <1>3, <1>4, SessionKept

(* MsgMultiplexer::stop pushes an event that is about no slot. *)
LEMMA SessionPushStop ==
    ASSUME TypeInv, SessionParts, Concurrency = 1, PushStop
    PROVE  SessionParts'
<1> DEFINE e == StopEvent(stopsSent)
<1>1. /\ Push(stopsSent, e) /\ UNCHANGED <<io, conns, worker, sessions>>
      /\ stopsSent < Concurrency
  BY DEF PushStop, connVars, serverVars
<1>2. stopsSent \in Queue
  BY <1>1, SizeAssumption DEF TypeInv, StopTypes, Queue
<1>3. e \in Event /\ e.type = "ET_STOP"
  BY <1>2, ServerRecords DEF StopEvent
<1> HIDE DEF e
<1>4. \A i \in Conn : Announced(i)' = Announced(i)
  BY <1>1 DEF Announced, Disconnecting
<1>5. \A i \in Conn : /\ Expected(e, i, Announced(i))
                      /\ AfterEvent(e, i, Announced(i)) = Announced(i)
  BY <1>3 DEF Expected, AfterEvent
<1>6. SessionsForetold'
  BY <1>1, <1>2, <1>3, <1>4, <1>5, ForetoldPush DEF SessionParts
<1>7. DetailsOfClient' /\ ClosedFirst'
  BY <1>1 DEF SessionParts, DetailsOfClient, ClosedFirst, Disconnecting
<1>8. HandlersMatch'
  <2>1. \A q \in Queue : worker'[q].pc \notin {"create", "delete"}
    BY <1>1, <1>2, OneQueue DEF Push, Unlocked
  <2> QED BY <2>1 DEF HandlersMatch
<1> QED BY <1>6, <1>7, <1>8 DEF SessionParts

-------------------------------------------------------------------------------
(* The callbacks of an I/O task. *)

(* A callback of task k that tells the queue nothing yet. *)
LEMMA SessionCallback ==
    ASSUME TypeInv, SessionParts, NEW k \in IoTask,
           UNCHANGED <<eventQueue, worker, sessions>>,
           \A j \in IoTask : j # k => io'[j] = io[j],
           \A i \in Conn : conns'[i].id = conns[i].id,
           \A i \in Conn : Announced(i)' = Announced(i),
           \A i \in Conn : conns'[i].client \in {conns[i].client, NoClient},
           \A i \in Conn : Disconnecting(k, i)' => conns'[i].client = NoClient,
           io'[k].pc = "assign" => conns[io'[k].conn].id = io'[k].client /\ io'[k].conn \in Conn,
           io'[k].pc = "push" /\ io'[k].evt.type = "ET_CONNECT" => io'[k].evt.id = io'[k].client
    PROVE  SessionParts'
<1>1. SessionsForetold'
  BY ForetoldKept DEF SessionParts
<1>2. DetailsOfClient'
  <2>1. \A j \in IoTask : io[j].conn \in Conn
    BY DEF TypeInv, IoInv, IoType
  <2> QED BY <2>1 DEF SessionParts, DetailsOfClient
<1>3. ClosedFirst'
  <2>1. \A j \in IoTask, i \in Conn : j # k /\ Disconnecting(j, i)' => Disconnecting(j, i)
    BY DEF Disconnecting
  <2> QED BY <2>1 DEF SessionParts, ClosedFirst
<1>4. HandlersMatch'
  BY DEF SessionParts, HandlersMatch, Oldest
<1> QED BY <1>1, <1>2, <1>3, <1>4 DEF SessionParts

(* handlePipeRead takes a slot that nobody reads from, and its client. *)
LEMMA SessionPipeRead ==
    ASSUME TypeInv, SessionParts, PendingInStep, NEW k \in IoTask, HandlePipeRead(k)
    PROVE  SessionParts'
<1> DEFINE i == Head(pendingConns[k])
<1>1. /\ pipe[k] # <<>> /\ i \in Conn /\ IoTaskOf(i) = k
      /\ io[k].pc = "idle" /\ io'[k].pc = "assign" /\ io'[k].client = Head(pipe[k])
      /\ io'[k].conn = i
      /\ \A j \in IoTask : j # k => io'[j] = io[j]
      /\ conns'[i].client = NoClient
      /\ \A j \in Conn : conns'[j].id = conns[j].id /\ (j # i => conns'[j] = conns[j])
      /\ \A j \in Conn : conns'[j].client \in {conns[j].client, NoClient}
  BY PipeReadEffect
<1>2. UNCHANGED <<eventQueue, worker, sessions>>
  BY DEF HandlePipeRead, serverVars
<1>3. conns[i].id = Head(pipe[k]) /\ conns[i].client = NoClient
  <2>1. pipe[k] \in Seq(Client) /\ pendingConns[k] \in Seq(Conn)
    BY DEF TypeInv, ConnInv
  <2>2. 1 \in 1 .. Len(pipe[k]) /\ Head(pipe[k]) = pipe[k][1]
    BY <1>1, <2>1, TailElements
  <2>3. Len(pendingConns[k]) = Len(pipe[k])
    BY DEF PendingInStep
  <2>4. i = pendingConns[k][1]
    BY <2>1, <2>2, <2>3
  <2>5. conns[pendingConns[k][1]].id = pipe[k][1] /\ conns[pendingConns[k][1]].client = NoClient
    BY <2>2 DEF PendingInStep
  <2> QED BY <2>2, <2>4, <2>5
<1> HIDE DEF i
<1>4. \A j \in Conn : ~Disconnecting(k, j) /\ ~Disconnecting(k, j)'
  BY <1>1 DEF Disconnecting
<1>5. \A j \in Conn : Announced(j)' = Announced(j)
  <2>1. \A j \in Conn : conns'[j].client = conns[j].client
    BY <1>1, <1>3
  <2>2. \A j \in Conn : IoTaskOf(j) \in IoTask
    BY ServerNumbers
  <2> QED BY <1>1, <1>4, <2>1, <2>2 DEF Announced, Disconnecting
<1> QED BY <1>1, <1>2, <1>3, <1>4, <1>5, SessionCallback

(* A callback that neither begins nor ends the report of a lost connection. *)
LEMMA AnnouncedKept ==
    ASSUME TypeInv, NEW k \in IoTask, UNCHANGED conns,
           \A j \in IoTask : j # k => io'[j] = io[j],
           \A i \in Conn : ~Disconnecting(k, i) /\ ~Disconnecting(k, i)'
    PROVE  \A i \in Conn : Announced(i)' = Announced(i)
<1>1. \A i \in Conn : IoTaskOf(i) \in IoTask
  BY ServerNumbers
<1> QED BY <1>1 DEF Announced, Disconnecting

(* onConnect copies the details of the slot. *)
LEMMA SessionAssign ==
    ASSUME TypeInv, SessionParts, NEW k \in IoTask, AssignQueueId(k)
    PROVE  SessionParts'
<1> DEFINE i == io[k].conn
           evt == NewEvent("ET_CONNECT", i, io[k].client, 0)
<1>1. /\ io[k].pc = "assign" /\ StartPush(k, evt, io[k].queue)
      /\ UNCHANGED <<eventQueue, worker, sessions, conns>>
  BY DEF AssignQueueId, connVars, serverVars
<1>2. i \in Conn /\ io[k].queue \in Queue /\ io[k].client \in Client
  BY <1>1 DEF TypeInv, IoInv, IoType, CallbackNamed
<1>3. evt \in Event /\ evt.type = "ET_CONNECT" /\ evt.conn = i /\ evt.from = io[k].client
  BY <1>2, NewEventTyped, ServerBoundAssumption DEF EventType, TypeInv
<1>4. evt.id = io[k].client
  BY <1>1 DEF NewEvent, SessionParts, DetailsOfClient
<1>5. /\ io'[k].pc = "push" /\ io'[k].client = io[k].client /\ io'[k].evt = evt
      /\ \A j \in IoTask : j # k => io'[j] = io[j]
  BY <1>1, <1>2, <1>3, PushStarted DEF TypeInv, IoInv
<1> HIDE DEF i, evt
<1>6. \A j \in Conn : ~Disconnecting(k, j) /\ ~Disconnecting(k, j)'
  BY <1>1, <1>3, <1>5 DEF Disconnecting
<1>7. \A j \in Conn : Announced(j)' = Announced(j)
  BY <1>1, <1>5, <1>6, AnnouncedKept
<1> QED BY <1>1, <1>3, <1>4, <1>5, <1>6, <1>7, SessionCallback

(* A message begins its way to the queue. *)
LEMMA SessionRead ==
    ASSUME TypeInv, SessionParts, NEW k \in IoTask, NEW i \in Conn, OnRead(k, i)
    PROVE  SessionParts'
<1>1. /\ io[k].pc = "idle" /\ io'[k].pc = "push" /\ io'[k].evt.type = "ET_MSG"
      /\ \A j \in IoTask : j # k => io'[j] = io[j]
  BY ReadEffect
<1>2. UNCHANGED <<eventQueue, worker, sessions, conns>>
  BY DEF OnRead, connVars, serverVars
<1>3. \A j \in Conn : ~Disconnecting(k, j) /\ ~Disconnecting(k, j)'
  BY <1>1 DEF Disconnecting
<1>4. \A j \in Conn : Announced(j)' = Announced(j)
  BY <1>1, <1>2, <1>3, AnnouncedKept
<1> QED BY <1>1, <1>2, <1>3, <1>4, SessionCallback

(* The slot is free before the end of its connection is announced; the     *)
(* callback remembers the client.                                          *)
LEMMA SessionReadError ==
    ASSUME TypeInv, SessionParts, NEW k \in IoTask, NEW i \in Conn, OnReadError(k, i)
    PROVE  SessionParts'
<1>1. /\ IoTaskOf(i) = k /\ io[k].pc = "idle" /\ io'[k].pc = "disconnect"
      /\ \A j \in IoTask : j # k => io'[j] = io[j]
      /\ \A j \in Conn : /\ conns'[j].id = conns[j].id
                         /\ conns'[j].client \in {conns[j].client, NoClient}
                         /\ j # i => conns'[j] = conns[j]
      /\ conns'[i].client = NoClient
  BY ReadErrorEffect
<1>2. /\ UNCHANGED <<eventQueue, worker, sessions>>
      /\ io' = [io EXCEPT ![k].pc = "disconnect", ![k].conn = i, ![k].client = conns[i].client]
  BY DEF OnReadError, serverVars
<1>3. io'[k].conn = i /\ io'[k].client = conns[i].client
  BY <1>2 DEF TypeInv, IoInv, IoType
<1>4. /\ \A j \in Conn : ~Disconnecting(k, j)
      /\ Disconnecting(k, i)' /\ \A j \in Conn : j # i => ~Disconnecting(k, j)'
  BY <1>1, <1>3 DEF Disconnecting
<1>5. Announced(i)' = Announced(i)
  BY <1>1, <1>3, <1>4 DEF Announced
<1>6. ASSUME NEW j \in Conn, j # i
      PROVE  Announced(j)' = Announced(j)
  <2>1. IoTaskOf(j) \in IoTask /\ conns'[j] = conns[j]
    BY <1>1, <1>6, ServerNumbers
  <2>2. CASE IoTaskOf(j) = k
    BY <1>4, <1>6, <2>1, <2>2 DEF Announced
  <2>3. CASE IoTaskOf(j) # k
    BY <1>1, <2>1, <2>3 DEF Announced, Disconnecting
  <2> QED BY <2>2, <2>3
<1> QED BY <1>1, <1>2, <1>4, <1>5, <1>6, SessionCallback

(* onDisconnect makes the event. *)
LEMMA SessionOnDisconnect ==
    ASSUME TypeInv, SessionParts, NEW k \in IoTask, OnDisconnect(k)
    PROVE  SessionParts'
<1> DEFINE i == io[k].conn
           evt == NewEvent("ET_DISCONNECT", i, io[k].client, 0)
<1>1. /\ io[k].pc = "disconnect" /\ StartPush(k, evt, connectionMap[i])
      /\ UNCHANGED <<eventQueue, worker, sessions, conns>>
  BY DEF OnDisconnect, connVars, serverVars
<1>2. i \in Conn /\ io[k].client \in Client /\ connectionMap[i] \in Queue
  BY <1>1 DEF TypeInv, IoInv, IoType, CallbackNamed
<1>3. evt \in Event /\ evt.type = "ET_DISCONNECT" /\ evt.conn = i /\ evt.from = io[k].client
  BY <1>2, NewEventTyped, ServerBoundAssumption DEF EventType, TypeInv
<1>4. /\ io'[k].pc = "push" /\ io'[k].evt = evt /\ io'[k].conn = i
      /\ io'[k].client = io[k].client
      /\ \A j \in IoTask : j # k => io'[j] = io[j]
  BY <1>1, <1>2, <1>3, PushStarted DEF TypeInv, IoInv
<1>5. \A j \in Conn : Disconnecting(k, j)' <=> Disconnecting(k, j)
  BY <1>1, <1>3, <1>4 DEF Disconnecting
<1>6. ASSUME NEW j \in Conn
      PROVE  Announced(j)' = Announced(j)
  <2>1. IoTaskOf(j) \in IoTask
    BY ServerNumbers
  <2>2. CASE IoTaskOf(j) = k
    BY <1>1, <1>4, <1>5, <2>2 DEF Announced
  <2>3. CASE IoTaskOf(j) # k
    BY <1>1, <1>4, <2>1, <2>3 DEF Announced, Disconnecting
  <2> QED BY <2>2, <2>3
<1>7. \A j \in Conn : Disconnecting(k, j)' => conns'[j].client = NoClient
  BY <1>1, <1>5 DEF SessionParts, ClosedFirst
<1> QED BY <1>1, <1>3, <1>4, <1>6, <1>7, SessionCallback

(* pushEvent: the queue hears of what the slot has become. *)
LEMMA SessionPush ==
    ASSUME TypeInv, SessionParts, Concurrency = 1, NEW k \in IoTask, PushEvent(k)
    PROVE  SessionParts'
<1> DEFINE e == io[k].evt
<1>0. PICK i \in Conn : i = io[k].conn
  BY DEF TypeInv, IoInv, IoType
<1>1. /\ io[k].pc = "push" /\ io'[k].pc = "idle" /\ i \in Conn /\ IoTaskOf(i) = k
      /\ io[k].client \in Client /\ io[k].queue \in Queue /\ e \in Event
      /\ e.conn = i /\ Push(io[k].queue, e)
      /\ \A j \in IoTask : j # k => io'[j] = io[j]
      /\ \A j \in Conn : conns'[j].id = conns[j].id
      /\ \A j \in Conn : j # i => conns'[j] = conns[j]
      /\ conns'[i].client = IF e.type = "ET_CONNECT" THEN io[k].client ELSE conns[i].client
  BY <1>0, PushEffect
<1>2. UNCHANGED <<worker, sessions>>
  BY DEF PushEvent, serverVars
<1>3. /\ e.type = "ET_CONNECT" => conns[i].client = NoClient /\ e.id = io[k].client
      /\ e.type = "ET_DISCONNECT" => conns[i].client = NoClient
  <2>1. CallbackNamed(k)
    BY DEF TypeInv, IoInv
  <2> QED BY <1>0, <1>1, <2>1 DEF CallbackNamed, Connecting, SessionParts, DetailsOfClient, ClosedFirst,
                            Disconnecting
<1>4. NoClient \notin Client
  BY ServerNumbers
<1>5. /\ \A j \in Conn : ~Disconnecting(k, j)' /\ (j # i => ~Disconnecting(k, j))
      /\ Disconnecting(k, i) <=> e.type = "ET_DISCONNECT"
  BY <1>0, <1>1 DEF Disconnecting
<1>6. /\ Announced(i) = IF e.type = "ET_DISCONNECT" THEN io[k].client ELSE conns[i].client
      /\ Announced(i)' = conns'[i].client
  BY <1>1, <1>5 DEF Announced
<1> HIDE DEF e
<1>7. Expected(e, i, Announced(i)) /\ Announced(i)' = AfterEvent(e, i, Announced(i))
  BY <1>1, <1>3, <1>4, <1>6 DEF Expected, AfterEvent
<1>8. ASSUME NEW j \in Conn, j # i
      PROVE  Expected(e, j, Announced(j)) /\ Announced(j)' = AfterEvent(e, j, Announced(j))
  <2>1. IoTaskOf(j) \in IoTask /\ conns'[j] = conns[j]
    BY <1>1, <1>8, ServerNumbers
  <2>2. CASE IoTaskOf(j) = k
    BY <1>1, <1>5, <1>8, <2>1, <2>2 DEF Announced, Expected, AfterEvent
  <2>3. CASE IoTaskOf(j) # k
    <3>1. Announced(j)' = Announced(j)
      BY <1>1, <2>1, <2>3 DEF Announced, Disconnecting
    <3> QED BY <1>1, <1>8, <3>1 DEF Expected, AfterEvent
  <2> QED BY <2>2, <2>3
<1>9. SessionsForetold'
  <2>1. \A j \in Conn : /\ Expected(e, j, Announced(j))
                        /\ Announced(j)' = AfterEvent(e, j, Announced(j))
    BY <1>7, <1>8
  <2>2. /\ e \in Event /\ io[k].queue \in Queue /\ Push(io[k].queue, e) /\ UNCHANGED sessions
        /\ SessionsForetold
    BY <1>1, <1>2 DEF SessionParts
  <2> QED BY <2>1, <2>2, ForetoldPush
<1>10. DetailsOfClient'
  <2>1. \A j \in IoTask : io[j].conn \in Conn
    BY DEF TypeInv, IoInv, IoType
  <2> QED BY <1>1, <2>1 DEF SessionParts, DetailsOfClient
<1>11. ClosedFirst'
  <2> SUFFICES ASSUME NEW j \in IoTask, NEW c \in Conn, Disconnecting(j, c)'
               PROVE  conns'[c].client = NoClient
    BY DEF ClosedFirst
  <2>1. j # k /\ Disconnecting(j, c)
    BY <1>1, <1>5 DEF Disconnecting
  <2>2. IoTaskOf(c) = j
    BY <2>1 DEF Disconnecting, TypeInv, IoInv, CallbackNamed
  <2>3. c # i
    BY <1>1, <2>1, <2>2
  <2> QED BY <1>1, <2>1, <2>3 DEF SessionParts, ClosedFirst
<1>12. HandlersMatch'
  <2>1. Queue = {0} /\ io[k].queue \in Queue /\ worker' = worker
    BY <1>1, <1>2, OneQueue
  <2>2. worker[io[k].queue].pc \in {"wait", "exited"}
    BY <1>1 DEF Push, Unlocked
  <2>3. \A q \in Queue : worker'[q].pc \notin {"create", "delete"}
    BY <2>1, <2>2
  <2> QED BY <2>3 DEF HandlersMatch
<1> QED BY <1>9, <1>10, <1>11, <1>12 DEF SessionParts

-------------------------------------------------------------------------------
(* The worker. *)

(* A step of the worker concerns neither the slots nor the callbacks. *)
LEMMA WorkerLeaves ==
    ASSUME TypeInv, SessionParts, NEW q \in Queue, WorkerStep(q)
    PROVE  /\ UNCHANGED <<io, conns>>
           /\ \A i \in Conn : Announced(i)' = Announced(i)
           /\ DetailsOfClient' /\ ClosedFirst'
<1>1. UNCHANGED <<io, conns>>
  BY DEF WorkerStep, StartDrain, EndDrain, OnConnectCheck, CreateSession, CreateSessionFails,
         OnDisconnectCheck, DeleteSession, OnMsg, OnStop, connVars
<1>2. \A i \in Conn : Announced(i)' = Announced(i)
  BY <1>1 DEF Announced, Disconnecting
<1>3. DetailsOfClient' /\ ClosedFirst'
  BY <1>1 DEF SessionParts, DetailsOfClient, ClosedFirst, Disconnecting
<1> QED BY <1>1, <1>2, <1>3

(* The worker begins or ends a round, or goes on to a handler's second half. *)
LEMMA SessionDrain ==
    ASSUME TypeInv, SessionParts, Concurrency = 1, WorkerStep(0),
           UNCHANGED <<eventQueue, sessions>>, NEW STATE next,
           worker' = [worker EXCEPT ![0].pc = next],
           next = "create" => Oldest(0).type = "ET_CONNECT",
           next = "delete" => Oldest(0).type = "ET_DISCONNECT"
    PROVE  SessionParts'
<1>1. Queue = {0}
  BY OneQueue
<1>2. worker'[0].pc = next
  BY <1>1 DEF TypeInv, QueueInv, WorkerType
<1>3. HandlersMatch'
  BY <1>1, <1>2 DEF HandlersMatch, Oldest
<1>4. SessionsForetold'
  BY <1>1, WorkerLeaves, ForetoldKept DEF SessionParts
<1> QED BY <1>1, <1>3, <1>4, WorkerLeaves DEF SessionParts

(* The oldest event is done and has had its effect on the sessions. *)
LEMMA SessionPop ==
    ASSUME TypeInv, SessionParts, Concurrency = 1, WorkerStep(0), eventQueue[0] # <<>>,
           NEW done \in BOOLEAN, Pop(0, done),
           \A i \in Conn : sessions'[i] = AfterEvent(Oldest(0), i, sessions[i])
    PROVE  SessionParts'
<1>1. Queue = {0}
  BY OneQueue
<1>2. worker'[0].pc = "drain"
  BY <1>1 DEF Pop, TypeInv, QueueInv
<1>3. HandlersMatch'
  BY <1>1, <1>2 DEF HandlersMatch
<1>4. eventQueue'[0] = Tail(eventQueue[0])
  BY <1>1 DEF Pop, TypeInv, QueueInv
<1>5. SessionsForetold'
  BY <1>1, <1>4, WorkerLeaves, ForetoldPop DEF SessionParts
<1> QED BY <1>1, <1>3, <1>5, WorkerLeaves DEF SessionParts

LEMMA SessionWorker ==
    ASSUME TypeInv, SessionParts, Concurrency = 1, WorkerStep(0), ~CreateSessionFails(0)
    PROVE  SessionParts'
<1> DEFINE e == Oldest(0)
<1>1. 0 \in Queue
  BY OneQueue
<1>2. sessions \in [Conn -> ClientOrNone]
  BY DEF TypeInv, ListenerInv
<1>3. ASSUME eventQueue[0] # <<>>, e.type # "ET_STOP"
      PROVE  e.conn \in Conn /\ Expected(e, e.conn, sessions[e.conn])
  <2>1. eventQueue[0] \in Seq(Event) /\ 1 \in 1 .. Len(eventQueue[0]) /\ e = eventQueue[0][1]
    BY <1>1, <1>3, TailElements DEF TypeInv, QueueInv, Oldest
  <2>2. Named(eventQueue[0][1])
    BY <1>1, <2>1 DEF TypeInv, QueueInv
  <2>3. e.conn \in Conn
    BY <1>3, <2>1, <2>2 DEF Named
  <2> QED BY <1>1, <1>3, <2>3, OldestExpected DEF SessionParts
<1>4. worker[0].pc = "create" => eventQueue[0] # <<>> /\ e.type = "ET_CONNECT"
  BY <1>1 DEF SessionParts, HandlersMatch, TypeInv, QueueInv
<1>5. worker[0].pc = "delete" => eventQueue[0] # <<>> /\ e.type = "ET_DISCONNECT"
  BY <1>1 DEF SessionParts, HandlersMatch, TypeInv, QueueInv
<1> HIDE DEF e
<1>6. CASE StartDrain(0) \/ EndDrain(0)
  <2>1. /\ UNCHANGED <<eventQueue, sessions>>
        /\ \E next \in {"drain", "exited", "wait"} : worker' = [worker EXCEPT ![0].pc = next]
    BY <1>6 DEF StartDrain, EndDrain, serverVars
  <2> QED BY <2>1, SessionDrain
<1>7. CASE OnConnectCheck(0)
  <2>1. eventQueue[0] # <<>> /\ e.type = "ET_CONNECT" /\ UNCHANGED sessions
    BY <1>7 DEF OnConnectCheck, Handles, serverVars, e
  <2>2. sessions[e.conn] = NoClient
    BY <1>3, <2>1 DEF Expected
  <2>3. worker' = [worker EXCEPT ![0].pc = "create"] /\ UNCHANGED eventQueue
    BY <1>7, <2>2 DEF OnConnectCheck, e
  <2> QED BY <2>1, <2>3, SessionDrain DEF e
<1>8. CASE OnDisconnectCheck(0)
  <2>1. eventQueue[0] # <<>> /\ e.type = "ET_DISCONNECT" /\ UNCHANGED sessions
    BY <1>8 DEF OnDisconnectCheck, Handles, serverVars, e
  <2>2. sessions[e.conn] # NoClient
    BY <1>3, <2>1 DEF Expected
  <2>3. worker' = [worker EXCEPT ![0].pc = "delete"] /\ UNCHANGED eventQueue
    BY <1>8, <2>2 DEF OnDisconnectCheck, e
  <2> QED BY <2>1, <2>3, SessionDrain DEF e
<1>9. CASE CreateSession(0)
  <2>1. /\ eventQueue[0] # <<>> /\ e.type = "ET_CONNECT" /\ Pop(0, FALSE)
        /\ sessions' = [sessions EXCEPT ![e.conn] = e.id]
    BY <1>4, <1>9 DEF CreateSession, e
  <2>2. \A i \in Conn : sessions'[i] = AfterEvent(e, i, sessions[i])
    BY <1>2, <2>1 DEF AfterEvent
  <2> QED BY <2>1, <2>2, SessionPop DEF e
<1>10. CASE DeleteSession(0)
  <2>1. /\ eventQueue[0] # <<>> /\ e.type = "ET_DISCONNECT" /\ Pop(0, FALSE)
        /\ sessions' = [sessions EXCEPT ![e.conn] = NoClient]
    BY <1>5, <1>10 DEF DeleteSession, e
  <2>2. \A i \in Conn : sessions'[i] = AfterEvent(e, i, sessions[i])
    BY <1>2, <2>1 DEF AfterEvent
  <2> QED BY <2>1, <2>2, SessionPop DEF e
<1>11. CASE OnMsg(0) \/ OnStop(0)
  <2>1. /\ eventQueue[0] # <<>> /\ e.type \in {"ET_MSG", "ET_STOP"} /\ UNCHANGED sessions
        /\ Pop(0, FALSE) \/ Pop(0, TRUE)
    BY <1>11 DEF OnMsg, OnStop, Handles, serverVars, e
  <2>2. \A i \in Conn : sessions'[i] = AfterEvent(e, i, sessions[i])
    BY <2>1 DEF AfterEvent
  <2> QED BY <2>1, <2>2, SessionPop DEF e
<1> QED BY <1>6, <1>7, <1>8, <1>9, <1>10, <1>11 DEF WorkerStep

-------------------------------------------------------------------------------
LEMMA NextSession ==
    ASSUME Concurrency = 1
    PROVE  TypeInv /\ PendingInv /\ SessionInv /\ [Next]_vars => SessionInv'
<1> SUFFICES ASSUME TypeInv, PendingInv, SessionInv, [Next]_vars, faults' = 0
             PROVE  SessionParts'
  BY DEF SessionInv
<1>1. /\ ~AcceptPipeFails /\ ~ListenFails /\ ~AcceptFails /\ ~PassFails
      /\ \A k \in IoTask : ~PipeConnectFails(k) /\ ~PipeReadFails(k) /\ ~ReadStartFails(k)
      /\ \A q \in Queue : ~CreateSessionFails(q)
      /\ faults = 0
  BY NothingFails
<1>2. SessionParts /\ PendingInStep /\ SlotsInUse
  BY <1>1 DEF SessionInv, PendingInv
<1>3. CASE StartStep \/ AcceptStep \/ StopServer \/ UNCHANGED vars
  BY <1>1, <1>2, <1>3, SessionOthers DEF StartStep, AcceptStep
<1>4. CASE StopStep
  BY <1>2, <1>4, SessionOthers, SessionPushStop DEF StopStep
<1>5. ASSUME NEW k \in IoTask, HandlePipeRead(k) \/ IoFinish(k)
      PROVE  SessionParts'
  BY <1>2, <1>5, SessionPipeRead, SessionAssign, SessionOnDisconnect, SessionPush DEF IoFinish
<1>6. ASSUME NEW k \in IoTask, NEW i \in Conn, OnRead(k, i) \/ OnReadError(k, i)
      PROVE  SessionParts'
  BY <1>2, <1>6, SessionRead, SessionReadError
<1>7. ASSUME NEW k \in IoTask, NEW write \in asyncWrites, AsyncWrite(k, write)
      PROVE  SessionParts'
  BY <1>2, <1>7, SessionOthers
<1>8. ASSUME NEW q \in Queue, WorkerStep(q)
      PROVE  SessionParts'
  <2>1. q = 0
    BY OneQueue
  <2> QED BY <1>1, <1>2, <1>8, <2>1, SessionWorker
<1> QED BY <1>1, <1>3, <1>4, <1>5, <1>6, <1>7, <1>8 DEF Next

(***************************************************************************)
(* With one worker, and as long as no call has failed, m_sessions follows  *)
(* the connections of TcpServer: once MsgServer has handled the events of  *)
(* a slot, an open connection has its own session and a free slot has      *)
(* none, although the slot is freed before MsgServer::onDisconnect runs    *)
(* and may be taken by the next client meanwhile: the events of a slot     *)
(* alternate in the queue, and each finds the session it expects.          *)
(***************************************************************************)
THEOREM SessionsFollow ==
    ASSUME Concurrency = 1
    PROVE  Spec => [](faults = 0 => SessionFollowsConnection)
<1>1. TypeInv /\ SessionInv => (faults = 0 => SessionFollowsConnection)
  <2> SUFFICES ASSUME TypeInv, SessionParts, NEW i \in Conn, Settled(i)
               PROVE  sessions[i] = conns[i].client
    BY DEF SessionInv, SessionFollowsConnection
  <2>1. IoTaskOf(i) \in IoTask /\ 0 \in Queue
    BY ServerNumbers
  <2>2. ~Disconnecting(IoTaskOf(i), i)
    BY <2>1 DEF Settled, Disconnecting
  <2>3. Announced(i) = conns[i].client
    BY <2>2 DEF Announced
  <2>4. Leads(i, eventQueue[0], sessions[i], conns[i].client)
    BY <2>3 DEF SessionParts, SessionsForetold
  <2>5. eventQueue[0] \in Seq(Event)
    BY <2>1 DEF TypeInv, QueueInv
  <2>6. \A n \in 1 .. Len(eventQueue[0]) :
            eventQueue[0][n].type = "ET_STOP" \/ eventQueue[0][n].conn # i
    BY <2>1 DEF Settled
  <2> QED BY <2>4, <2>5, <2>6, LeadsAround
<1>2. Init => SessionInv
  BY InitSession DEF SessionInv
<1>3. TypeInv /\ PendingInv /\ SessionInv /\ [Next]_vars => SessionInv'
  BY NextSession
<1>4. TypeInv /\ PendingInv /\ [Next]_vars => PendingInv'
  BY NextPending
<1> QED BY <1>1, <1>2, <1>3, <1>4, InitPending, TypesAlways, PTL DEF Spec
===============================================================================
