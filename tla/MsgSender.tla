------------------------------- MODULE MsgSender -------------------------------
(***************************************************************************)
(* The resending sender: application threads that call MsgSender::sendMsg  *)
(* or MsgSender::transactMsg, the I/O thread with the callbacks that       *)
(* MsgSender gets as a DataLoopListener (write, read, timer, interrupt),   *)
(* the backlog of unanswered messages, and the thread that calls stop()    *)
(* (msg_sender.cpp, msg_backlog.cpp, data_loop_listener.cpp).              *)
(*                                                                         *)
(* A message is known by its request id.  Time is kept as ages: how long   *)
(* ago a time stamp was taken, up to the largest difference that the code  *)
(* tells apart, so the clock itself has no bound.  MsgClient.tla looks at  *)
(* the single accesses to a slot; here a slot is taken in one step and     *)
(* filled in a second one, the point between them being the one at which   *)
(* the resend logic can see a slot with the time stamp 0.                  *)
(*                                                                         *)
(* Undefined behaviour ends a behaviour of the model: fault names what     *)
(* happened, and nothing is claimed of the program from there on.          *)
(***************************************************************************)
EXTENDS MsgRequest, SequencesExt

CONSTANTS Threads,         \* application threads
          PoolSize,        \* maxConcurrentRequests
          MaxRequestId,    \* bound: how many request ids the run hands out
          ResendPeriod,    \* m_resendPeriodMillis, in ticks
          ExpireTimeout,   \* m_expireTimeoutMillis, in ticks
          ShutdownTimeout, \* m_shutdownTimeoutMillis, in ticks
          PayloadSize,     \* getPayloadSizeBytes() of each message
          BacklogLimit,    \* m_backlogLimitBytes
          SizeModulus      \* 2^64 for m_backlogSizeBytes

ASSUME SenderAssumption ==
    /\ PoolSize \in Nat \ {0}
    /\ MaxRequestId \in Nat \ {0}
    /\ ResendPeriod \in Nat \ {0} /\ ExpireTimeout \in Nat
    /\ ShutdownTimeout \in Nat
    /\ BacklogLimit \in Nat /\ SizeModulus \in Nat \ {0}
    /\ BacklogLimit < SizeModulus
    /\ PayloadSize \in [0 .. MaxRequestId - 1 -> 0 .. SizeModulus - 1]

VARIABLES requests,        \* m_requests: the slots of the pool, with their ages
          nextRequestId,   \* m_nextRequestId
          pc, call,        \* each application thread and its local variables
          io,              \* where the I/O thread is in its callback
          backlog,         \* m_requestSet; map and heap have the same entries
          sizeBytes,       \* m_backlogSizeBytes
          outbox,          \* writes handed to the I/O thread
          wire,            \* datagrams on their way to the server or back
          up,              \* the handle is not closed
          timers,          \* armed one-shot timers
          interrupt,       \* interruptLoop was called
          stopResend, resendDone,
          deadline,        \* ticks since onLoopInterrupt set m_stopResendTimeMillis
          stopper,         \* where the thread in stop() is
          waited,          \* ticks spent in waitBacklogEmpty
          freed,           \* messages given to freeMsg
          pruned,          \* messages dropped by pruneBacklog
          robbed,          \* messages that lost their slot before it was filled, or
                           \* to the message that filled it too late
          accepted,        \* messages whose write was accepted
          fault            \* the undefined behaviour that has happened

appVars == <<nextRequestId, pc, call, accepted>>
netVars == <<outbox, wire, up>>
logVars == <<backlog, sizeBytes, pruned>>
stopVars == <<interrupt, stopResend, resendDone, deadline, stopper, waited>>
vars == <<requests, nextRequestId, pc, call, io, backlog, sizeBytes, outbox, wire,
          up, timers, interrupt, stopResend, resendDone, deadline, stopper,
          waited, freed, pruned, robbed, accepted, fault>>

Index == 0 .. PoolSize - 1
Id == 0 .. MaxRequestId - 1

(* The oldest age that is told apart from the next, and the age of the     *)
(* time stamp 0, which is older than all others.                           *)
AgeCap == ExpireTimeout + 1
Zero == AgeCap + 1
Age == 0 .. Zero

Entry == [id : Id, index : Index]
Timer == {"resend", "shutdown"}

(* A slot of the pool with m_requestTimeMillis and m_resendTimeMillis. *)
NewSlot == [status |-> "RS_IDLE", id |-> 0, tx |-> FALSE, request |-> NoId,
            response |-> NoId, requestAge |-> Zero, resendAge |-> ResendPeriod]
SlotType == [status : RequestStatus, id : Id, tx : BOOLEAN,
             request : Id \cup {NoId}, response : Id \cup {NoId},
             requestAge : Age, resendAge : 0 .. ResendPeriod]

(* io.at is the slot that processPendingResponses looks at, io.request the *)
(* message it read there, io.next what follows the pass, io.timer the      *)
(* timer whose callback runs, io.ready the slots whose message was last    *)
(* sent before the resend round began.                                     *)
IoPc == {"idle", "pass", "expire", "prune", "resend", "ended"}
IoType == [pc : IoPc, at : Index, request : Id \cup {NoId}, timer : Timer,
           ready : SUBSET Index, next : {"idle", "prune", "ended"}]
IdleIo == [pc |-> "idle", at |-> 0, request |-> NoId, timer |-> "resend",
           ready |-> {}, next |-> "idle"]

(* The local variables of a thread that is in no call. *)
NoCall == [id |-> 0, index |-> 0, tx |-> FALSE]

TypeOK ==
    /\ requests \in [Index -> SlotType]
    /\ nextRequestId \in 0 .. MaxRequestId
    /\ pc \in [Threads -> {"ready", "grab", "fill", "wait", "handle"}]
    /\ call \in [Threads -> [id : Id, index : Index, tx : BOOLEAN]]
    /\ io \in IoType
    /\ backlog \in Seq(Entry)
    /\ sizeBytes \in 0 .. SizeModulus - 1
    /\ outbox \subseteq [id : Id, index : Index, resend : BOOLEAN]
    /\ wire \subseteq Entry
    /\ up \in BOOLEAN
    /\ timers \subseteq Timer
    /\ {interrupt, stopResend, resendDone} \subseteq BOOLEAN
    /\ deadline \in 0 .. ShutdownTimeout + 1
    /\ stopper \in {"run", "waitBacklog", "join", "stopped"}
    /\ waited \in 0 .. ShutdownTimeout
    /\ {freed, pruned, robbed, accepted} \subseteq SUBSET Id
    /\ fault \in {"none", "null", "freed", "race"}

(* onLoopStart arms the resend timer. *)
TimersAtStart == {"resend"}

(* The state after MsgSender::start() and onLoopStart.                     *)
(* m_stopResendTimeMillis is 0, a time that has long passed.               *)
Init ==
    /\ requests = [i \in Index |-> NewSlot]
    /\ nextRequestId = 0
    /\ pc = [t \in Threads |-> "ready"]
    /\ call = [t \in Threads |-> NoCall]
    /\ io = IdleIo
    /\ backlog = <<>> /\ sizeBytes = 0
    /\ outbox = {} /\ wire = {}
    /\ up = TRUE
    /\ timers = TimersAtStart
    /\ interrupt = FALSE /\ stopResend = FALSE /\ resendDone = FALSE
    /\ deadline = ShutdownTimeout + 1
    /\ stopper = "run" /\ waited = 0
    /\ freed = {} /\ pruned = {} /\ robbed = {} /\ accepted = {}
    /\ fault = "none"

-------------------------------------------------------------------------------
(* The methods of MsgRequest that touch the time stamps. *)

SetRequestNow(slot, id) ==
    [SetRequest(slot, id) EXCEPT !.requestAge = 0, !.resendAge = 0]
ClearRequestTime(slot) == [ClearRequest(slot) EXCEPT !.requestAge = Zero]
ClearResponseTime(slot) == [ClearResponse(slot) EXCEPT !.requestAge = Zero]
UpdateResendTime(slot) == [slot EXCEPT !.resendAge = 0]

-------------------------------------------------------------------------------
(* MsgBacklog.  An entry is ordered by the request time of its slot.       *)

InBacklog(log, id) == \E p \in DOMAIN log : log[p].id = id
AgeAt(log, slots, p) == slots[log[p].index].requestAge

Older(slots, e, f) ==
    \/ slots[e.index].requestAge > slots[f.index].requestAge
    \/ slots[e.index].requestAge = slots[f.index].requestAge /\ e.id < f.id

(* Where std::set::insert with EntryRequestTimeCmp puts an entry: between  *)
(* two neighbours that it is compared with.  When slots were cleared or    *)
(* taken by others since, the entries are not in order, several places     *)
(* fit, and the shape of the tree decides.                                 *)
Places(log, slots, e) ==
    {p \in 1 .. Len(log) + 1 : /\ p > 1 => Older(slots, log[p - 1], e)
                               /\ p <= Len(log) => Older(slots, e, log[p])}

(* The insertion may read the id of an entry with the same request time. *)
InsertReadsFreed(log, slots, e) ==
    \E p \in DOMAIN log : /\ log[p].id \in freed
                          /\ AgeAt(log, slots, p) = slots[e.index].requestAge

(* The insertion into m_minHeap, that of one with the same resend time. *)
HeapReadsFreed(log, slots, e) ==
    \E p \in DOMAIN log : /\ log[p].id \in freed
                          /\ slots[log[p].index].resendAge = slots[e.index].resendAge

(* std::lower_bound on the request time: it halves the range, whether or   *)
(* not the entries are in order.                                           *)
LowerBound(log, slots, time) ==
    LET From[n \in 0 .. Len(log), first \in 1 .. Len(log) + 1] ==
            LET half == n \div 2 IN
            IF n = 0 THEN first
            ELSE IF AgeAt(log, slots, first + half) > time
            THEN From[n - half - 1, first + half + 1]
            ELSE From[half, first]
    IN From[Len(log), 1]

(* findRequestByTime: from there a walk over entries with the same time.   *)
(* The time is the one in the slot now, so the entry of a slot that was    *)
(* cleared is sought at the time 0.                                        *)
FoundByTime(log, slots, p) ==
    LET time == AgeAt(log, slots, p)
        first == LowerBound(log, slots, time)
    IN first <= p /\ \A q \in first .. p - 1 : AgeAt(log, slots, q) = time

(* Where removePendingRequest finds the entry, nowhere when the search in  *)
(* the map or in the set fails.                                            *)
Found(slots, id) ==
    {p \in DOMAIN backlog : backlog[p].id = id /\ FoundByTime(backlog, slots, p)}

(* Fault of the size counter: a signed one. *)
ShrinkSigned(size, id) == size - PayloadSize[id]

(* m_backlogSizeBytes is unsigned: below 0 it wraps. *)
Shrink(size, id) == (size - PayloadSize[id]) % SizeModulus

(* Fault of removePendingRequest: the size stays. *)
RemoveKeepingSize(slots, id, size) ==
    /\ sizeBytes' = size
    /\ \/ \E p \in Found(slots, id) : backlog' = RemoveAt(backlog, p)
       \/ Found(slots, id) = {} /\ UNCHANGED backlog

RemovePendingRequest(slots, id, size) ==
    \/ /\ \E p \in Found(slots, id) : backlog' = RemoveAt(backlog, p)
       /\ sizeBytes' = Shrink(size, id)
    \/ /\ Found(slots, id) = {}
       /\ sizeBytes' = size
       /\ UNCHANGED backlog

-------------------------------------------------------------------------------
(* Application threads. *)

Goto(t, label) == pc' = [pc EXCEPT ![t] = label]

(* The call returns. *)
Return(t) ==
    /\ pc' = [pc EXCEPT ![t] = "ready"]
    /\ call' = [call EXCEPT ![t] = NoCall]

Slot(t) == requests[call[t].index]
WriteSlot(t, slot) == requests' = [requests EXCEPT ![call[t].index] = slot]

(* Undefined behaviour. *)
Halt(kind) ==
    /\ fault' = kind
    /\ UNCHANGED <<requests, appVars, io, logVars, netVars, timers, stopVars, freed, robbed>>

(* freeMsg: a null pointer is fine. *)
Free(id) == freed' = IF id = NoId THEN freed ELSE freed \cup {id}

(* sendMsg or transactMsg, refused once stop() was called: the state       *)
(* check, prepareMsgFrame, fetchAddRequestId.                              *)
Begin(t) ==
    /\ pc[t] = "ready"
    /\ ~ stopResend
    /\ nextRequestId < MaxRequestId
    /\ \E tx \in BOOLEAN :
          call' = [call EXCEPT ![t] = [id |-> nextRequestId, index |-> 0, tx |-> tx]]
    /\ nextRequestId' = nextRequestId + 1
    /\ Goto(t, "grab")
    /\ UNCHANGED <<requests, io, logVars, netVars, timers, stopVars, freed, robbed,
                   accepted, fault>>

ProbeIndex(id, probe) == ((id % PoolSize) + probe) % PoolSize

(* The vacant slot that getVacantRequest finds for id. *)
Vacant(id, i) ==
    \E probe \in Index :
        /\ i = ProbeIndex(id, probe)
        /\ IsVacant(requests[i])
        /\ \A earlier \in 0 .. probe - 1 : ~ IsVacant(requests[ProbeIndex(id, earlier)])

Grab(t) ==
    /\ pc[t] = "grab"
    /\ \E i \in Index :
          /\ Vacant(call[t].id, i)
          /\ requests' = [requests EXCEPT ![i] = IdStored(Grabbed(@), call[t].id)]
          /\ call' = [call EXCEPT ![t].index = i]
    /\ Goto(t, "fill")
    /\ UNCHANGED <<nextRequestId, io, logVars, netVars, timers, stopVars, freed, robbed,
                   accepted, fault>>

(* E_RESOURCE_LIMIT: the message is neither kept nor freed. *)
GrabFails(t) ==
    /\ pc[t] = "grab"
    /\ \A i \in Index : ~ IsVacant(requests[i])
    /\ Return(t)
    /\ UNCHANGED <<requests, nextRequestId, io, logVars, netVars, timers, stopVars,
                   freed, robbed, accepted, fault>>

Filled(t) == SetRequestNow(SetFlags(Slot(t), call[t].tx), call[t].id)

(* Another call has got the slot of thread t, and filled it before. *)
Displaced(t) == {Slot(t).request} \ {call[t].id, NoId}

(* The rest of MsgClient::sendMsg: flags, message and time stamps are      *)
(* stored, and the write is handed to the I/O thread.                      *)
Fill(t) ==
    LET c == call[t] IN
    /\ pc[t] = "fill"
    /\ WriteSlot(t, Filled(t))
    /\ io' = [io EXCEPT !.ready = @ \ {c.index}]
    /\ outbox' = outbox \cup {[id |-> c.id, index |-> c.index, resend |-> FALSE]}
    /\ accepted' = accepted \cup {c.id}
    /\ robbed' = robbed \cup Displaced(t)
    /\ IF c.tx THEN Goto(t, "wait") /\ UNCHANGED call ELSE Return(t)
    /\ UNCHANGED <<nextRequestId, logVars, wire, up, timers, stopVars, freed, fault>>

(* No buffer, or the write fails: clearRequest, and the slot stays taken. *)
FillFails(t) ==
    /\ pc[t] = "fill"
    /\ WriteSlot(t, ClearRequestTime(Filled(t)))
    /\ io' = [io EXCEPT !.ready = @ \ {call[t].index}]
    /\ robbed' = robbed \cup Displaced(t)
    /\ Return(t)
    /\ UNCHANGED <<nextRequestId, logVars, netVars, timers, stopVars, freed, accepted,
                   fault>>

(* recvResponse: the response is taken out of the slot. *)
WaitOk(t) ==
    /\ pc[t] = "wait"
    /\ Slot(t).id = call[t].id
    /\ Slot(t).status = "RS_ARRIVED"
    /\ WriteSlot(t, ClearResponseTime(Slot(t)))
    /\ Goto(t, "handle")
    /\ UNCHANGED <<nextRequestId, call, io, logVars, netVars, timers, stopVars, freed,
                   robbed, accepted, fault>>

(* The wait times out or is aborted, or the slot is no longer this call's. *)
(* The slot is looked up again, and its transaction flag cleared, so that  *)
(* the I/O thread resends the message from now on.                         *)
WaitFails(t) ==
    LET id == call[t].id IN
    /\ pc[t] = "wait"
    /\ Slot(t).id # id \/ Slot(t).status # "RS_ARRIVED"
    /\ IF id \in freed THEN Halt("freed")
       ELSE IF Slot(t).id # id THEN Halt("null")
       ELSE /\ WriteSlot(t, SetFlags(Slot(t), FALSE))
            /\ Return(t)
            /\ UNCHANGED <<nextRequestId, io, logVars, netVars, timers, stopVars,
                           freed, robbed, accepted, fault>>

(* The frame listener accepts the response: the application thread removes *)
(* the entry from the backlog and frees the message.                       *)
HandleOk(t) ==
    LET id == call[t].id IN
    /\ pc[t] = "handle"
    /\ RemovePendingRequest(requests, id, sizeBytes)
    /\ Free(id)
    /\ Return(t)
    /\ UNCHANGED <<requests, nextRequestId, io, pruned, netVars, timers, stopVars,
                   robbed, accepted, fault>>

(* The same call while the I/O thread walks the backlog. *)
HandleRaces(t) ==
    /\ pc[t] = "handle"
    /\ io.pc \in {"prune", "resend"}
    /\ Halt("race")

(* The listener refuses the response: renewRequestId takes a new id and a  *)
(* new slot for the message, and its success makes the caller free it.     *)
HandleRefused(t) ==
    LET id == nextRequestId IN
    /\ pc[t] = "handle"
    /\ id < MaxRequestId
    /\ nextRequestId' = id + 1
    /\ IF \E i \in Index : Vacant(id, i)
       THEN \E i \in Index :
               /\ Vacant(id, i)
               /\ requests' = [requests EXCEPT
                     ![i] = SetRequestNow(IdStored(Grabbed(@), id), call[t].id)]
               /\ io' = [io EXCEPT !.ready = @ \ {i}]
       ELSE UNCHANGED <<requests, io>>
    /\ Free(call[t].id)
    /\ Return(t)
    /\ UNCHANGED <<logVars, netVars, timers, stopVars, robbed, accepted, fault>>

ThreadStep(t) ==
    \/ Grab(t) \/ GrabFails(t) \/ Fill(t) \/ FillFails(t)
    \/ WaitOk(t) \/ WaitFails(t) \/ HandleOk(t) \/ HandleRaces(t) \/ HandleRefused(t)

-------------------------------------------------------------------------------
(* The I/O thread: one callback at a time, io.pc = "idle" between them. *)

FirstWrite(e) == [id |-> e.id, index |-> e.index, resend |-> FALSE]

(* onLoopSend for a first write: the message joins the backlog. *)
OnLoopSend(e) ==
    IF e.id \in freed
    THEN /\ fault' = "freed"
         /\ UNCHANGED logVars
    ELSE IF requests[e.index].id # e.id \/ InBacklog(backlog, e.id)
    THEN UNCHANGED <<logVars, fault>>
    ELSE \/ /\ InsertReadsFreed(backlog, requests, e) \/ HeapReadsFreed(backlog, requests, e)
            /\ fault' = "freed"
            /\ UNCHANGED logVars
         \/ /\ \E p \in Places(backlog, requests, e) : backlog' = InsertAt(backlog, p, e)
            /\ sizeBytes' = (sizeBytes + PayloadSize[e.id]) % SizeModulus
            /\ UNCHANGED <<pruned, fault>>

(* The datagram is sent, or lost on a closed handle. *)
WriteTransport(e) == wire' = IF up THEN wire \cup {e} ELSE wire

(* onAsyncWriteStatic: the write, and the loop listener is told of it when *)
(* it is the first of its message.                                         *)
AsyncWrite(w) ==
    LET e == [id |-> w.id, index |-> w.index] IN
    /\ io.pc = "idle"
    /\ w \in outbox
    /\ outbox' = outbox \ {w}
    /\ WriteTransport(e)
    /\ IF w.resend THEN UNCHANGED <<logVars, fault>> ELSE OnLoopSend(e)
    /\ UNCHANGED <<requests, appVars, io, up, timers, stopVars, freed, robbed>>

(* processPendingResponses leaves alone a vacant slot, a transaction and a *)
(* pending message that is not too old.                                    *)
Skipped(slot) ==
    \/ IsVacant(slot)
    \/ slot.tx
    \/ slot.status = "RS_PENDING" /\ slot.requestAge <= ExpireTimeout

(* The pass goes on from slot i: the next slot it does not skip. *)
Pass(from, next, slots) ==
    LET stops == {i \in from .. PoolSize - 1 : ~ Skipped(slots[i])} IN
    IF stops = {} THEN [io EXCEPT !.pc = next, !.at = 0, !.request = NoId, !.next = next]
    ELSE [io EXCEPT !.pc = "pass", !.request = NoId, !.next = next,
                    !.at = CHOOSE i \in stops : \A j \in stops : i <= j]

StartPass(next, slots) == Pass(0, next, slots)
PassGoesOn(slots) == Pass(io.at + 1, io.next, slots)

(* The server has answered a datagram (one it never answers is lost).      *)
(* onRead: setResponse, which drops a response whose slot has a new owner, *)
(* then onLoopRecv.                                                        *)
Recv(e) ==
    /\ io.pc = "idle"
    /\ e \in wire
    /\ wire' = wire \ {e}
    /\ requests' = [requests EXCEPT
          ![e.index] = IF @.id = e.id THEN SetResponse(@, e.id) ELSE @]
    /\ io' = StartPass("idle", requests')
    /\ UNCHANGED <<appVars, logVars, outbox, up, timers, stopVars, freed, robbed, fault>>

(* A read or write error closes the handle, and the close callback aborts  *)
(* the pending requests.                                                   *)
Disconnect ==
    /\ io.pc = "idle"
    /\ up
    /\ up' = FALSE
    /\ wire' = {}
    /\ requests' = [i \in Index |-> AbortResponse(requests[i])]
    /\ UNCHANGED <<appVars, io, logVars, outbox, timers, stopVars, freed, robbed, fault>>

(* The slot has changed since the pass came to it. *)
PassSkip ==
    /\ io.pc = "pass"
    /\ Skipped(requests[io.at])
    /\ io' = PassGoesOn(requests)
    /\ UNCHANGED <<requests, appVars, logVars, netVars, timers, stopVars, freed, robbed,
                   fault>>

(* A response is there.  The slot is cleared first, so removing the entry  *)
(* from the backlog looks for it at the time 0.  A refused response leaves *)
(* the entry where it is, and the message is freed all the same.           *)
PassArrived(acceptedByListener) ==
    LET slot == requests[io.at]
        cleared == [requests EXCEPT ![io.at] = ClearResponseTime(slot)] IN
    /\ io.pc = "pass"
    /\ ~ slot.tx
    /\ slot.status = "RS_ARRIVED"
    /\ IF slot.request \in freed THEN Halt("freed")
       ELSE IF acceptedByListener /\ slot.request = NoId THEN Halt("null")
       ELSE /\ requests' = cleared
            /\ IF acceptedByListener
               THEN RemovePendingRequest(cleared, slot.request, sizeBytes)
               ELSE UNCHANGED <<backlog, sizeBytes>>
            /\ Free(slot.request)
            /\ io' = PassGoesOn(cleared)
            /\ UNCHANGED <<appVars, pruned, netVars, timers, stopVars, robbed, fault>>

(* The slot was aborted, or its request time is too long ago; the message  *)
(* was read before.                                                        *)
PassExpire ==
    LET slot == requests[io.at] IN
    /\ io.pc = "pass"
    /\ ~ slot.tx
    /\ \/ slot.status = "RS_ABORTED"
       \/ slot.status = "RS_PENDING" /\ slot.requestAge > ExpireTimeout
    /\ io' = [io EXCEPT !.pc = "expire", !.request = slot.request]
    /\ UNCHANGED <<requests, appVars, logVars, netVars, timers, stopVars, freed, robbed,
                   fault>>

(* The slot is cleared, whoever has it by now, and the message is freed;   *)
(* its entry stays in the backlog.                                         *)
Expire ==
    LET slot == requests[io.at] IN
    /\ io.pc = "expire"
    /\ IF io.request \in freed THEN Halt("freed")
       ELSE /\ requests' = [requests EXCEPT ![io.at] = ClearResponseTime(slot)]
            /\ Free(io.request)
            /\ robbed' = robbed
                  \cup {call[t].id : t \in {u \in Threads : /\ pc[u] = "fill"
                                                            /\ call[u].index = io.at}}
                  \cup ({slot.request} \ {io.request, NoId})
            /\ io' = PassGoesOn(requests')
            /\ UNCHANGED <<appVars, logVars, netVars, timers, stopVars, fault>>

(* onLoopTimer, up to the first pass. *)
TimerFires(k) ==
    /\ io.pc = "idle"
    /\ k \in timers
    /\ timers' = timers \ {k}
    /\ IF (k = "resend" /\ stopResend) \/ resendDone THEN UNCHANGED io
       ELSE io' = [StartPass("prune", requests) EXCEPT !.timer = k]
    /\ UNCHANGED <<requests, appVars, logVars, netVars, stopVars, freed, robbed, fault>>

(* pruneBacklog ends; resendShippingBacklog takes the time.  A message is  *)
(* ready when it was last sent before that time.                           *)
PruneDone ==
    /\ io.pc = "prune"
    /\ sizeBytes <= BacklogLimit \/ backlog = <<>>
    /\ io' = [io EXCEPT !.pc = "resend", !.ready = {i \in Index : requests[i].resendAge > 0}]
    /\ UNCHANGED <<requests, appVars, logVars, netVars, timers, stopVars, freed, robbed,
                   fault>>

(* pruneBacklog takes care that its own subtraction does not wrap. *)
Reduced(size, id) == IF PayloadSize[id] > size THEN 0 ELSE size - PayloadSize[id]

(* The oldest message is dropped: its size is subtracted, its slot is      *)
(* cleared, and the removal subtracts the size again.  The message is not  *)
(* freed.                                                                  *)
PruneHead ==
    /\ io.pc = "prune"
    /\ sizeBytes > BacklogLimit /\ backlog # <<>>
    /\ LET e == Head(backlog)
           slot == requests[e.index]
           cleared == IF slot.id = e.id
                      THEN [requests EXCEPT ![e.index] = ClearResponseTime(slot)]
                      ELSE requests
       IN IF e.id \in freed THEN Halt("freed")
          ELSE /\ requests' = cleared
               /\ RemovePendingRequest(cleared, e.id, Reduced(sizeBytes, e.id))
               /\ pruned' = pruned \cup {e.id}
               /\ UNCHANGED <<appVars, io, netVars, timers, stopVars, freed, robbed, fault>>

(* Fault of hasReadyResendRequest: the barrier is not looked at. *)
HasAny == backlog # <<>>

(* hasReadyResendRequest: only the entry with the oldest request time      *)
(* counts.                                                                 *)
HasReady == backlog # <<>> /\ Head(backlog).index \in io.ready

(* The first entry is ready and due.  While it is ready and not due, or    *)
(* its slot has a new owner, the loop goes round without a change.         *)
HeadDue ==
    /\ io.pc = "resend"
    /\ HasReady
    /\ Head(backlog).id \notin freed
    /\ requests[Head(backlog).index].id = Head(backlog).id
    /\ requests[Head(backlog).index].resendAge >= ResendPeriod

(* Fault of updateReadyResendRequest: the entry is not put back. *)
ResendErases ==
    LET e == Head(backlog) IN
    /\ HeadDue
    /\ outbox' = outbox \cup {[FirstWrite(e) EXCEPT !.resend = TRUE]}
    /\ requests' = [requests EXCEPT ![e.index] = UpdateResendTime(SetFlags(@, FALSE))]
    /\ io' = [io EXCEPT !.ready = @ \ {e.index}]
    /\ backlog' = Tail(backlog)
    /\ UNCHANGED <<appVars, sizeBytes, pruned, wire, up, timers, stopVars, freed,
                   robbed, fault>>

(* updateReadyResendRequest: the first entry is taken out and put back. *)
PutBack(slots) ==
    \E p \in Places(Tail(backlog), slots, Head(backlog)) :
        backlog' = InsertAt(Tail(backlog), p, Head(backlog))

(* The message is sent again in its slot, without the transaction flag,    *)
(* and its entry is taken out and put back.                                *)
ResendOk ==
    LET e == Head(backlog)
        slots == [requests EXCEPT ![e.index] = UpdateResendTime(SetFlags(@, FALSE))] IN
    /\ HeadDue
    /\ \/ InsertReadsFreed(Tail(backlog), slots, e) /\ Halt("freed")
       \/ /\ outbox' = outbox \cup {[FirstWrite(e) EXCEPT !.resend = TRUE]}
          /\ requests' = slots
          /\ io' = [io EXCEPT !.ready = @ \ {e.index}]
          /\ PutBack(slots)
          /\ UNCHANGED <<appVars, sizeBytes, pruned, wire, up, timers, stopVars,
                         freed, robbed, fault>>

(* The write fails: the slot forgets its message and its request time. *)
ResendFails ==
    LET e == Head(backlog) IN
    /\ HeadDue
    /\ requests' = [requests EXCEPT
          ![e.index] = UpdateResendTime(ClearRequestTime(SetFlags(@, FALSE)))]
    /\ io' = [io EXCEPT !.ready = @ \ {e.index}]
    /\ UNCHANGED <<appVars, logVars, netVars, timers, stopVars, freed, robbed, fault>>

(* The first entry is that of a freed message. *)
ResendFreed ==
    /\ io.pc = "resend"
    /\ HasReady
    /\ Head(backlog).id \in freed
    /\ Halt("freed")

(* startLoopTimer or setNextLoopTimer for a one-shot timer. *)
Armed(k) == timers \cup {k}

(* Nothing is ready any more, the end of onLoopTimer: the timer is armed   *)
(* again, or during shutdown the resending is over.                        *)
Rearm ==
    LET over == stopResend /\ (backlog = <<>> \/ deadline > ShutdownTimeout) IN
    /\ io.pc = "resend"
    /\ ~ HasReady
    /\ io' = IdleIo
    /\ resendDone' = (resendDone \/ over)
    /\ timers' = IF over THEN timers ELSE Armed(io.timer)
    /\ UNCHANGED <<requests, appVars, logVars, netVars, interrupt, stopResend, deadline,
                   stopper, waited, freed, robbed, fault>>

(* onLoopInterrupt.  Without a grace period it asks to stop the resend     *)
(* timer, which stopLoopTimer refuses for a one-shot timer.                *)
OnLoopInterrupt ==
    /\ io.pc = "idle"
    /\ interrupt
    /\ interrupt' = FALSE
    /\ IF ShutdownTimeout > 0
       THEN /\ timers' = Armed("shutdown")
            /\ deadline' = 0
       ELSE UNCHANGED <<timers, deadline>>
    /\ UNCHANGED <<requests, appVars, io, logVars, netVars, stopResend, resendDone, stopper,
                   waited, freed, robbed, fault>>

-------------------------------------------------------------------------------
(* The thread in stop(), and time. *)

InterruptLoop == interrupt' = TRUE

(* stopResendTimer. *)
StopBegin ==
    /\ stopper = "run"
    /\ stopper' = IF ShutdownTimeout > 0 THEN "waitBacklog" ELSE "join"
    /\ stopResend' = TRUE /\ resendDone' = FALSE
    /\ InterruptLoop
    /\ UNCHANGED <<requests, appVars, io, logVars, netVars, timers, deadline, waited, freed,
                   robbed, fault>>

WaitBacklogEmpty ==
    /\ stopper = "waitBacklog"
    /\ resendDone \/ waited = ShutdownTimeout
    /\ stopper' = "join"
    /\ UNCHANGED <<requests, appVars, io, logVars, netVars, timers, interrupt, stopResend,
                   resendDone, deadline, waited, freed, robbed, fault>>

(* The loop gets the request to stop, and onLoopEnd makes a last pass. *)
LoopStops ==
    /\ stopper = "join"
    /\ io.pc = "idle"
    /\ io' = StartPass("ended", requests)
    /\ UNCHANGED <<requests, appVars, logVars, netVars, timers, stopVars, freed, robbed,
                   fault>>

Join ==
    /\ stopper = "join"
    /\ io.pc = "ended"
    /\ stopper' = "stopped"
    /\ UNCHANGED <<requests, appVars, io, logVars, netVars, timers, interrupt, stopResend,
                   resendDone, deadline, waited, freed, robbed, fault>>

AgeBy1(age) == IF age < AgeCap THEN age + 1 ELSE age

(* The clock moves.  Only differences count, so it is left alone when no   *)
(* age would change, or no loop runs to look at it.                        *)
Tick ==
    /\ io.pc # "ended"
    /\ requests' = [i \in Index |->
          [requests[i] EXCEPT !.requestAge = AgeBy1(@),
                              !.resendAge = IF @ < ResendPeriod THEN @ + 1 ELSE @]]
    /\ deadline' = IF deadline <= ShutdownTimeout THEN deadline + 1 ELSE deadline
    /\ waited' = IF stopper = "waitBacklog" /\ waited < ShutdownTimeout
                 THEN waited + 1 ELSE waited
    /\ requests' # requests \/ deadline' # deadline \/ waited' # waited
    /\ UNCHANGED <<appVars, io, logVars, netVars, timers, interrupt, stopResend, resendDone,
                   stopper, freed, robbed, fault>>

-------------------------------------------------------------------------------

IoStep ==
    \/ \E w \in outbox : AsyncWrite(w)
    \/ PassSkip \/ PassArrived(TRUE) \/ PassArrived(FALSE) \/ PassExpire \/ Expire
    \/ \E k \in timers : TimerFires(k)
    \/ PruneDone \/ PruneHead
    \/ ResendOk \/ ResendFails \/ ResendFreed \/ Rearm
    \/ OnLoopInterrupt \/ LoopStops

StopStep == WaitBacklogEmpty \/ Join

Step ==
    \/ \E t \in Threads : Begin(t) \/ ThreadStep(t)
    \/ IoStep
    \/ \E e \in wire : Recv(e)
    \/ Disconnect
    \/ StopBegin \/ StopStep
    \/ Tick

Next == fault = "none" /\ Step

Spec == Init /\ [][Next]_vars

(* Threads run, the loop serves what is ready, and time passes; nobody has *)
(* to call stop(), and nothing has to fail or to answer.                   *)
FairSpec ==
    /\ Spec
    /\ \A t \in Threads : WF_vars(fault = "none" /\ ThreadStep(t))
    /\ WF_vars(fault = "none" /\ IoStep)
    /\ SF_vars(fault = "none" /\ LoopStops)
    /\ WF_vars(fault = "none" /\ StopStep)
    /\ WF_vars(fault = "none" /\ Tick)

-------------------------------------------------------------------------------
(* Properties. *)

(* A message whose write was accepted is never forgotten: until it is      *)
(* answered or expires (both free it), is pruned, or loses its slot to an  *)
(* expiry before the slot is filled or to a call that fills it too late,   *)
(* it waits for its first write or is in the backlog and will be sent      *)
(* again.                                                                  *)
UnansweredIsKept ==
    fault = "none" =>
        \A id \in accepted \ (freed \cup pruned \cup robbed) :
            InBacklog(backlog, id) \/ \E w \in outbox : w.id = id /\ ~ w.resend

(* The bytes that the entries of the backlog hold. *)
Content == FoldSeq(LAMBDA e, sum : PayloadSize[e.id] + sum, 0, backlog)

(* m_backlogSizeBytes counts what the backlog holds, over all the ways in  *)
(* which messages join and leave it (a first write, an answer taken by the *)
(* I/O thread or by the application thread, a failed search, a resend that *)
(* takes an entry out and puts it back), until pruneBacklog first runs.    *)
CounterIsContent ==
    pruned = {} => sizeBytes = Content % SizeModulus

(* "Ensures backlog fits size limit" (msg_backlog.h): when pruneBacklog    *)
(* has ended and the resend round begins, the backlog holds no more than   *)
(* the limit.                                                              *)
BacklogFits ==
    fault = "none" /\ io.pc = "resend" => Content <= BacklogLimit

(* The first entry of the backlog is ready, and its slot has a new owner: *)
(* resendShippingBacklog asks for it again and again.                      *)
HeadLostSlot ==
    /\ io.pc = "resend"
    /\ HasReady
    /\ Head(backlog).id \notin freed
    /\ requests[Head(backlog).index].id # Head(backlog).id

(* stop() returns, whatever is in the backlog and whether or not anything  *)
(* answers, unless freed memory is used first or the resend loop spins on  *)
(* a message without a slot.                                               *)
StopReturns ==
    (stopper # "run") ~> (stopper = "stopped" \/ fault # "none" \/ HeadLostSlot)

(* stop() stops the sender (msg_sender.h), also when the resend loop has   *)
(* met a message without a slot.                                           *)
StopAlwaysReturns ==
    (stopper # "run") ~> (stopper = "stopped" \/ fault # "none")

(* What finished or expired is removed from the backlog (msg_backlog.h),   *)
(* so the resend round does not pick a message that was given to freeMsg.  *)
FreedIsNotResent ==
    io.pc = "resend" /\ HasReady => Head(backlog).id \notin freed

===============================================================================
