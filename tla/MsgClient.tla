------------------------------- MODULE MsgClient -------------------------------
(***************************************************************************)
(* The message client: application threads that call MsgClient::sendMsg or *)
(* MsgClient::transactMsgResponse concurrently, the one I/O thread of the  *)
(* transport that delivers responses and the disconnect notification, and  *)
(* the pool of request slots they share (msg_client.cpp,                   *)
(* msg_request_pool.cpp, msg_request.cpp).                                 *)
(*                                                                         *)
(* Every access to a slot is a step of its own (MsgRequest), because the   *)
(* pool has no lock over two accesses.  The model starts when the client   *)
(* is connected.  The server answers every request it receives exactly     *)
(* once, in any order; a lost connection loses what is in flight.          *)
(***************************************************************************)
EXTENDS MsgRequest, FiniteSets

CONSTANTS Threads,       \* application threads
          PoolSize,      \* maxConcurrentRequests
          MaxRequestId,  \* bound: how many request ids the run hands out
          MaxResends     \* bound: how often the upper layer resends a message

ASSUME PoolAssumption == PoolSize \in Nat \ {0}
ASSUME BoundAssumption == MaxRequestId \in Nat /\ MaxResends \in Nat

VARIABLES requests,       \* m_requests: the slots of the pool
          nextRequestId,  \* m_nextRequestId
          pc,             \* where each application thread is in its call
          call,           \* the local variables of its current or last call
          loop,           \* where the I/O thread is in its callback
          outbox,         \* writes handed to the I/O thread
          sent,           \* requests the server has not answered
          inbound,        \* responses the I/O thread has not read
          conn,           \* the state of the connection
          connectArrived, \* m_connectData.m_connectArrived
          dispatched,     \* responses passed to the listener's onMsg
          resends         \* resends done so far

slotVars == <<requests, nextRequestId>>
wireVars == <<outbox, sent, inbound>>
connVars == <<conn, connectArrived>>
vars == <<requests, nextRequestId, pc, call, loop, outbox, sent, inbound,
          conn, connectArrived, dispatched, resends>>

Index == 0 .. PoolSize - 1

(* What the header of a message carries, and the response copies back.     *)
(* The transaction bit and the number of the transmission are not on the   *)
(* wire: they tell messages apart in the properties.                       *)
Header == [index : Index, id : Nat, tx : BOOLEAN, copy : Nat]

(* Steps of a call between taking a slot and giving it up. *)
Preparing == {"storeId", "setFlags", "setRequest", "write", "clearRequest"}
Owning == Preparing \cup {"enter", "wait", "clear"}
ThreadPc == {"ready", "grab"} \cup Owning
CallResult == {"NONE", "E_OK", "E_RESOURCE_LIMIT", "E_TRANSPORT_ERROR",
               "E_DATA_CORRUPT", "E_INVALID_STATE", "E_TIMED_OUT", "E_IO_CANCELED",
               "E_INTERNAL_ERROR"}
LoopPc == {"idle", "setResponse", "getFlags", "abort", "resendFlags", "resendWrite"}

(* The local variables of a call: its request id, the slot it got, the     *)
(* round of the search, its arguments and what it returns.                 *)
CallType == [id : Nat, index : Index, probe : Index, tx : BOOLEAN, timed : BOOLEAN,
             response : Nat \cup {NoId}, rc : CallResult]
NewCall == [id |-> 0, index |-> 0, probe |-> 0, tx |-> FALSE, timed |-> FALSE,
            response |-> NoId, rc |-> "NONE"]
NoHeader == [index |-> 0, id |-> 0, tx |-> FALSE, copy |-> 0]
IdleLoop == [pc |-> "idle", msg |-> NoHeader]

TypeOK ==
    /\ requests \in [Index -> MsgRequestType]
    /\ nextRequestId \in Nat
    /\ pc \in [Threads -> ThreadPc]
    /\ call \in [Threads -> CallType]
    /\ loop \in [pc : LoopPc, msg : Header]
    /\ outbox \in SUBSET Header
    /\ sent \in SUBSET Header
    /\ inbound \in SUBSET Header
    /\ conn \in {"connected", "closing", "closed"}
    /\ connectArrived \in BOOLEAN
    /\ dispatched \in SUBSET Header
    /\ resends \in Nat

Init ==
    /\ requests = [i \in Index |-> NewMsgRequest]
    /\ nextRequestId = 0
    /\ pc = [t \in Threads |-> "ready"]
    /\ call = [t \in Threads |-> NewCall]
    /\ loop = IdleLoop
    /\ outbox = {} /\ sent = {} /\ inbound = {}
    /\ conn = "connected" /\ connectArrived = TRUE
    /\ dispatched = {}
    /\ resends = 0

-------------------------------------------------------------------------------
(* An application thread. *)

Goto(t, label) == pc' = [pc EXCEPT ![t] = label]

(* The call returns rc; its local variables stay for the properties. *)
Return(t, rc) ==
    /\ Goto(t, "ready")
    /\ call' = [call EXCEPT ![t].rc = rc]

(* One access of thread t to the slot of its call. *)
Slot(t) == requests[call[t].index]
WriteSlot(t, slot) == requests' = [requests EXCEPT ![call[t].index] = slot]

(* sendMsg, or transactMsgResponse with or without a finite timeout:       *)
(* fetchAddRequestId.                                                      *)
Begin(t) ==
    /\ pc[t] = "ready"
    /\ nextRequestId < MaxRequestId
    /\ \E tx, timed \in BOOLEAN :
          /\ timed => tx
          /\ call' = [call EXCEPT ![t] = [NewCall EXCEPT !.id = nextRequestId,
                                                         !.tx = tx,
                                                         !.timed = timed]]
    /\ nextRequestId' = nextRequestId + 1
    /\ Goto(t, "grab")
    /\ UNCHANGED <<requests, loop, wireVars, connVars, dispatched, resends>>

(* The index that getVacantRequest tries in a given round of its cycle. *)
ProbeIndex(id, probe) == ((id % PoolSize) + probe) % PoolSize

(* Faults of getVacantRequest: the load without the compare-and-swap takes *)
(* a slot that another thread took after the load.                         *)
TryGrabWithoutSwap(t) ==
    LET index == ProbeIndex(call[t].id, call[t].probe) IN
    /\ pc[t] = "grab"
    /\ requests' = [requests EXCEPT ![index] = Grabbed(@)]
    /\ call' = [call EXCEPT ![t].index = index]
    /\ Goto(t, "storeId")
    /\ UNCHANGED <<nextRequestId, loop, wireVars, connVars, dispatched, resends>>

(* One round of the loop in getVacantRequest: tryGrab up to its            *)
(* compare-and-swap.  A full cycle without a vacant slot fails the call.   *)
TryGrab(t) ==
    LET index == ProbeIndex(call[t].id, call[t].probe) IN
    /\ pc[t] = "grab"
    /\ IF IsVacant(requests[index])
       THEN /\ requests' = [requests EXCEPT ![index] = Grabbed(@)]
            /\ call' = [call EXCEPT ![t].index = index]
            /\ Goto(t, "storeId")
       ELSE /\ IF call[t].probe + 1 < PoolSize
               THEN /\ call' = [call EXCEPT ![t].probe = @ + 1]
                    /\ UNCHANGED pc
               ELSE Return(t, "E_RESOURCE_LIMIT")
            /\ UNCHANGED requests
    /\ UNCHANGED <<nextRequestId, loop, wireVars, connVars, dispatched, resends>>

(* The second half of tryGrab. *)
StoreId(t) ==
    /\ pc[t] = "storeId"
    /\ WriteSlot(t, IdStored(Slot(t), call[t].id))
    /\ Goto(t, "setFlags")
    /\ UNCHANGED <<nextRequestId, call, loop, wireVars, connVars, dispatched, resends>>

(* Fault of sendMsg: the flags of the call are not passed on. *)
StoreNoFlags(t) ==
    /\ pc[t] = "setFlags"
    /\ WriteSlot(t, SetFlags(Slot(t), FALSE))
    /\ Goto(t, "setRequest")
    /\ UNCHANGED <<nextRequestId, call, loop, wireVars, connVars, dispatched, resends>>

StoreFlags(t) ==
    /\ pc[t] = "setFlags"
    /\ WriteSlot(t, SetFlags(Slot(t), call[t].tx))
    /\ Goto(t, "setRequest")
    /\ UNCHANGED <<nextRequestId, call, loop, wireVars, connVars, dispatched, resends>>

(* setRequest, and the index and id written to the message's header. *)
StoreRequest(t) ==
    /\ pc[t] = "setRequest"
    /\ WriteSlot(t, SetRequest(Slot(t), call[t].id))
    /\ Goto(t, "write")
    /\ UNCHANGED <<nextRequestId, call, loop, wireVars, connVars, dispatched, resends>>

HeaderOf(t) ==
    [index |-> call[t].index, id |-> call[t].id, tx |-> call[t].tx, copy |-> 0]

(* DataClient::write queues the buffer for the I/O thread.  sendMsg is     *)
(* done; transactMsgResponse goes on to wait.                              *)
Write(t) ==
    /\ pc[t] = "write"
    /\ outbox' = outbox \cup {HeaderOf(t)}
    /\ IF call[t].tx
       THEN Goto(t, "enter") /\ UNCHANGED call
       ELSE Return(t, "E_OK")
    /\ UNCHANGED <<slotVars, loop, sent, inbound, connVars, dispatched, resends>>

(* No buffer, a message that does not serialize, or a write that fails. *)
WriteFails(t) ==
    /\ pc[t] = "write"
    /\ Goto(t, "clearRequest")
    /\ UNCHANGED <<slotVars, call, loop, wireVars, connVars, dispatched, resends>>

(* The error path of sendMsg: clearRequest leaves the slot pending. *)
ForgetRequest(t) ==
    /\ pc[t] = "clearRequest"
    /\ WriteSlot(t, ClearRequest(Slot(t)))
    /\ Return(t, "E_TRANSPORT_ERROR")
    /\ UNCHANGED <<nextRequestId, loop, wireVars, connVars, dispatched, resends>>

(* waitPendingResponse up to the wait: the id check, and the status check  *)
(* at the start of waitResponse.                                           *)
EnterWait(t) ==
    /\ pc[t] = "enter"
    /\ IF Slot(t).id # call[t].id
       THEN Return(t, "E_DATA_CORRUPT")
       ELSE IF IsVacant(Slot(t))
            THEN Return(t, "E_INVALID_STATE")
            ELSE Goto(t, "wait") /\ UNCHANGED call
    /\ UNCHANGED <<slotVars, loop, wireVars, connVars, dispatched, resends>>

(* Fault of waitPendingResponse: a failed wait releases the slot too. *)
WaitReleasingSlot(t) ==
    /\ pc[t] = "wait"
    /\ ResponseReady(Slot(t)) \/ call[t].timed
    /\ IF WaitResult(Slot(t)) = "E_OK" /\ Slot(t).response # NoId
       THEN /\ call' = [call EXCEPT ![t].response = Slot(t).response]
            /\ Goto(t, "clear")
            /\ UNCHANGED requests
       ELSE /\ WriteSlot(t, ClearResponse(Slot(t)))
            /\ Return(t, WaitResult(Slot(t)))
    /\ UNCHANGED <<nextRequestId, loop, wireVars, connVars, dispatched, resends>>

(* The rest of waitResponse: the condition variable is signaled, or the    *)
(* finite timeout expires.  A failed wait, or a null response, returns and *)
(* keeps the slot.                                                         *)
Wait(t) ==
    /\ pc[t] = "wait"
    /\ ResponseReady(Slot(t)) \/ call[t].timed
    /\ IF WaitResult(Slot(t)) # "E_OK"
       THEN Return(t, WaitResult(Slot(t)))
       ELSE IF Slot(t).response = NoId
            THEN Return(t, "E_INTERNAL_ERROR")
            ELSE /\ call' = [call EXCEPT ![t].response = Slot(t).response]
                 /\ Goto(t, "clear")
    /\ UNCHANGED <<slotVars, loop, wireVars, connVars, dispatched, resends>>

(* The end of waitPendingResponse: "can release response now". *)
ReleaseSlot(t) ==
    /\ pc[t] = "clear"
    /\ WriteSlot(t, ClearResponse(Slot(t)))
    /\ Return(t, "E_OK")
    /\ UNCHANGED <<nextRequestId, loop, wireVars, connVars, dispatched, resends>>

(* What a thread does once its call has begun. *)
CallStep(t) ==
    \/ TryGrab(t) \/ StoreId(t) \/ StoreFlags(t) \/ StoreRequest(t)
    \/ Write(t) \/ WriteFails(t) \/ ForgetRequest(t)
    \/ EnterWait(t) \/ Wait(t) \/ ReleaseSlot(t)

-------------------------------------------------------------------------------
(* The I/O thread.  A callback runs to its end before the next one starts. *)

LoopGoto(label, msg) == loop' = [pc |-> label, msg |-> msg]
LoopWriteSlot(slot) == requests' = [requests EXCEPT ![loop.msg.index] = slot]

(* onAsyncWriteStatic: the request goes on the wire. *)
AsyncWrite(msg) ==
    /\ loop.pc = "idle"
    /\ conn = "connected"
    /\ outbox' = outbox \ {msg}
    /\ sent' = sent \cup {msg}
    /\ UNCHANGED <<slotVars, pc, call, loop, inbound, connVars, dispatched, resends>>

(* writeTransport gets no write request, or uv_write refuses it, as it     *)
(* always does on a handle that is being closed.  Nobody looks at the      *)
(* result: the connection stays, and the slot waits for an answer.         *)
AsyncWriteFails(msg) ==
    /\ loop.pc = "idle"
    /\ outbox' = outbox \ {msg}
    /\ UNCHANGED <<slotVars, pc, call, loop, sent, inbound, connVars, dispatched, resends>>

(* onMsg, up to the id check in MsgRequestPool::setResponse.  A response   *)
(* that does not match is passed to the listener and dropped.              *)
OnMsg(msg) ==
    /\ loop.pc = "idle"
    /\ conn = "connected"
    /\ inbound' = inbound \ {msg}
    /\ IF requests[msg.index].id = msg.id
       THEN LoopGoto("setResponse", msg) /\ UNCHANGED dispatched
       ELSE dispatched' = dispatched \cup {msg} /\ UNCHANGED loop
    /\ UNCHANGED <<slotVars, pc, call, outbox, sent, connVars, resends>>

(* Fault of setResponse: the response goes to the slot at which the search *)
(* for the request began, not to the one it found.                         *)
OnMsgStoreById ==
    LET index == ProbeIndex(loop.msg.id, 0) IN
    /\ loop.pc = "setResponse"
    /\ requests' = [requests EXCEPT ![index] = SetResponse(@, loop.msg.id)]
    /\ LoopGoto("getFlags", loop.msg)
    /\ UNCHANGED <<nextRequestId, pc, call, wireVars, connVars, dispatched, resends>>

(* MsgRequest::setResponse: whoever waits on the slot may run from here on. *)
OnMsgStore ==
    /\ loop.pc = "setResponse"
    /\ LoopWriteSlot(SetResponse(requests[loop.msg.index], loop.msg.id))
    /\ LoopGoto("getFlags", loop.msg)
    /\ UNCHANGED <<nextRequestId, pc, call, wireVars, connVars, dispatched, resends>>

(* The rest of onMsg: the flags are read back from the slot, and the       *)
(* listener is notified unless they say transaction.                       *)
OnMsgNotify ==
    /\ loop.pc = "getFlags"
    /\ dispatched' = IF requests[loop.msg.index].tx
                     THEN dispatched
                     ELSE dispatched \cup {loop.msg}
    /\ loop' = IdleLoop
    /\ UNCHANGED <<slotVars, pc, call, wireVars, connVars, resends>>

(* A read or write error: the I/O thread asks libuv to close the handle. *)
Disconnect ==
    /\ loop.pc = "idle"
    /\ conn = "connected"
    /\ conn' = "closing"
    /\ sent' = {} /\ inbound' = {}
    /\ UNCHANGED <<slotVars, pc, call, loop, outbox, connectArrived, dispatched, resends>>

(* onClose calls onDisconnect, which starts abortPendingRequests. *)
OnClose ==
    /\ loop.pc = "idle"
    /\ conn = "closing"
    /\ conn' = "closed"
    /\ LoopGoto("abort", NoHeader)
    /\ UNCHANGED <<slotVars, pc, call, wireVars, connectArrived, dispatched, resends>>

(* Fault of abortPendingRequests: the pass stops one slot early. *)
AbortStopsEarly ==
    /\ loop.pc = "abort"
    /\ IF loop.msg.index + 1 < PoolSize
       THEN /\ LoopWriteSlot(AbortResponse(requests[loop.msg.index]))
            /\ LoopGoto("abort", [loop.msg EXCEPT !.index = @ + 1])
            /\ UNCHANGED connectArrived
       ELSE /\ loop' = IdleLoop
            /\ connectArrived' = FALSE
            /\ UNCHANGED requests
    /\ UNCHANGED <<nextRequestId, pc, call, wireVars, conn, dispatched, resends>>

(* Fault of abortPendingRequests: the pass runs one slot past the end. *)
AbortPastEnd ==
    /\ loop.pc = "abort"
    /\ LoopWriteSlot(AbortResponse(requests[loop.msg.index]))
    /\ IF loop.msg.index < PoolSize
       THEN /\ LoopGoto("abort", [loop.msg EXCEPT !.index = @ + 1])
            /\ UNCHANGED connectArrived
       ELSE /\ loop' = IdleLoop
            /\ connectArrived' = FALSE
    /\ UNCHANGED <<nextRequestId, pc, call, wireVars, conn, dispatched, resends>>

(* One round of abortPendingRequests; resetConnectData follows the last. *)
AbortNext ==
    /\ loop.pc = "abort"
    /\ LoopWriteSlot(AbortResponse(requests[loop.msg.index]))
    /\ IF loop.msg.index + 1 < PoolSize
       THEN /\ LoopGoto("abort", [loop.msg EXCEPT !.index = @ + 1])
            /\ UNCHANGED connectArrived
       ELSE /\ loop' = IdleLoop
            /\ connectArrived' = FALSE
    /\ UNCHANGED <<nextRequestId, pc, call, wireVars, conn, dispatched, resends>>

-------------------------------------------------------------------------------
(* sendMsg with COMMUTIL_REQUEST_FLAG_REUSE, which MsgSender calls on the  *)
(* I/O thread for a message that was written once and has no answer yet.   *)

(* The message filed in slot i has been handed over and is not being       *)
(* prepared: the upper layer has it in its backlog.                        *)
InBacklog(i) ==
    /\ requests[i].request # NoId
    /\ \A msg \in outbox : msg.id # requests[i].request
    /\ \A t \in Threads : pc[t] \in Preparing => call[t].index # i

(* getRequestData finds the slot by the header's index and compares ids. *)
ResendFind(i) ==
    /\ loop.pc = "idle"
    /\ resends < MaxResends
    /\ InBacklog(i)
    /\ requests[i].id = requests[i].request
    /\ LoopGoto("resendFlags", [index |-> i, id |-> requests[i].id,
                                tx |-> requests[i].tx, copy |-> resends + 1])
    /\ resends' = resends + 1
    /\ UNCHANGED <<slotVars, pc, call, wireVars, connVars, dispatched>>

(* setFlags(requestFlags): the flags become REUSE alone. *)
ResendFlags ==
    /\ loop.pc = "resendFlags"
    /\ LoopWriteSlot(SetFlags(requests[loop.msg.index], FALSE))
    /\ LoopGoto("resendWrite", loop.msg)
    /\ UNCHANGED <<nextRequestId, pc, call, wireVars, connVars, dispatched, resends>>

ResendWrite ==
    /\ loop.pc = "resendWrite"
    /\ outbox' = outbox \cup {loop.msg}
    /\ loop' = IdleLoop
    /\ UNCHANGED <<slotVars, pc, call, sent, inbound, connVars, dispatched, resends>>

ResendWriteFails ==
    /\ loop.pc = "resendWrite"
    /\ LoopWriteSlot(ClearRequest(requests[loop.msg.index]))
    /\ loop' = IdleLoop
    /\ UNCHANGED <<nextRequestId, pc, call, wireVars, connVars, dispatched, resends>>

Resend ==
    \/ \E i \in Index : ResendFind(i)
    \/ ResendFlags \/ ResendWrite \/ ResendWriteFails

-------------------------------------------------------------------------------
(* The server answers a request once, with the header it received. *)
ServerReply(msg) ==
    /\ conn = "connected"
    /\ sent' = sent \ {msg}
    /\ inbound' = inbound \cup {msg}
    /\ UNCHANGED <<slotVars, pc, call, loop, outbox, connVars, dispatched, resends>>

LoopStep ==
    \/ \E msg \in outbox : AsyncWrite(msg) \/ AsyncWriteFails(msg)
    \/ \E msg \in inbound : OnMsg(msg)
    \/ OnMsgStore \/ OnMsgNotify \/ OnClose \/ AbortNext

Reply == \E msg \in sent : ServerReply(msg)

Next ==
    \/ \E t \in Threads : Begin(t) \/ CallStep(t)
    \/ LoopStep
    \/ Disconnect
    \/ Resend
    \/ Reply

Spec == Init /\ [][Next]_vars

(* A thread inside a call keeps running, the I/O thread serves its loop    *)
(* and ends the resends it has begun, and the server answers or the        *)
(* connection is lost.                                                     *)
FairSpec ==
    /\ Spec
    /\ \A t \in Threads : WF_vars(CallStep(t))
    /\ WF_vars(LoopStep \/ Resend)
    /\ WF_vars(Reply)

-------------------------------------------------------------------------------
(* Between taking a slot and giving it up, a call has the slot to itself:  *)
(* tryGrab never hands one slot to two threads, whatever responses, aborts *)
(* and resends do to the slot meanwhile.                                   *)
SlotExclusive ==
    \A t, u \in Threads :
        /\ pc[t] \in Owning
        /\ pc[u] \in Owning
        /\ call[t].index = call[u].index
        => t = u

(* A message that is queued, on the wire or on its way back still has its  *)
(* slot: not vacant, and filed under the id the response will carry.  It   *)
(* is why a response that arrives after its caller timed out cannot reach  *)
(* another call.                                                           *)
ReplyFindsItsSlot ==
    \A msg \in outbox \cup sent \cup inbound :
        /\ requests[msg.index].id = msg.id
        /\ ~ IsVacant(requests[msg.index])

(* transactMsgResponse "sends a message and waits for the corresponding    *)
(* reply": the response it returns with E_OK answers its own request, "the *)
(* matching response (matched by unique request id)" (msg_sender.h).       *)
OwnResponse ==
    \A t \in Threads :
        call[t].tx /\ call[t].rc = "E_OK" => call[t].response = call[t].id

(* The listener "is notified of incoming messages only when using the      *)
(* asynchronous API sendMsg()": without resends, onMsg passes it no        *)
(* response that a transaction is still waiting for.                       *)
ListenerLeavesTransactions ==
    \A msg \in dispatched, t \in Threads :
        msg.tx /\ pc[t] = "wait" => call[t].id # msg.id

(* The connection is lost, and the abort pass has not gone by slot i. *)
AbortIsDue(i) ==
    conn = "closing" \/ (loop.pc = "abort" /\ loop.msg.index <= i)

(* A transaction that waits when the connection is lost, or that comes to  *)
(* wait before the abort pass reaches its slot, does not wait for ever,    *)
(* even without a timeout and whether or not its request was written.      *)
WaitEnds ==
    \A t \in Threads :
        (pc[t] = "wait" /\ AbortIsDue(call[t].index)) ~> (pc[t] # "wait")

-------------------------------------------------------------------------------
(* The inductive invariants behind SlotExclusive and, without resends,     *)
(* behind ReplyFindsItsSlot and OwnResponse.                               *)

(* The slot of a running call is taken, and no other call runs on it. *)
OwnedSlotTaken ==
    \A t \in Threads : pc[t] \in Owning => ~ IsVacant(Slot(t))

(* Messages whose response has not been stored in a slot. *)
InFlight == outbox \cup sent \cup inbound
            \cup (IF loop.pc = "setResponse" THEN {loop.msg} ELSE {})

(* Without resends, a message is in one place only. *)
OnePlace ==
    /\ outbox \cap sent = {} /\ outbox \cap inbound = {} /\ sent \cap inbound = {}
    /\ loop.pc = "setResponse" => loop.msg \notin outbox \cup sent \cup inbound

(* A message in flight is the only one of its slot, which waits for it. *)
OneInFlightPerSlot ==
    /\ \A m, n \in InFlight : m.index = n.index => m = n
    /\ \A m \in InFlight : /\ requests[m.index].id = m.id
                           /\ requests[m.index].status \in {"RS_PENDING", "RS_ABORTED"}

(* While a call prepares its slot nothing in flight can touch the slot. *)
PreparedInPeace ==
    \A t \in Threads :
        pc[t] \in Preparing =>
            /\ Slot(t).status \in {"RS_PENDING", "RS_ABORTED"}
            /\ \A m \in InFlight : m.index # call[t].index

(* The slot of a running call is filed under the call's id. *)
OwnerId ==
    \A t \in Threads :
        pc[t] \in Owning \ {"storeId"} => Slot(t).id = call[t].id

(* A stored response answers the request of its slot, and the call that    *)
(* took it out is still its owner.                                         *)
StoredResponse ==
    /\ \A i \in Index :
          requests[i].status = "RS_ARRIVED" => requests[i].response = requests[i].id
    /\ \A t \in Threads :
          pc[t] = "clear" => /\ Slot(t).status = "RS_ARRIVED"
                             /\ call[t].response = call[t].id

NoResend == loop.pc \notin {"resendFlags", "resendWrite"}

ExclusiveInv == TypeOK /\ SlotExclusive /\ OwnedSlotTaken

MatchInv ==
    /\ ExclusiveInv
    /\ NoResend
    /\ OnePlace
    /\ OneInFlightPerSlot
    /\ PreparedInPeace
    /\ OwnerId
    /\ StoredResponse
    /\ OwnResponse

===============================================================================
