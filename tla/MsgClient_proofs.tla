---------------------------- MODULE MsgClient_proofs ----------------------------
(***************************************************************************)
(* Proofs about MsgClient for any set of threads, pool size and bounds.    *)
(***************************************************************************)
EXTENDS MsgClient, TLAPS

(* The probe index of getVacantRequest is an index of the pool. *)
LEMMA ProbeIndexInPool ==
    ASSUME NEW id \in Nat, NEW probe \in Nat
    PROVE  ProbeIndex(id, probe) \in Index
  BY PoolAssumption DEF ProbeIndex, Index

(* A method of MsgRequest yields a slot with the fields of the class. *)
LEMMA SlotMethods ==
    ASSUME NEW slot \in MsgRequestType, NEW id \in Nat, NEW tx \in BOOLEAN
    PROVE  /\ Grabbed(slot) \in MsgRequestType
           /\ IdStored(slot, id) \in MsgRequestType
           /\ SetFlags(slot, tx) \in MsgRequestType
           /\ SetRequest(slot, id) \in MsgRequestType
           /\ ClearRequest(slot) \in MsgRequestType
           /\ SetResponse(slot, id) \in MsgRequestType
           /\ AbortResponse(slot) \in MsgRequestType
           /\ ClearResponse(slot) \in MsgRequestType
  BY DEF MsgRequestType, RequestStatus, Grabbed, IdStored, SetFlags, SetRequest,
         ClearRequest, SetResponse, AbortResponse, ClearResponse

(* Index 0 exists, so the initial values have their types. *)
LEMMA InitialValues ==
    /\ 0 \in Index
    /\ NoHeader \in Header
    /\ IdleLoop \in [pc : LoopPc, msg : Header]
    /\ NewCall \in CallType
    /\ NewMsgRequest \in MsgRequestType
  BY PoolAssumption
  DEF Index, NoHeader, Header, IdleLoop, LoopPc, NewCall, CallType, CallResult,
      NewMsgRequest, MsgRequestType, RequestStatus, NoId

(* Updates of a call's local variables. *)
LEMMA CallUpdates ==
    ASSUME NEW c \in CallType, NEW rc \in CallResult, NEW i \in Index,
           NEW id \in Nat, NEW response \in Nat \cup {NoId},
           NEW tx \in BOOLEAN, NEW timed \in BOOLEAN
    PROVE  /\ [c EXCEPT !.rc = rc] \in CallType
           /\ [c EXCEPT !.index = i] \in CallType
           /\ [c EXCEPT !.probe = i] \in CallType
           /\ [c EXCEPT !.response = response] \in CallType
           /\ [c EXCEPT !.id = id, !.tx = tx, !.timed = timed] \in CallType
  BY DEF CallType

(* The outcome of a wait is a result of a call. *)
LEMMA WaitResultType ==
    ASSUME NEW slot \in MsgRequestType
    PROVE  WaitResult(slot) \in CallResult
  BY DEF MsgRequestType, RequestStatus, WaitResult, CallResult

(* The initial state has the types. *)
LEMMA InitTypeOK == Init => TypeOK
  BY InitialValues DEF Init, TypeOK, ThreadPc

(* Every action keeps the types. *)
LEMMA NextTypeOK == TypeOK /\ [Next]_vars => TypeOK'
  <1> SUFFICES ASSUME TypeOK, [Next]_vars PROVE TypeOK'
    OBVIOUS
  <1> USE DEF TypeOK, slotVars, wireVars, connVars, Goto, Return, Slot, WriteSlot,
              LoopGoto, LoopWriteSlot
  <1>1. ASSUME NEW t \in Threads, Begin(t) PROVE TypeOK'
    <2>1. PICK tx \in BOOLEAN, timed \in BOOLEAN :
             call' = [call EXCEPT ![t] = [NewCall EXCEPT !.id = nextRequestId,
                                                         !.tx = tx,
                                                         !.timed = timed]]
      BY <1>1 DEF Begin
    <2>2. [NewCall EXCEPT !.id = nextRequestId, !.tx = tx, !.timed = timed] \in CallType
      BY InitialValues, CallUpdates DEF CallResult
    <2> QED BY <1>1, <2>1, <2>2 DEF Begin, ThreadPc
  <1>2. ASSUME NEW t \in Threads, TryGrab(t) PROVE TypeOK'
    <2> DEFINE index == ProbeIndex(call[t].id, call[t].probe)
    <2>1. index \in Index
      <3>1. call[t].id \in Nat /\ call[t].probe \in Nat
        BY PoolAssumption DEF CallType, Index
      <3> QED BY <3>1, ProbeIndexInPool
    <2>2. Grabbed(requests[index]) \in MsgRequestType
      BY <2>1, SlotMethods
    <2>3. CASE IsVacant(requests[index])
      <3>1. [call[t] EXCEPT !.index = index] \in CallType
        BY <2>1, CallUpdates DEF CallResult
      <3>2. requests' = [requests EXCEPT ![index] = Grabbed(requests[index])]
        BY <1>2, <2>3 DEF TryGrab
      <3>3. /\ call' = [call EXCEPT ![t] = [call[t] EXCEPT !.index = index]]
            /\ pc' = [pc EXCEPT ![t] = "storeId"]
        BY <1>2, <2>3 DEF TryGrab
      <3> QED BY <1>2, <2>2, <3>1, <3>2, <3>3
              DEF TryGrab, ThreadPc, Owning, Preparing
    <2>4. CASE ~ IsVacant(requests[index])
      <3>1. CASE call[t].probe + 1 < PoolSize
        <4>1. call[t].probe + 1 \in Index
          BY <3>1, PoolAssumption DEF CallType, Index
        <4>2. [call[t] EXCEPT !.probe = call[t].probe + 1] \in CallType
          BY <4>1, CallUpdates DEF CallResult
        <4> QED BY <1>2, <2>4, <3>1, <4>2 DEF TryGrab
      <3>2. CASE ~ (call[t].probe + 1 < PoolSize)
        <4>1. [call[t] EXCEPT !.rc = "E_RESOURCE_LIMIT"] \in CallType
          BY CallUpdates, InitialValues DEF CallResult
        <4> QED BY <1>2, <2>4, <3>2, <4>1 DEF TryGrab, ThreadPc
      <3> QED BY <3>1, <3>2
    <2> QED BY <2>3, <2>4
  <1>3. ASSUME NEW t \in Threads, StoreId(t) PROVE TypeOK'
    BY <1>3, SlotMethods DEF StoreId, CallType, ThreadPc, Owning, Preparing
  <1>4. ASSUME NEW t \in Threads, StoreFlags(t) PROVE TypeOK'
    BY <1>4, SlotMethods DEF StoreFlags, CallType, ThreadPc, Owning, Preparing
  <1>5. ASSUME NEW t \in Threads, StoreRequest(t) PROVE TypeOK'
    BY <1>5, SlotMethods DEF StoreRequest, CallType, ThreadPc, Owning, Preparing
  <1>6. ASSUME NEW t \in Threads, Write(t) PROVE TypeOK'
    <2>1. HeaderOf(t) \in Header
      BY DEF HeaderOf, Header, CallType
    <2>2. [call[t] EXCEPT !.rc = "E_OK"] \in CallType
      BY CallUpdates, InitialValues DEF CallResult
    <2> QED BY <1>6, <2>1, <2>2 DEF Write, ThreadPc, Owning, Preparing
  <1>7. ASSUME NEW t \in Threads, WriteFails(t) PROVE TypeOK'
    BY <1>7 DEF WriteFails, ThreadPc, Owning, Preparing
  <1>8. ASSUME NEW t \in Threads, ForgetRequest(t) PROVE TypeOK'
    <2>1. [call[t] EXCEPT !.rc = "E_TRANSPORT_ERROR"] \in CallType
      BY CallUpdates, InitialValues DEF CallResult
    <2> QED BY <1>8, <2>1, SlotMethods DEF ForgetRequest, CallType, ThreadPc
  <1>9. ASSUME NEW t \in Threads, EnterWait(t) PROVE TypeOK'
    <2>1. /\ [call[t] EXCEPT !.rc = "E_DATA_CORRUPT"] \in CallType
          /\ [call[t] EXCEPT !.rc = "E_INVALID_STATE"] \in CallType
      BY CallUpdates, InitialValues DEF CallResult
    <2> QED BY <1>9, <2>1 DEF EnterWait, ThreadPc, Owning, Preparing
  <1>10. ASSUME NEW t \in Threads, Wait(t) PROVE TypeOK'
    <2>1. Slot(t) \in MsgRequestType
      BY DEF CallType
    <2>2. /\ [call[t] EXCEPT !.rc = WaitResult(Slot(t))] \in CallType
          /\ [call[t] EXCEPT !.response = Slot(t).response] \in CallType
      BY <2>1, WaitResultType, CallUpdates, InitialValues DEF MsgRequestType
    <2>3. [call[t] EXCEPT !.rc = "E_INTERNAL_ERROR"] \in CallType
      BY CallUpdates, InitialValues DEF CallResult
    <2> HIDE DEF Slot
    <2> QED BY <1>10, <2>2, <2>3 DEF Wait, ThreadPc, Owning, Preparing
  <1>11. ASSUME NEW t \in Threads, ReleaseSlot(t) PROVE TypeOK'
    <2>1. [call[t] EXCEPT !.rc = "E_OK"] \in CallType
      BY CallUpdates, InitialValues DEF CallResult
    <2> QED BY <1>11, <2>1, SlotMethods DEF ReleaseSlot, CallType, ThreadPc
  <1>12. ASSUME NEW msg \in outbox, AsyncWrite(msg) \/ AsyncWriteFails(msg) PROVE TypeOK'
    BY <1>12 DEF AsyncWrite, AsyncWriteFails
  <1>13. ASSUME NEW msg \in inbound, OnMsg(msg) PROVE TypeOK'
    BY <1>13 DEF OnMsg, LoopPc
  <1>14. CASE OnMsgStore
    BY <1>14, SlotMethods DEF OnMsgStore, LoopPc, Header
  <1>15. CASE OnMsgNotify
    BY <1>15, InitialValues DEF OnMsgNotify
  <1>16. CASE Disconnect
    BY <1>16 DEF Disconnect
  <1>17. CASE OnClose
    BY <1>17, InitialValues DEF OnClose, LoopPc
  <1>18. CASE AbortNext
    <2>1. loop.msg \in Header /\ loop.msg.index \in Index
      BY DEF Header
    <2>2. requests' \in [Index -> MsgRequestType]
      BY <1>18, <2>1, SlotMethods DEF AbortNext
    <2>3. CASE loop.msg.index + 1 < PoolSize
      <3>1. loop.msg.index + 1 \in Index
        BY <2>1, <2>3, PoolAssumption DEF Index
      <3>2. [loop.msg EXCEPT !.index = loop.msg.index + 1] \in Header
        BY <2>1, <3>1 DEF Header
      <3> QED BY <1>18, <2>2, <2>3, <3>2 DEF AbortNext, LoopPc
    <2>4. CASE ~ (loop.msg.index + 1 < PoolSize)
      BY <1>18, <2>2, <2>4, InitialValues DEF AbortNext
    <2> QED BY <2>3, <2>4
  <1>19. ASSUME NEW i \in Index, ResendFind(i) PROVE TypeOK'
    BY <1>19 DEF ResendFind, LoopPc, Header, MsgRequestType
  <1>20. CASE ResendFlags
    BY <1>20, SlotMethods DEF ResendFlags, LoopPc, Header
  <1>21. CASE ResendWrite
    BY <1>21, InitialValues DEF ResendWrite
  <1>22. CASE ResendWriteFails
    BY <1>22, SlotMethods, InitialValues DEF ResendWriteFails, Header
  <1>23. ASSUME NEW msg \in sent, ServerReply(msg) PROVE TypeOK'
    BY <1>23 DEF ServerReply
  <1>24. CASE UNCHANGED vars
    BY <1>24 DEF vars
  <1> QED
    BY <1>1, <1>2, <1>3, <1>4, <1>5, <1>6, <1>7, <1>8, <1>9, <1>10, <1>11, <1>12,
       <1>13, <1>14, <1>15, <1>16, <1>17, <1>18, <1>19, <1>20, <1>21, <1>22, <1>23,
       <1>24
    DEF Next, CallStep, LoopStep, Reply, Resend

(* Type correctness of the message client. *)
THEOREM TypeCorrect == Spec => []TypeOK
  BY InitTypeOK, NextTypeOK, PTL DEF Spec

--------------------------------------------------------------------------------
(* What the methods of MsgRequest do to the fields of a slot. *)
LEMMA SlotFields ==
    ASSUME NEW slot \in MsgRequestType, NEW id \in Nat, NEW tx \in BOOLEAN
    PROVE  /\ Grabbed(slot).status = "RS_PENDING"
           /\ Grabbed(slot).id = slot.id
           /\ IdStored(slot, id).status = slot.status
           /\ IdStored(slot, id).id = id
           /\ IdStored(slot, id).response = slot.response
           /\ SetFlags(slot, tx).status = slot.status
           /\ SetFlags(slot, tx).id = slot.id
           /\ SetFlags(slot, tx).response = slot.response
           /\ SetRequest(slot, id).status = slot.status
           /\ SetRequest(slot, id).id = slot.id
           /\ SetRequest(slot, id).response = slot.response
           /\ ClearRequest(slot).status = slot.status
           /\ ClearRequest(slot).id = slot.id
           /\ ClearRequest(slot).response = slot.response
           /\ SetResponse(slot, id).status = "RS_ARRIVED"
           /\ SetResponse(slot, id).id = slot.id
           /\ SetResponse(slot, id).response = id
           /\ AbortResponse(slot).id = slot.id
           /\ slot.status = "RS_PENDING" => AbortResponse(slot).status = "RS_ABORTED"
           /\ slot.status # "RS_PENDING" => AbortResponse(slot) = slot
           /\ ClearResponse(slot).status = "RS_IDLE"
           /\ ClearResponse(slot).id = slot.id
  BY DEF MsgRequestType, Grabbed, IdStored, SetFlags, SetRequest, ClearRequest,
         SetResponse, AbortResponse, ClearResponse

(* No method but clearResponse makes a slot vacant. *)
LEMMA OnlyClearVacates ==
    ASSUME NEW slot \in MsgRequestType, NEW id \in Nat, NEW tx \in BOOLEAN
    PROVE  /\ ~ IsVacant(Grabbed(slot))
           /\ IsVacant(IdStored(slot, id)) => IsVacant(slot)
           /\ IsVacant(SetFlags(slot, tx)) => IsVacant(slot)
           /\ IsVacant(SetRequest(slot, id)) => IsVacant(slot)
           /\ IsVacant(ClearRequest(slot)) => IsVacant(slot)
           /\ ~ IsVacant(SetResponse(slot, id))
           /\ IsVacant(AbortResponse(slot)) => IsVacant(slot)
  BY SlotFields DEF IsVacant

(* The slots of the threads and of the I/O thread's message are slots. *)
LEMMA SlotsTyped ==
    ASSUME TypeOK
    PROVE  /\ \A t \in Threads : /\ call[t].index \in Index
                                 /\ Slot(t) \in MsgRequestType
                                 /\ call[t].id \in Nat
                                 /\ call[t].tx \in BOOLEAN
           /\ loop.msg.index \in Index
           /\ loop.msg.id \in Nat
           /\ requests[loop.msg.index] \in MsgRequestType
  BY DEF TypeOK, CallType, Header, Slot

(* A step keeps ownership exclusive if no call becomes an owner or moves   *)
(* to another slot, and no slot with an owner becomes vacant.              *)
LEMMA OwnersStay ==
    ASSUME ExclusiveInv,
           \A u \in Threads : pc'[u] \in Owning =>
               /\ pc[u] \in Owning
               /\ call'[u].index = call[u].index
               /\ ~ IsVacant(requests'[call[u].index])
    PROVE  SlotExclusive' /\ OwnedSlotTaken'
  BY DEF ExclusiveInv, SlotExclusive, OwnedSlotTaken, Slot

(* Initially no call owns a slot. *)
LEMMA InitExclusive == Init => ExclusiveInv
  BY InitTypeOK
  DEF Init, ExclusiveInv, SlotExclusive, OwnedSlotTaken, Owning, Preparing

(* No step lets two calls own one slot, or vacates the slot of a call. *)
LEMMA NextExclusive == ExclusiveInv /\ [Next]_vars => ExclusiveInv'
  <1> SUFFICES ASSUME ExclusiveInv, [Next]_vars
               PROVE  SlotExclusive' /\ OwnedSlotTaken'
    BY NextTypeOK DEF ExclusiveInv
  <1>0. /\ TypeOK
        /\ \A u \in Threads : pc[u] \in Owning => ~ IsVacant(requests[call[u].index])
    BY DEF ExclusiveInv, OwnedSlotTaken, Slot
  <1> DEFINE Stays(u) == pc'[u] \in Owning =>
                 /\ pc[u] \in Owning
                 /\ call'[u].index = call[u].index
                 /\ ~ IsVacant(requests'[call[u].index])
  <1>a. ASSUME \A u \in Threads : Stays(u) PROVE SlotExclusive' /\ OwnedSlotTaken'
    BY <1>a, OwnersStay
  <1> USE DEF slotVars, wireVars, connVars, Goto, Return, WriteSlot, LoopGoto,
              LoopWriteSlot
  <1>1. ASSUME NEW t \in Threads, Begin(t) PROVE \A u \in Threads : Stays(u)
    BY <1>0, <1>1 DEF Begin, TypeOK, Owning, Preparing
  <1>2. ASSUME NEW t \in Threads, TryGrab(t) PROVE SlotExclusive' /\ OwnedSlotTaken'
    <2> DEFINE index == ProbeIndex(call[t].id, call[t].probe)
    <2>1. CASE IsVacant(requests[index])
      <3>1. index \in Index
        <4>1. call[t].id \in Nat /\ call[t].probe \in Nat
          BY <1>0, PoolAssumption DEF TypeOK, CallType, Index
        <4> QED BY <4>1, ProbeIndexInPool
      <3>2. /\ requests' = [requests EXCEPT ![index] = Grabbed(requests[index])]
            /\ call' = [call EXCEPT ![t] = [call[t] EXCEPT !.index = index]]
            /\ pc' = [pc EXCEPT ![t] = "storeId"]
            /\ pc[t] = "grab"
        BY <1>2, <2>1 DEF TryGrab
      <3> HIDE DEF index
      <3>3. ~ IsVacant(requests'[index])
        BY <1>0, <3>1, <3>2, OnlyClearVacates DEF TypeOK
      <3>4. call'[t].index = index
        BY <1>0, <3>2 DEF TypeOK, CallType
      <3>5. \A u \in Threads : pc[u] \in Owning => call[u].index # index
        BY <1>0, <2>1 DEF index
      <3>6. \A u \in Threads \ {t} : pc'[u] = pc[u] /\ call'[u] = call[u]
        BY <1>0, <3>2 DEF TypeOK
      <3>7. \A i \in Index \ {index} : requests'[i] = requests[i]
        BY <1>0, <3>2 DEF TypeOK
      <3>8. SlotExclusive'
        BY <3>4, <3>5, <3>6 DEF SlotExclusive, ExclusiveInv
      <3>9. OwnedSlotTaken'
        BY <1>0, <3>3, <3>4, <3>6, <3>7, SlotsTyped DEF OwnedSlotTaken, Slot
      <3> QED BY <3>8, <3>9
    <2>2. CASE ~ IsVacant(requests[index])
      <3>1. \A u \in Threads : Stays(u)
        BY <1>0, <1>2, <2>2 DEF TryGrab, TypeOK, Owning, Preparing
      <3> QED BY <3>1, <1>a
    <2> QED BY <2>1, <2>2
  <1>3. ASSUME NEW t \in Threads, StoreId(t) PROVE \A u \in Threads : Stays(u)
    BY <1>0, <1>3, SlotsTyped, OnlyClearVacates DEF StoreId, TypeOK, Slot, Owning, Preparing
  <1>4. ASSUME NEW t \in Threads, StoreFlags(t) PROVE \A u \in Threads : Stays(u)
    BY <1>0, <1>4, SlotsTyped, OnlyClearVacates DEF StoreFlags, TypeOK, Slot, Owning, Preparing
  <1>5. ASSUME NEW t \in Threads, StoreRequest(t) PROVE \A u \in Threads : Stays(u)
    BY <1>0, <1>5, SlotsTyped, OnlyClearVacates DEF StoreRequest, TypeOK, Slot, Owning, Preparing
  <1>6. ASSUME NEW t \in Threads, Write(t) PROVE \A u \in Threads : Stays(u)
    BY <1>0, <1>6 DEF Write, TypeOK, Owning, Preparing
  <1>7. ASSUME NEW t \in Threads, WriteFails(t) PROVE \A u \in Threads : Stays(u)
    BY <1>0, <1>7 DEF WriteFails, TypeOK, Owning, Preparing
  <1>8. ASSUME NEW t \in Threads, ForgetRequest(t) PROVE \A u \in Threads : Stays(u)
    BY <1>0, <1>8, SlotsTyped, OnlyClearVacates DEF ForgetRequest, TypeOK, Slot, Owning, Preparing
  <1>9. ASSUME NEW t \in Threads, EnterWait(t) PROVE \A u \in Threads : Stays(u)
    BY <1>0, <1>9 DEF EnterWait, TypeOK, Owning, Preparing
  <1>10. ASSUME NEW t \in Threads, Wait(t) PROVE \A u \in Threads : Stays(u)
    BY <1>0, <1>10 DEF Wait, TypeOK, CallType, Owning, Preparing
  <1>11. ASSUME NEW t \in Threads, ReleaseSlot(t) PROVE \A u \in Threads : Stays(u)
    <2>1. \A u \in Threads \ {t} : pc[u] \in Owning => call[u].index # call[t].index
      BY <1>11 DEF ReleaseSlot, ExclusiveInv, SlotExclusive, Owning
    <2> QED BY <1>0, <1>11, <2>1, SlotsTyped DEF ReleaseSlot, TypeOK, Owning, Preparing
  <1>12. ASSUME NEW msg \in outbox, AsyncWrite(msg) \/ AsyncWriteFails(msg) PROVE \A u \in Threads : Stays(u)
    BY <1>0, <1>12 DEF AsyncWrite, AsyncWriteFails
  <1>13. ASSUME NEW msg \in inbound, OnMsg(msg) PROVE \A u \in Threads : Stays(u)
    BY <1>0, <1>13 DEF OnMsg
  <1>14. ASSUME OnMsgStore PROVE \A u \in Threads : Stays(u)
    BY <1>0, <1>14, SlotsTyped, OnlyClearVacates DEF OnMsgStore, TypeOK
  <1>15. ASSUME OnMsgNotify PROVE \A u \in Threads : Stays(u)
    BY <1>0, <1>15 DEF OnMsgNotify
  <1>16. ASSUME Disconnect PROVE \A u \in Threads : Stays(u)
    BY <1>0, <1>16 DEF Disconnect
  <1>17. ASSUME OnClose PROVE \A u \in Threads : Stays(u)
    BY <1>0, <1>17 DEF OnClose
  <1>18. ASSUME AbortNext PROVE \A u \in Threads : Stays(u)
    BY <1>0, <1>18, SlotsTyped, OnlyClearVacates DEF AbortNext, TypeOK
  <1>19. ASSUME NEW i \in Index, ResendFind(i) PROVE \A u \in Threads : Stays(u)
    BY <1>0, <1>19 DEF ResendFind
  <1>20. ASSUME ResendFlags PROVE \A u \in Threads : Stays(u)
    BY <1>0, <1>20, SlotsTyped, OnlyClearVacates DEF ResendFlags, TypeOK
  <1>21. ASSUME ResendWrite PROVE \A u \in Threads : Stays(u)
    BY <1>0, <1>21 DEF ResendWrite
  <1>22. ASSUME ResendWriteFails PROVE \A u \in Threads : Stays(u)
    BY <1>0, <1>22, SlotsTyped, OnlyClearVacates DEF ResendWriteFails, TypeOK
  <1>23. ASSUME NEW msg \in sent, ServerReply(msg) PROVE \A u \in Threads : Stays(u)
    BY <1>0, <1>23 DEF ServerReply
  <1>24. ASSUME UNCHANGED vars PROVE \A u \in Threads : Stays(u)
    BY <1>0, <1>24 DEF vars
  <1> HIDE DEF Stays
  <1> QED
    BY <1>a, <1>1, <1>2, <1>3, <1>4, <1>5, <1>6, <1>7, <1>8, <1>9, <1>10, <1>11,
       <1>12, <1>13, <1>14, <1>15, <1>16, <1>17, <1>18, <1>19, <1>20, <1>21, <1>22,
       <1>23, <1>24
    DEF Next, CallStep, LoopStep, Reply, Resend

(* tryGrab hands a slot to one call at a time, also when the upper layer   *)
(* resends messages.                                                       *)
THEOREM Exclusive == Spec => []SlotExclusive
  <1>1. ExclusiveInv => SlotExclusive
    BY DEF ExclusiveInv
  <1> QED BY InitExclusive, NextExclusive, <1>1, PTL DEF Spec

--------------------------------------------------------------------------------
(* Without resends, a response reaches the call that sent the request.     *)

(* Initially nothing is in flight. *)
LEMMA InitMatch == Init => MatchInv
  BY InitExclusive
  DEF Init, MatchInv, NoResend, OnePlace, InFlight, OneInFlightPerSlot, PreparedInPeace,
      OwnerId, StoredResponse, OwnResponse, Owning, Preparing, IdleLoop, NewCall,
      NewMsgRequest

(* What a call's step leaves alone: the wire, and the slots and variables  *)
(* of the other calls.                                                     *)
LEMMA MatchOwnSlot ==
    ASSUME MatchInv, NEW t \in Threads, pc[t] \in Owning,
           NEW slot \in MsgRequestType, WriteSlot(t, slot)
    PROVE  /\ Slot(t) \in MsgRequestType
           /\ requests'[call[t].index] = slot
           /\ \A i \in Index : i # call[t].index => requests'[i] = requests[i]
           /\ \A u \in Threads : u # t /\ pc[u] \in Owning =>
                 /\ call[u].index \in Index
                 /\ call[u].index # call[t].index
  <1>1. TypeOK /\ SlotExclusive
    BY DEF MatchInv, ExclusiveInv
  <1> QED BY <1>1, SlotsTyped DEF TypeOK, SlotExclusive, WriteSlot

(* Steps that change no call and no slot, and put no new message in flight. *)
LEMMA MatchQuiet ==
    ASSUME MatchInv, UNCHANGED <<requests, pc, call>>, InFlight' \subseteq InFlight
    PROVE  /\ OneInFlightPerSlot' /\ PreparedInPeace' /\ OwnerId'
           /\ StoredResponse' /\ OwnResponse'
  <1> HIDE DEF InFlight
  <1>1. OneInFlightPerSlot'
    BY DEF MatchInv, OneInFlightPerSlot
  <1>2. PreparedInPeace'
    BY DEF MatchInv, PreparedInPeace, Slot
  <1>3. OwnerId' /\ StoredResponse' /\ OwnResponse'
    BY DEF MatchInv, OwnerId, StoredResponse, OwnResponse, Slot
  <1> QED BY <1>1, <1>2, <1>3

(* The part of MatchInv about slots, calls and messages in flight. *)
Match == OneInFlightPerSlot /\ PreparedInPeace /\ OwnerId /\ StoredResponse /\ OwnResponse

(* A call that prepares its slot changes neither its status nor anything   *)
(* the other calls and the messages in flight rely on.                     *)
LEMMA MatchPrepare ==
    ASSUME MatchInv, NEW t \in Threads, pc[t] \in Preparing,
           NEW slot \in MsgRequestType, WriteSlot(t, slot),
           slot.status = Slot(t).status,
           pc[t] = "storeId" => slot.id = call[t].id,
           pc[t] # "storeId" => slot.id = Slot(t).id,
           NEW label \in {"setFlags", "setRequest", "write"}, Goto(t, label),
           UNCHANGED <<call, loop, outbox, sent, inbound>>
    PROVE  Match'
  <1>1. TypeOK /\ pc[t] \in Owning /\ InFlight' = InFlight
    BY DEF MatchInv, ExclusiveInv, InFlight, Owning
  <1>2. /\ requests'[call[t].index] = slot
        /\ \A i \in Index : i # call[t].index => requests'[i] = requests[i]
        /\ \A u \in Threads : u # t /\ pc[u] \in Owning =>
              /\ call[u].index \in Index
              /\ call[u].index # call[t].index
    BY <1>1, MatchOwnSlot
  <1>3. /\ Slot(t).status \in {"RS_PENDING", "RS_ABORTED"}
        /\ \A m \in InFlight : m.index # call[t].index
    BY DEF MatchInv, PreparedInPeace
  <1>4. /\ pc'[t] = label
        /\ \A u \in Threads \ {t} : pc'[u] = pc[u]
    BY <1>1 DEF Goto, TypeOK
  <1>5. \A m \in InFlight : m.index \in Index
    BY <1>1 DEF InFlight, TypeOK, Header
  <1>6. slot.id = call[t].id
    BY <1>1 DEF MatchInv, OwnerId
  <1>7. Preparing \subseteq Owning /\ label \notin {"clear", "storeId"}
    BY DEF Owning
  <1> HIDE DEF InFlight
  <1>8. OneInFlightPerSlot'
    BY <1>1, <1>2, <1>3, <1>5 DEF MatchInv, OneInFlightPerSlot
  <1>9. PreparedInPeace'
    BY <1>1, <1>2, <1>3, <1>4, <1>7 DEF MatchInv, PreparedInPeace, Slot
  <1>10. OwnerId'
    BY <1>1, <1>2, <1>4, <1>6 DEF MatchInv, OwnerId, Slot
  <1>11. StoredResponse'
    <2>1. \A u \in Threads : pc'[u] = "clear" => u # t /\ pc[u] \in Owning
      BY <1>4, <1>7 DEF Owning
    <2> QED BY <1>1, <1>2, <1>3, <1>4, <2>1 DEF MatchInv, StoredResponse, Slot
  <1>12. OwnResponse'
    BY DEF MatchInv, OwnResponse
  <1> QED BY <1>8, <1>9, <1>10, <1>11, <1>12 DEF Match

(* A call that returns, after a last access to its own slot, with nothing  *)
(* of that slot in flight.                                                 *)
LEMMA MatchLeave ==
    ASSUME MatchInv, NEW t \in Threads, pc[t] \in Owning,
           NEW slot \in MsgRequestType, WriteSlot(t, slot), slot.status # "RS_ARRIVED",
           \A m \in InFlight : m.index # call[t].index,
           NEW rc, Return(t, rc),
           call[t].tx /\ rc = "E_OK" => call[t].response = call[t].id,
           UNCHANGED <<loop, outbox, sent, inbound>>
    PROVE  Match'
  <1>1. TypeOK /\ InFlight' = InFlight
    BY DEF MatchInv, ExclusiveInv, InFlight
  <1>2. /\ requests'[call[t].index] = slot
        /\ \A i \in Index : i # call[t].index => requests'[i] = requests[i]
        /\ \A u \in Threads : u # t /\ pc[u] \in Owning =>
              /\ call[u].index \in Index
              /\ call[u].index # call[t].index
    BY MatchOwnSlot
  <1>3. /\ pc'[t] = "ready"
        /\ \A u \in Threads \ {t} : pc'[u] = pc[u] /\ call'[u] = call[u]
        /\ call'[t].rc = rc /\ call'[t].tx = call[t].tx
        /\ call'[t].id = call[t].id /\ call'[t].response = call[t].response
    BY <1>1 DEF Return, Goto, TypeOK, CallType
  <1>4. \A m \in InFlight : m.index \in Index
    BY <1>1 DEF InFlight, TypeOK, Header
  <1>5. Preparing \subseteq Owning /\ "ready" \notin Owning /\ "clear" \in Owning
    BY DEF Owning, Preparing
  <1> HIDE DEF InFlight
  <1>6. OneInFlightPerSlot'
    BY <1>1, <1>2, <1>4 DEF MatchInv, OneInFlightPerSlot
  <1>7. PreparedInPeace'
    BY <1>1, <1>2, <1>3, <1>5 DEF MatchInv, PreparedInPeace, Slot
  <1>8. OwnerId'
    BY <1>2, <1>3, <1>5 DEF MatchInv, OwnerId, Slot
  <1>9. StoredResponse'
    BY <1>2, <1>3, <1>5 DEF MatchInv, StoredResponse, Slot
  <1>10. OwnResponse'
    BY <1>3 DEF MatchInv, OwnResponse
  <1> QED BY <1>6, <1>7, <1>8, <1>9, <1>10 DEF Match

(* A call that changes no slot and whose wire is left alone. *)
LEMMA MatchReads ==
    ASSUME MatchInv, NEW t \in Threads, UNCHANGED <<requests, loop, outbox, sent, inbound>>,
           \A u \in Threads \ {t} : pc'[u] = pc[u] /\ call'[u] = call[u],
           call'[t].index = call[t].index \/ pc'[t] \notin Owning,
           call'[t].id = call[t].id \/ pc'[t] \notin Owning,
           pc'[t] \in Preparing => pc[t] \in Preparing,
           pc'[t] \in Owning => pc[t] \in Owning /\ (pc[t] = "storeId" => pc'[t] = "storeId"),
           pc'[t] = "clear" => /\ Slot(t).status = "RS_ARRIVED"
                               /\ call'[t].response = Slot(t).response,
           call'[t].tx /\ call'[t].rc = "E_OK" => call'[t].response = call'[t].id
    PROVE  Match'
  <1>1. InFlight' = InFlight
    BY DEF InFlight
  <1>2. TypeOK
    BY DEF MatchInv, ExclusiveInv
  <1>0. Preparing \subseteq Owning
    BY DEF Owning
  <1> HIDE DEF InFlight
  <1>3. OneInFlightPerSlot'
    BY <1>1 DEF MatchInv, OneInFlightPerSlot
  <1>4. PreparedInPeace'
    BY <1>0, <1>1 DEF MatchInv, PreparedInPeace, Slot
  <1>5. OwnerId'
    BY DEF MatchInv, OwnerId, Slot
  <1>6. StoredResponse'
    <2>1. ASSUME pc'[t] = "clear"
          PROVE  /\ Slot(t)'.status = "RS_ARRIVED"
                 /\ call'[t].response = call'[t].id
      <3>1. /\ pc'[t] \in Owning /\ pc[t] \in Owning \ {"storeId"}
            /\ call'[t].index = call[t].index /\ call'[t].id = call[t].id
        BY <2>1 DEF Owning
      <3>2. Slot(t).id = call[t].id
        BY <3>1 DEF MatchInv, OwnerId
      <3>3. Slot(t).response = Slot(t).id
        BY <1>2, <2>1, SlotsTyped DEF MatchInv, StoredResponse, Slot
      <3> QED BY <2>1, <3>1, <3>2, <3>3 DEF Slot
    <2> QED BY <2>1 DEF MatchInv, StoredResponse, Slot
  <1>7. OwnResponse'
    BY DEF MatchInv, OwnResponse
  <1> QED BY <1>3, <1>4, <1>5, <1>6, <1>7 DEF Match

(* Every step but a resend keeps messages, slots and calls in accord. *)
LEMMA NextMatch ==
    ASSUME MaxResends = 0
    PROVE  MatchInv /\ [Next]_vars => MatchInv'
  <1> SUFFICES ASSUME MatchInv, [Next]_vars PROVE NoResend' /\ OnePlace' /\ Match'
    BY NextExclusive DEF MatchInv, Match
  <1>0. /\ TypeOK /\ OwnedSlotTaken /\ SlotExclusive /\ NoResend /\ OnePlace
        /\ OneInFlightPerSlot /\ PreparedInPeace /\ OwnerId /\ StoredResponse /\ OwnResponse
    BY DEF MatchInv, ExclusiveInv
  <1>b. Preparing \subseteq Owning
    BY DEF Owning
  <1>w. ASSUME UNCHANGED <<loop, outbox, sent, inbound>> PROVE NoResend' /\ OnePlace'
    BY <1>0, <1>w DEF NoResend, OnePlace
  <1>f. \A m \in InFlight : m.index \in Index
    BY <1>0 DEF InFlight, TypeOK, Header
  <1> DEFINE Goal == NoResend' /\ OnePlace' /\ Match'
  <1>1. ASSUME NEW t \in Threads, Begin(t) PROVE Goal
    <2>1. /\ pc' = [pc EXCEPT ![t] = "grab"]
          /\ \A u \in Threads \ {t} : call'[u] = call[u]
          /\ call'[t].rc = "NONE"
          /\ UNCHANGED <<requests, loop, outbox, sent, inbound>>
      BY <1>0, <1>1 DEF Begin, Goto, wireVars, TypeOK, NewCall
    <2>2. Match'
      BY <1>0, <2>1, MatchReads DEF TypeOK, Owning, Preparing
    <2> QED BY <2>1, <2>2, <1>w
  <1>2. ASSUME NEW t \in Threads, TryGrab(t) PROVE Goal
    <2> DEFINE index == ProbeIndex(call[t].id, call[t].probe)
    <2>0. UNCHANGED <<loop, outbox, sent, inbound>>
      BY <1>2 DEF TryGrab, wireVars
    <2>1. CASE IsVacant(requests[index])
      <3>1. index \in Index
        <4>1. call[t].id \in Nat /\ call[t].probe \in Nat
          BY <1>0, PoolAssumption DEF TypeOK, CallType, Index
        <4> QED BY <4>1, ProbeIndexInPool
      <3>2. /\ requests' = [requests EXCEPT ![index] = Grabbed(requests[index])]
            /\ call' = [call EXCEPT ![t] = [call[t] EXCEPT !.index = index]]
            /\ pc' = [pc EXCEPT ![t] = "storeId"]
            /\ pc[t] = "grab"
        BY <1>2, <2>1 DEF TryGrab, Goto
      <3> HIDE DEF index
      <3>3. requests'[index].status = "RS_PENDING"
        BY <1>0, <3>1, <3>2, SlotFields DEF TypeOK
      <3>4. /\ call'[t].index = index /\ call'[t].rc = call[t].rc
            /\ call'[t].tx = call[t].tx /\ call'[t].id = call[t].id
            /\ call'[t].response = call[t].response
            /\ pc'[t] = "storeId"
        BY <1>0, <3>2 DEF TypeOK, CallType
      <3>5. \A u \in Threads : pc[u] \in Owning =>
               call[u].index \in Index /\ call[u].index # index
        BY <1>0, <2>1, SlotsTyped DEF index, OwnedSlotTaken, Slot
      <3>6. \A u \in Threads \ {t} : pc'[u] = pc[u] /\ call'[u] = call[u]
        BY <1>0, <3>2 DEF TypeOK
      <3>7. \A i \in Index \ {index} : requests'[i] = requests[i]
        BY <1>0, <3>2 DEF TypeOK
      <3>8. InFlight' = InFlight
        BY <2>0 DEF InFlight
      <3>9. \A m \in InFlight : m.index # index
        BY <1>0, <2>1 DEF OneInFlightPerSlot, IsVacant, index
      <3> HIDE DEF InFlight
      <3>10. OneInFlightPerSlot'
        BY <1>0, <1>f, <3>7, <3>8, <3>9 DEF OneInFlightPerSlot
      <3>11. PreparedInPeace'
        BY <1>0, <1>b, <3>3, <3>4, <3>5, <3>6, <3>7, <3>8, <3>9 DEF PreparedInPeace, Slot
      <3>12. OwnerId'
        BY <1>0, <3>4, <3>5, <3>6, <3>7 DEF OwnerId, Slot
      <3>13. StoredResponse'
        <4>1. \A u \in Threads : pc'[u] = "clear" => u # t /\ pc[u] \in Owning
          BY <3>4, <3>6 DEF Owning
        <4> QED BY <1>0, <3>3, <3>5, <3>6, <3>7, <4>1 DEF StoredResponse, Slot
      <3>14. OwnResponse'
        BY <1>0, <3>4, <3>6 DEF OwnResponse
      <3> QED BY <2>0, <3>10, <3>11, <3>12, <3>13, <3>14, <1>w DEF Match
    <2>2. CASE ~ IsVacant(requests[index])
      <3>1. /\ requests' = requests
            /\ pc[t] = "grab"
            /\ pc'[t] \in {"grab", "ready"}
            /\ \A u \in Threads \ {t} : pc'[u] = pc[u] /\ call'[u] = call[u]
            /\ call'[t].rc = call[t].rc \/ call'[t].rc = "E_RESOURCE_LIMIT"
            /\ call'[t].response = call[t].response /\ call'[t].id = call[t].id
            /\ call'[t].tx = call[t].tx
        BY <1>0, <1>2, <2>2 DEF TryGrab, Goto, Return, TypeOK, CallType
      <3>2. pc'[t] \notin Owning /\ pc'[t] \notin Preparing
        BY <3>1 DEF Owning, Preparing
      <3>3. Match'
        BY <1>0, <2>0, <3>1, <3>2, MatchReads DEF OwnResponse, Owning
      <3> QED BY <2>0, <3>3, <1>w
    <2> QED BY <2>1, <2>2
  <1>3. ASSUME NEW t \in Threads, StoreId(t) PROVE Goal
    <2>1. IdStored(Slot(t), call[t].id) \in MsgRequestType
      BY <1>0, SlotsTyped, SlotMethods
    <2>2. Match'
      BY <1>0, <1>3, <2>1, SlotsTyped, SlotFields, MatchPrepare
      DEF StoreId, Preparing, wireVars
    <2> QED BY <1>3, <2>2, <1>w DEF StoreId, wireVars
  <1>4. ASSUME NEW t \in Threads, StoreFlags(t) PROVE Goal
    <2>1. SetFlags(Slot(t), call[t].tx) \in MsgRequestType
      BY <1>0, SlotsTyped, SlotMethods
    <2>2. Match'
      BY <1>0, <1>4, <2>1, SlotsTyped, SlotFields, MatchPrepare
      DEF StoreFlags, Preparing, wireVars
    <2> QED BY <1>4, <2>2, <1>w DEF StoreFlags, wireVars
  <1>5. ASSUME NEW t \in Threads, StoreRequest(t) PROVE Goal
    <2>1. SetRequest(Slot(t), call[t].id) \in MsgRequestType
      BY <1>0, SlotsTyped, SlotMethods
    <2>2. Match'
      BY <1>0, <1>5, <2>1, SlotsTyped, SlotFields, MatchPrepare
      DEF StoreRequest, Preparing, wireVars
    <2> QED BY <1>5, <2>2, <1>w DEF StoreRequest, wireVars
  <1>6. ASSUME NEW t \in Threads, Write(t) PROVE Goal
    <2> DEFINE new == HeaderOf(t)
    <2>1. /\ pc[t] = "write" /\ outbox' = outbox \cup {new}
          /\ UNCHANGED <<requests, loop, sent, inbound>>
      BY <1>6 DEF Write, slotVars
    <2>2. new.index = call[t].index /\ new.id = call[t].id
      BY DEF HeaderOf
    <2>3. /\ pc'[t] \in {"enter", "ready"}
          /\ \A u \in Threads \ {t} : pc'[u] = pc[u] /\ call'[u] = call[u]
          /\ call'[t].index = call[t].index /\ call'[t].id = call[t].id
          /\ call'[t].tx = call[t].tx /\ call'[t].response = call[t].response
          /\ call'[t].tx => call'[t].rc = call[t].rc
      BY <1>0, <1>6 DEF Write, Goto, Return, TypeOK, CallType
    <2> HIDE DEF new
    <2>4. InFlight' = InFlight \cup {new}
      BY <2>1 DEF InFlight
    <2>5. /\ pc[t] \in Preparing /\ pc[t] \in Owning \ {"storeId"}
          /\ pc'[t] \notin Preparing /\ pc'[t] \notin {"clear", "storeId"}
      BY <2>1, <2>3 DEF Preparing, Owning
    <2>6. /\ Slot(t).status \in {"RS_PENDING", "RS_ABORTED"}
          /\ \A m \in InFlight : m.index # new.index
          /\ Slot(t).id = new.id
      BY <1>0, <2>2, <2>5 DEF PreparedInPeace, OwnerId
    <2>7. OnePlace' /\ NoResend'
      BY <1>0, <2>1, <2>6 DEF OnePlace, NoResend, InFlight
    <2> HIDE DEF InFlight
    <2>8. OneInFlightPerSlot'
      BY <1>0, <2>1, <2>2, <2>4, <2>6 DEF OneInFlightPerSlot, Slot
    <2>9. PreparedInPeace'
      <3>1. \A u \in Threads : pc'[u] \in Preparing =>
               /\ u # t /\ pc[u] \in Preparing /\ call'[u] = call[u]
               /\ call[u].index # new.index
        BY <1>0, <1>b, <2>2, <2>3, <2>5 DEF SlotExclusive
      <3> QED BY <1>0, <2>1, <2>4, <3>1 DEF PreparedInPeace, Slot
    <2>10. OwnerId'
      BY <1>0, <2>1, <2>3, <2>5 DEF OwnerId, Slot
    <2>11. StoredResponse'
      BY <1>0, <2>1, <2>3, <2>5 DEF StoredResponse, Slot
    <2>12. OwnResponse'
      BY <1>0, <2>3 DEF OwnResponse
    <2> QED BY <2>7, <2>8, <2>9, <2>10, <2>11, <2>12 DEF Match
  <1>7. ASSUME NEW t \in Threads, WriteFails(t) PROVE Goal
    <2>1. /\ pc' = [pc EXCEPT ![t] = "clearRequest"] /\ pc[t] = "write"
          /\ UNCHANGED <<requests, call, loop, outbox, sent, inbound>>
      BY <1>7 DEF WriteFails, Goto, slotVars, wireVars
    <2>2. Match'
      BY <1>0, <2>1, MatchReads DEF TypeOK, Owning, Preparing, OwnResponse
    <2> QED BY <2>1, <2>2, <1>w
  <1>8. ASSUME NEW t \in Threads, ForgetRequest(t) PROVE Goal
    <2>1. /\ pc[t] = "clearRequest" /\ WriteSlot(t, ClearRequest(Slot(t)))
          /\ Return(t, "E_TRANSPORT_ERROR")
          /\ UNCHANGED <<loop, outbox, sent, inbound>>
      BY <1>8 DEF ForgetRequest, wireVars
    <2>2. /\ ClearRequest(Slot(t)) \in MsgRequestType
          /\ ClearRequest(Slot(t)).status = Slot(t).status
      BY <1>0, SlotsTyped, SlotMethods, SlotFields
    <2>3. pc[t] \in Preparing /\ pc[t] \in Owning
      BY <2>1 DEF Preparing, Owning
    <2>4. /\ Slot(t).status # "RS_ARRIVED"
          /\ \A m \in InFlight : m.index # call[t].index
      BY <1>0, <2>3 DEF PreparedInPeace
    <2>5. Match'
      BY <2>1, <2>2, <2>3, <2>4, MatchLeave
    <2> QED BY <2>1, <2>5, <1>w
  <1>9. ASSUME NEW t \in Threads, EnterWait(t) PROVE Goal
    <2>1. /\ pc[t] = "enter" /\ pc'[t] \in {"ready", "wait"}
          /\ UNCHANGED <<requests, loop, outbox, sent, inbound>>
          /\ \A u \in Threads \ {t} : pc'[u] = pc[u] /\ call'[u] = call[u]
          /\ call'[t].index = call[t].index /\ call'[t].id = call[t].id
          /\ call'[t].tx = call[t].tx /\ call'[t].response = call[t].response
          /\ call'[t].rc = "E_OK" => call[t].rc = "E_OK"
      BY <1>0, <1>9 DEF EnterWait, Goto, Return, TypeOK, CallType, slotVars, wireVars
    <2>2. Match'
      BY <1>0, <2>1, MatchReads DEF Owning, Preparing, OwnResponse
    <2> QED BY <2>1, <2>2, <1>w
  <1>10. ASSUME NEW t \in Threads, Wait(t) PROVE Goal
    <2>0. pc[t] = "wait" /\ UNCHANGED <<requests, loop, outbox, sent, inbound>>
      BY <1>10 DEF Wait, slotVars, wireVars
    <2>1. CASE WaitResult(Slot(t)) = "E_OK" /\ Slot(t).response # NoId
      <3>1. /\ pc'[t] = "clear"
            /\ \A u \in Threads \ {t} : pc'[u] = pc[u] /\ call'[u] = call[u]
            /\ call'[t].index = call[t].index /\ call'[t].id = call[t].id
            /\ call'[t].tx = call[t].tx /\ call'[t].response = Slot(t).response
        BY <1>0, <1>10, <2>1 DEF Wait, Goto, TypeOK, CallType
      <3>2. Slot(t).status = "RS_ARRIVED"
        BY <1>0, <2>1, SlotsTyped DEF WaitResult, MsgRequestType, RequestStatus
      <3>3. Slot(t).response = call[t].id
        BY <1>0, <2>0, <3>2, SlotsTyped DEF StoredResponse, OwnerId, Owning, Slot
      <3>4. Match'
        BY <2>0, <3>1, <3>2, <3>3, MatchReads DEF Owning, Preparing
      <3> QED BY <2>0, <3>4, <1>w
    <2>2. CASE WaitResult(Slot(t)) # "E_OK" \/ Slot(t).response = NoId
      <3>1. /\ pc'[t] = "ready"
            /\ \A u \in Threads \ {t} : pc'[u] = pc[u] /\ call'[u] = call[u]
            /\ call'[t].rc # "E_OK"
        BY <1>0, <1>10, <2>2 DEF Wait, Goto, Return, TypeOK, CallType
      <3>2. Match'
        BY <2>0, <2>2, <3>1, MatchReads DEF Owning, Preparing
      <3> QED BY <2>0, <3>2, <1>w
    <2> QED BY <2>1, <2>2
  <1>11. ASSUME NEW t \in Threads, ReleaseSlot(t) PROVE Goal
    <2>1. /\ pc[t] = "clear" /\ WriteSlot(t, ClearResponse(Slot(t)))
          /\ Return(t, "E_OK")
          /\ UNCHANGED <<loop, outbox, sent, inbound>>
      BY <1>11 DEF ReleaseSlot, wireVars
    <2>2. /\ ClearResponse(Slot(t)) \in MsgRequestType
          /\ ClearResponse(Slot(t)).status = "RS_IDLE"
      BY <1>0, SlotsTyped, SlotMethods, SlotFields
    <2>3. pc[t] \in Owning
      BY <2>1 DEF Owning
    <2>4. Slot(t).status = "RS_ARRIVED" /\ call[t].response = call[t].id
      BY <1>0, <2>1 DEF StoredResponse
    <2>5. \A m \in InFlight : m.index # call[t].index
      BY <1>0, <2>4 DEF OneInFlightPerSlot, Slot
    <2>6. Match'
      BY <2>1, <2>2, <2>3, <2>4, <2>5, MatchLeave
    <2> QED BY <2>1, <2>6, <1>w
  <1>12. ASSUME NEW msg \in outbox, AsyncWrite(msg) \/ AsyncWriteFails(msg) PROVE Goal
    <2>1. /\ UNCHANGED <<requests, pc, call, loop, inbound>> /\ loop.pc = "idle"
          /\ outbox' = outbox \ {msg} /\ sent' \in {sent, sent \cup {msg}}
      BY <1>12 DEF AsyncWrite, AsyncWriteFails, slotVars
    <2>2. InFlight' \subseteq InFlight
      BY <2>1 DEF InFlight
    <2>3. OnePlace' /\ NoResend'
      BY <1>0, <2>1 DEF OnePlace, NoResend
    <2> QED BY <2>1, <2>2, <2>3, MatchQuiet DEF Match
  <1>13. ASSUME NEW msg \in inbound, OnMsg(msg) PROVE Goal
    <2>1. /\ UNCHANGED <<requests, pc, call, outbox, sent>> /\ loop.pc = "idle"
          /\ inbound' = inbound \ {msg}
          /\ loop' = loop \/ loop' = [pc |-> "setResponse", msg |-> msg]
      BY <1>13 DEF OnMsg, slotVars, LoopGoto
    <2>2. InFlight' \subseteq InFlight
      BY <2>1 DEF InFlight
    <2>3. OnePlace' /\ NoResend'
      BY <1>0, <2>1 DEF OnePlace, NoResend
    <2> QED BY <2>1, <2>2, <2>3, MatchQuiet DEF Match
  <1>14. ASSUME OnMsgStore PROVE Goal
    <2> DEFINE i == loop.msg.index
               slot == SetResponse(requests[i], loop.msg.id)
    <2>1. /\ loop.pc = "setResponse" /\ loop' = [pc |-> "getFlags", msg |-> loop.msg]
          /\ requests' = [requests EXCEPT ![i] = slot]
          /\ UNCHANGED <<pc, call, outbox, sent, inbound>>
      BY <1>14 DEF OnMsgStore, LoopGoto, LoopWriteSlot, wireVars
    <2>2. InFlight' = InFlight \ {loop.msg} /\ loop.msg \in InFlight
      BY <1>0, <2>1 DEF InFlight, OnePlace
    <2>3. /\ i \in Index /\ slot.status = "RS_ARRIVED"
          /\ slot.id = requests[i].id /\ slot.response = loop.msg.id
      BY <1>0, SlotsTyped DEF SetResponse, MsgRequestType
    <2>4. requests[i].id = loop.msg.id
      BY <1>0, <2>2 DEF OneInFlightPerSlot
    <2>5. \A m \in InFlight' : m \in InFlight /\ m.index # i /\ m.index \in Index
      BY <1>0, <1>f, <2>2 DEF OneInFlightPerSlot
    <2> HIDE DEF slot, i
    <2>6. requests'[i] = slot /\ \A j \in Index \ {i} : requests'[j] = requests[j]
      BY <1>0, <2>1, <2>3 DEF TypeOK
    <2>7. OnePlace' /\ NoResend'
      BY <1>0, <2>1 DEF OnePlace, NoResend
    <2> HIDE DEF InFlight
    <2>8. OneInFlightPerSlot'
      BY <1>0, <2>5, <2>6 DEF OneInFlightPerSlot
    <2>9. PreparedInPeace'
      <3>1. \A u \in Threads : pc[u] \in Preparing => call[u].index # i
        BY <1>0, <2>2 DEF PreparedInPeace, i
      <3> QED BY <1>0, <2>1, <2>5, <2>6, <3>1, SlotsTyped DEF PreparedInPeace, Slot
    <2>10. OwnerId'
      BY <1>0, <2>1, <2>3, <2>6, SlotsTyped DEF OwnerId, Slot
    <2>11. StoredResponse'
      BY <1>0, <2>1, <2>3, <2>4, <2>6, SlotsTyped DEF StoredResponse, Slot
    <2>12. OwnResponse'
      BY <1>0, <2>1 DEF OwnResponse
    <2> QED BY <2>7, <2>8, <2>9, <2>10, <2>11, <2>12 DEF Match
  <1>15. ASSUME OnMsgNotify PROVE Goal
    <2>1. /\ UNCHANGED <<requests, pc, call, outbox, sent, inbound>>
          /\ loop.pc = "getFlags" /\ loop'.pc = "idle"
      BY <1>15 DEF OnMsgNotify, slotVars, wireVars, IdleLoop
    <2>2. InFlight' = InFlight
      BY <2>1 DEF InFlight
    <2>3. OnePlace' /\ NoResend'
      BY <1>0, <2>1 DEF OnePlace, NoResend
    <2> QED BY <2>1, <2>2, <2>3, MatchQuiet DEF Match
  <1>16. ASSUME Disconnect PROVE Goal
    <2>1. /\ UNCHANGED <<requests, pc, call, outbox, loop>>
          /\ sent' = {} /\ inbound' = {}
      BY <1>16 DEF Disconnect, slotVars
    <2>2. InFlight' \subseteq InFlight
      BY <2>1 DEF InFlight
    <2>3. OnePlace' /\ NoResend'
      BY <1>0, <2>1 DEF OnePlace, NoResend
    <2> QED BY <2>1, <2>2, <2>3, MatchQuiet DEF Match
  <1>17. ASSUME OnClose PROVE Goal
    <2>1. /\ UNCHANGED <<requests, pc, call, outbox, sent, inbound>>
          /\ loop.pc = "idle" /\ loop'.pc = "abort"
      BY <1>17 DEF OnClose, slotVars, wireVars, LoopGoto
    <2>2. InFlight' = InFlight
      BY <2>1 DEF InFlight
    <2>3. OnePlace' /\ NoResend'
      BY <1>0, <2>1 DEF OnePlace, NoResend
    <2> QED BY <2>1, <2>2, <2>3, MatchQuiet DEF Match
  <1>18. ASSUME AbortNext PROVE Goal
    <2> DEFINE i == loop.msg.index
               slot == AbortResponse(requests[i])
    <2>1. /\ loop.pc = "abort" /\ loop'.pc \in {"abort", "idle"}
          /\ requests' = [requests EXCEPT ![i] = slot]
          /\ UNCHANGED <<pc, call, outbox, sent, inbound>>
      BY <1>18 DEF AbortNext, LoopGoto, LoopWriteSlot, wireVars, IdleLoop
    <2>2. InFlight' = InFlight
      BY <2>1 DEF InFlight
    <2>3. /\ i \in Index /\ slot.id = requests[i].id
          /\ slot = requests[i] \/ (/\ requests[i].status = "RS_PENDING"
                                    /\ slot.status = "RS_ABORTED")
      BY <1>0, SlotsTyped DEF AbortResponse, MsgRequestType
    <2> HIDE DEF slot, i
    <2>4. \A j \in Index : /\ requests'[j].id = requests[j].id
                           /\ \/ requests'[j] = requests[j]
                              \/ /\ requests[j].status = "RS_PENDING"
                                 /\ requests'[j].status = "RS_ABORTED"
      BY <1>0, <2>1, <2>3 DEF TypeOK
    <2>5. OnePlace' /\ NoResend'
      BY <1>0, <2>1 DEF OnePlace, NoResend
    <2> HIDE DEF InFlight
    <2>6. OneInFlightPerSlot'
      BY <1>0, <1>f, <2>2, <2>4 DEF OneInFlightPerSlot
    <2>7. PreparedInPeace'
      BY <1>0, <2>1, <2>2, <2>4, SlotsTyped DEF PreparedInPeace, Slot
    <2>8. OwnerId'
      BY <1>0, <2>1, <2>4, SlotsTyped DEF OwnerId, Slot
    <2>9. StoredResponse'
      BY <1>0, <2>1, <2>4, SlotsTyped DEF StoredResponse, Slot
    <2>10. OwnResponse'
      BY <1>0, <2>1 DEF OwnResponse
    <2> QED BY <2>5, <2>6, <2>7, <2>8, <2>9, <2>10 DEF Match
  <1>19. ASSUME NEW i \in Index, ResendFind(i) PROVE Goal
    BY <1>0, <1>19 DEF ResendFind, TypeOK
  <1>20. ASSUME ResendFlags \/ ResendWrite \/ ResendWriteFails PROVE Goal
    BY <1>0, <1>20 DEF NoResend, ResendFlags, ResendWrite, ResendWriteFails
  <1>21. ASSUME NEW msg \in sent, ServerReply(msg) PROVE Goal
    <2>1. /\ UNCHANGED <<requests, pc, call, loop, outbox>>
          /\ sent' = sent \ {msg} /\ inbound' = inbound \cup {msg}
      BY <1>21 DEF ServerReply, slotVars
    <2>2. InFlight' \subseteq InFlight
      BY <2>1 DEF InFlight
    <2>3. OnePlace' /\ NoResend'
      BY <1>0, <2>1 DEF OnePlace, NoResend
    <2> QED BY <2>1, <2>2, <2>3, MatchQuiet DEF Match
  <1>22. ASSUME UNCHANGED vars PROVE Goal
    <2>1. UNCHANGED <<requests, pc, call, loop, outbox, sent, inbound>>
      BY <1>22 DEF vars
    <2>2. InFlight' = InFlight
      BY <2>1 DEF InFlight
    <2> QED BY <2>1, <2>2, <1>w, MatchQuiet DEF Match
  <1> HIDE DEF Goal
  <1>23. Goal
    BY <1>1, <1>2, <1>3, <1>4, <1>5, <1>6, <1>7, <1>8, <1>9, <1>10, <1>11, <1>12,
       <1>13, <1>14, <1>15, <1>16, <1>17, <1>18, <1>19, <1>20, <1>21, <1>22
    DEF Next, CallStep, LoopStep, Reply, Resend
  <1> QED BY <1>23 DEF Goal

(* Without resends, transactMsgResponse returns the response to its own    *)
(* request, for any number of threads and slots, whatever timeouts, failed *)
(* writes and disconnections happen.                                       *)
THEOREM TransactOwnResponse ==
    ASSUME MaxResends = 0
    PROVE  Spec => []OwnResponse
  <1>1. MatchInv => OwnResponse
    BY DEF MatchInv
  <1> QED BY InitMatch, NextMatch, <1>1, PTL DEF Spec

(* Without resends, a message on its way keeps its slot until its response *)
(* is stored: the slot is not vacant and is filed under the message's id.  *)
THEOREM SlotKeptForReply ==
    ASSUME MaxResends = 0
    PROVE  Spec => []ReplyFindsItsSlot
  <1>1. MatchInv => ReplyFindsItsSlot
    <2> SUFFICES ASSUME MatchInv, NEW msg \in outbox \cup sent \cup inbound
                 PROVE  /\ requests[msg.index].id = msg.id
                        /\ ~ IsVacant(requests[msg.index])
      BY DEF ReplyFindsItsSlot
    <2>1. msg \in InFlight
      BY DEF InFlight
    <2> QED BY <2>1 DEF MatchInv, OneInFlightPerSlot, IsVacant
  <1> QED BY InitMatch, NextMatch, <1>1, PTL DEF Spec


--------------------------------------------------------------------------------
(* Without resends, the listener sees no response that a transaction waits *)
(* for: request ids are not handed out twice, so a message that carries    *)
(* the id of a running call is its own, and the call's slot still holds    *)
(* the call's flags when the I/O thread reads them back.                   *)

(* Every message the client has handed over and not forgotten. *)
Traffic == outbox \cup sent \cup inbound \cup dispatched
           \cup (IF loop.pc \in {"setResponse", "getFlags"} THEN {loop.msg} ELSE {})

Unsent == {"grab"} \cup Preparing

IdsUnique ==
    /\ \A t \in Threads : pc[t] # "ready" => call[t].id < nextRequestId
    /\ \A t, u \in Threads :
          pc[t] # "ready" /\ pc[u] # "ready" /\ call[t].id = call[u].id => t = u
    /\ \A m \in Traffic : m.id < nextRequestId

TrafficNamed ==
    \A m \in Traffic, t \in Threads :
        m.id = call[t].id => /\ pc[t] \notin Unsent
                             /\ pc[t] \in {"enter", "wait"} => m = HeaderOf(t)

FlagsKept ==
    \A t \in Threads :
        pc[t] \in {"setRequest", "write", "enter", "wait"} => Slot(t).tx = call[t].tx

WaitersUnheard ==
    \A m \in dispatched, t \in Threads :
        m.tx /\ pc[t] \in {"enter", "wait"} => call[t].id # m.id

ListenerInv == IdsUnique /\ TrafficNamed /\ FlagsKept /\ WaitersUnheard

(* What the methods of MsgRequest leave of the flags. *)
LEMMA FlagsOfSlot ==
    ASSUME NEW slot \in MsgRequestType, NEW id \in Nat, NEW tx \in BOOLEAN
    PROVE  /\ Grabbed(slot).tx = slot.tx /\ IdStored(slot, id).tx = slot.tx
           /\ SetFlags(slot, tx).tx = tx /\ SetRequest(slot, id).tx = slot.tx
           /\ ClearRequest(slot).tx = slot.tx /\ SetResponse(slot, id).tx = slot.tx
           /\ AbortResponse(slot).tx = slot.tx /\ ClearResponse(slot).tx = slot.tx
  BY DEF MsgRequestType, Grabbed, IdStored, SetFlags, SetRequest, ClearRequest,
         SetResponse, AbortResponse, ClearResponse

(* A step of the I/O thread or of the server: the messages only move. *)
LEMMA ListenerQuiet ==
    ASSUME TypeOK, ListenerInv, UNCHANGED <<pc, call, nextRequestId>>,
           Traffic' \subseteq Traffic,
           \A i \in Index : requests'[i].tx = requests[i].tx
    PROVE  /\ IdsUnique' /\ TrafficNamed' /\ FlagsKept'
           /\ dispatched' \subseteq dispatched => WaitersUnheard'
  <1> HIDE DEF Traffic
  <1>1. IdsUnique'
    BY DEF ListenerInv, IdsUnique
  <1>2. TrafficNamed'
    BY DEF ListenerInv, TrafficNamed, HeaderOf
  <1>3. FlagsKept'
    BY SlotsTyped DEF ListenerInv, FlagsKept, Slot
  <1>4. dispatched' \subseteq dispatched => WaitersUnheard'
    BY DEF ListenerInv, WaitersUnheard
  <1> QED BY <1>1, <1>2, <1>3, <1>4

(* A step of a running call that hands nothing over. *)
LEMMA ListenerCall ==
    ASSUME ListenerInv, NEW t \in Threads, pc[t] # "ready",
           UNCHANGED <<nextRequestId, loop, outbox, sent, inbound, dispatched>>,
           \A u \in Threads \ {t} : pc'[u] = pc[u] /\ call'[u] = call[u],
           call'[t].id = call[t].id,
           pc'[t] \in Unsent => pc[t] \in Unsent,
           pc'[t] \in {"enter", "wait"} => pc[t] \in {"enter", "wait"} /\ call' = call
    PROVE  IdsUnique' /\ TrafficNamed' /\ WaitersUnheard'
  <1>1. Traffic' = Traffic
    BY DEF Traffic
  <1> HIDE DEF Traffic
  <1>2. \A u \in Threads : call'[u].id = call[u].id /\ (pc'[u] # "ready" => pc[u] # "ready")
    OBVIOUS
  <1>3. \A u \in Threads : /\ pc'[u] \in Unsent => pc[u] \in Unsent
                           /\ pc'[u] \in {"enter", "wait"} => /\ pc[u] \in {"enter", "wait"}
                                                             /\ call'[u] = call[u]
    OBVIOUS
  <1>4. IdsUnique'
    BY <1>1, <1>2 DEF ListenerInv, IdsUnique
  <1>5. TrafficNamed'
    BY <1>1, <1>2, <1>3 DEF ListenerInv, TrafficNamed, HeaderOf
  <1>6. WaitersUnheard'
    BY <1>2, <1>3 DEF ListenerInv, WaitersUnheard
  <1> QED BY <1>4, <1>5, <1>6

Flagged == {"setRequest", "write", "enter", "wait"}

(* A call that writes its own slot leaves the flags of the others alone. *)
LEMMA FlagsOwnSlot ==
    ASSUME MatchInv, FlagsKept, NEW t \in Threads, pc[t] \in Owning,
           NEW slot \in MsgRequestType, WriteSlot(t, slot),
           \A u \in Threads \ {t} : pc'[u] = pc[u] /\ call'[u] = call[u],
           pc'[t] \in Flagged => call'[t] = call[t] /\ slot.tx = call[t].tx
    PROVE  FlagsKept'
  <1>1. /\ requests'[call[t].index] = slot
        /\ \A i \in Index : i # call[t].index => requests'[i] = requests[i]
        /\ \A u \in Threads : u # t /\ pc[u] \in Owning =>
              call[u].index \in Index /\ call[u].index # call[t].index
    BY MatchOwnSlot
  <1>2. Flagged \subseteq Owning
    BY DEF Flagged, Owning, Preparing
  <1>3. \A u \in Threads : pc'[u] \in Flagged => requests'[call'[u].index].tx = call'[u].tx
    BY <1>1, <1>2 DEF FlagsKept, Slot, Flagged
  <1> QED BY <1>3 DEF FlagsKept, Slot, Flagged

(* A call that reads only. *)
LEMMA FlagsRead ==
    ASSUME FlagsKept, NEW t \in Threads, UNCHANGED requests,
           \A u \in Threads \ {t} : pc'[u] = pc[u] /\ call'[u] = call[u],
           pc'[t] \in Flagged => pc[t] \in Flagged /\ call'[t] = call[t]
    PROVE  FlagsKept'
  <1>1. \A u \in Threads : pc'[u] \in Flagged => requests'[call'[u].index].tx = call'[u].tx
    BY DEF FlagsKept, Slot, Flagged
  <1> QED BY <1>1 DEF FlagsKept, Slot, Flagged
(* The steps of a call. *)
LEMMA ListenerCalls ==
    ASSUME MatchInv, ListenerInv, NEW t \in Threads, Begin(t) \/ CallStep(t)
    PROVE  ListenerInv'
  <1>0. /\ TypeOK /\ IdsUnique /\ TrafficNamed /\ FlagsKept /\ WaitersUnheard
        /\ OwnedSlotTaken
    BY DEF MatchInv, ExclusiveInv, ListenerInv
  <1>1. CASE Begin(t)
    <2>1. /\ nextRequestId' = nextRequestId + 1 /\ nextRequestId \in Nat
          /\ pc'[t] = "grab" /\ call'[t].id = nextRequestId
          /\ \A u \in Threads \ {t} : pc'[u] = pc[u] /\ call'[u] = call[u]
          /\ UNCHANGED <<requests, loop, outbox, sent, inbound, dispatched>>
      BY <1>0, <1>1 DEF Begin, Goto, wireVars, TypeOK, NewCall
    <2>2. Traffic' = Traffic
      BY <2>1 DEF Traffic
    <2>3. \A m \in Traffic : m.id \in Nat
      BY <1>0 DEF Traffic, TypeOK, Header
    <2>4. \A u \in Threads : call[u].id \in Nat
      BY <1>0, SlotsTyped
    <2> HIDE DEF Traffic
    <2>5. \A m \in Traffic : m.id < nextRequestId' /\ m.id # call'[t].id
      BY <1>0, <2>1, <2>3 DEF IdsUnique
    <2>6. \A u \in Threads \ {t} : pc[u] # "ready" =>
              call[u].id < nextRequestId' /\ call[u].id # call'[t].id
      BY <1>0, <2>1, <2>4 DEF IdsUnique
    <2>7. call'[t].id < nextRequestId'
      BY <2>1
    <2>8. IdsUnique'
      BY <1>0, <2>1, <2>2, <2>5, <2>6, <2>7 DEF IdsUnique
    <2>9. TrafficNamed'
      BY <1>0, <2>1, <2>2, <2>5 DEF TrafficNamed, HeaderOf, Unsent
    <2>10. FlagsKept'
      BY <1>0, <2>1, FlagsRead DEF Flagged
    <2>11. WaitersUnheard'
      BY <1>0, <2>1 DEF WaitersUnheard
    <2> QED BY <2>8, <2>9, <2>10, <2>11 DEF ListenerInv
  <1>2. CASE TryGrab(t)
    <2> DEFINE index == ProbeIndex(call[t].id, call[t].probe)
    <2>1. /\ pc[t] = "grab" /\ pc'[t] \in {"storeId", "grab", "ready"}
          /\ \A u \in Threads \ {t} : pc'[u] = pc[u] /\ call'[u] = call[u]
          /\ call'[t].id = call[t].id
          /\ UNCHANGED <<nextRequestId, loop, outbox, sent, inbound, dispatched>>
          /\ \/ UNCHANGED requests
             \/ /\ IsVacant(requests[index])
                /\ requests' = [requests EXCEPT ![index] = Grabbed(requests[index])]
      BY <1>0, <1>2 DEF TryGrab, Goto, Return, wireVars, TypeOK, CallType
    <2>2. IdsUnique' /\ TrafficNamed' /\ WaitersUnheard'
      BY <1>0, <2>1, ListenerCall DEF Unsent, Preparing
    <2> HIDE DEF index
    <2>3. FlagsKept'
      <3>1. \A i \in Index : IsVacant(requests[i]) \/ requests'[i] = requests[i]
        BY <1>0, <2>1 DEF TypeOK
      <3>2. \A u \in Threads : pc'[u] \in Flagged => /\ u # t /\ pc[u] \in Flagged
                                                     /\ call'[u] = call[u]
        BY <2>1 DEF Flagged
      <3>3. \A u \in Threads : pc[u] \in Flagged => requests'[call[u].index] = requests[call[u].index]
        BY <1>0, <3>1, SlotsTyped DEF OwnedSlotTaken, Slot, Flagged, Owning, Preparing
      <3>4. \A u \in Threads : pc'[u] \in Flagged => requests'[call'[u].index].tx = call'[u].tx
        BY <1>0, <3>2, <3>3 DEF FlagsKept, Slot, Flagged
      <3> QED BY <3>4 DEF FlagsKept, Slot, Flagged
    <2> QED BY <2>2, <2>3 DEF ListenerInv
  <1>3. CASE StoreId(t) \/ StoreFlags(t) \/ StoreRequest(t)
    <2>1. /\ pc[t] \in Preparing /\ pc[t] # "ready" /\ pc'[t] \in Preparing
          /\ \A u \in Threads \ {t} : pc'[u] = pc[u]
          /\ UNCHANGED <<call, nextRequestId, loop, outbox, sent, inbound, dispatched>>
      BY <1>0, <1>3 DEF StoreId, StoreFlags, StoreRequest, Goto, wireVars, TypeOK, Preparing
    <2>2. IdsUnique' /\ TrafficNamed' /\ WaitersUnheard'
      BY <1>0, <2>1, ListenerCall DEF Unsent, Preparing
    <2>3. pc[t] \in Owning
      BY <2>1 DEF Owning
    <2>4. PICK slot \in MsgRequestType :
              WriteSlot(t, slot) /\ (pc'[t] \in Flagged => slot.tx = call[t].tx)
      <3>1. Slot(t) \in MsgRequestType /\ call[t].id \in Nat /\ call[t].tx \in BOOLEAN
        BY <1>0, SlotsTyped
      <3>2. CASE StoreId(t)
        <4>1. pc'[t] = "setFlags" /\ WriteSlot(t, IdStored(Slot(t), call[t].id))
          BY <1>0, <3>2 DEF StoreId, Goto, TypeOK
        <4>2. IdStored(Slot(t), call[t].id) \in MsgRequestType
          BY <3>1, SlotMethods
        <4> QED BY <4>1, <4>2 DEF Flagged
      <3>3. CASE StoreFlags(t)
        <4>1. WriteSlot(t, SetFlags(Slot(t), call[t].tx))
          BY <3>3 DEF StoreFlags
        <4>2. /\ SetFlags(Slot(t), call[t].tx) \in MsgRequestType
              /\ SetFlags(Slot(t), call[t].tx).tx = call[t].tx
          BY <3>1, SlotMethods, FlagsOfSlot
        <4> QED BY <4>1, <4>2
      <3>4. CASE StoreRequest(t)
        <4>1. pc[t] = "setRequest" /\ WriteSlot(t, SetRequest(Slot(t), call[t].id))
          BY <3>4 DEF StoreRequest
        <4>2. /\ SetRequest(Slot(t), call[t].id) \in MsgRequestType
              /\ SetRequest(Slot(t), call[t].id).tx = Slot(t).tx
          BY <3>1, SlotMethods, FlagsOfSlot
        <4>3. Slot(t).tx = call[t].tx
          BY <1>0, <4>1 DEF FlagsKept
        <4> QED BY <4>1, <4>2, <4>3
      <3> QED BY <1>3, <3>2, <3>3, <3>4
    <2>5. FlagsKept'
      BY <1>0, <2>1, <2>3, <2>4, FlagsOwnSlot
    <2> QED BY <2>2, <2>5 DEF ListenerInv
  <1>4. CASE Write(t)
    <2> DEFINE new == HeaderOf(t)
    <2>1. /\ pc[t] = "write" /\ outbox' = outbox \cup {new}
          /\ UNCHANGED <<requests, nextRequestId, loop, sent, inbound, dispatched>>
          /\ pc'[t] = "ready" \/ (pc'[t] = "enter" /\ call' = call)
          /\ \A u \in Threads \ {t} : pc'[u] = pc[u] /\ call'[u] = call[u]
          /\ call'[t].id = call[t].id
      BY <1>0, <1>4 DEF Write, Goto, Return, slotVars, TypeOK, CallType
    <2>2. Traffic' = Traffic \cup {new} /\ dispatched \subseteq Traffic
      BY <2>1 DEF Traffic
    <2>3. new.id = call[t].id
      BY DEF HeaderOf
    <2> HIDE DEF Traffic, new
    <2>4. pc[t] \in Unsent
      BY <2>1 DEF Unsent, Preparing
    <2>5. \A m \in Traffic : m.id # call[t].id
      BY <1>0, <2>4 DEF TrafficNamed
    <2>6. \A u \in Threads \ {t} : pc[u] # "ready" => call[u].id # new.id
      BY <1>0, <2>1, <2>3 DEF IdsUnique
    <2>7. IdsUnique'
      BY <1>0, <2>1, <2>2, <2>3 DEF IdsUnique
    <2>8. TrafficNamed'
      <3> SUFFICES ASSUME NEW m \in Traffic', NEW u \in Threads, m.id = call'[u].id
                   PROVE  /\ pc'[u] \notin Unsent
                          /\ pc'[u] \in {"enter", "wait"} => m = HeaderOf(u)'
        BY DEF TrafficNamed
      <3>1. CASE u = t
        <4>1. m = new
          BY <2>1, <2>2, <2>5, <3>1
        <4>2. pc'[u] = "enter" => HeaderOf(u)' = new
          BY <2>1, <3>1 DEF HeaderOf, new
        <4> QED BY <2>1, <3>1, <4>1, <4>2 DEF Unsent, Preparing
      <3>2. CASE u # t
        <4>1. pc'[u] = pc[u] /\ call'[u] = call[u] /\ HeaderOf(u)' = HeaderOf(u)
          BY <2>1, <3>2 DEF HeaderOf
        <4>2. CASE m \in Traffic
          BY <1>0, <4>1, <4>2 DEF TrafficNamed
        <4>3. CASE m = new
          BY <2>6, <3>2, <4>1, <4>3 DEF Unsent, Preparing
        <4> QED BY <2>2, <4>2, <4>3
      <3> QED BY <3>1, <3>2
    <2>9. FlagsKept'
      BY <1>0, <2>1, FlagsRead DEF Flagged
    <2>10. WaitersUnheard'
      BY <1>0, <2>1, <2>2, <2>5 DEF WaitersUnheard
    <2> QED BY <2>7, <2>8, <2>9, <2>10 DEF ListenerInv
  <1>5. CASE WriteFails(t) \/ EnterWait(t) \/ Wait(t)
    <2>1. /\ pc[t] \in {"write", "enter", "wait"}
          /\ pc[t] = "write" => pc'[t] = "clearRequest"
          /\ pc[t] # "write" => pc'[t] \in {"ready", "clear"} \/ (pc'[t] = "wait" /\ call' = call)
          /\ \A u \in Threads \ {t} : pc'[u] = pc[u] /\ call'[u] = call[u]
          /\ call'[t].id = call[t].id
          /\ UNCHANGED <<requests, nextRequestId, loop, outbox, sent, inbound, dispatched>>
      BY <1>0, <1>5 DEF WriteFails, EnterWait, Wait, Goto, Return, slotVars, wireVars, TypeOK, CallType
    <2>2. IdsUnique' /\ TrafficNamed' /\ WaitersUnheard'
      BY <1>0, <2>1, ListenerCall DEF Unsent, Preparing
    <2>3. FlagsKept'
      BY <1>0, <2>1, FlagsRead DEF Flagged
    <2> QED BY <2>2, <2>3 DEF ListenerInv
  <1>6. CASE ForgetRequest(t) \/ ReleaseSlot(t)
    <2>1. /\ pc[t] \in {"clearRequest", "clear"} /\ pc'[t] = "ready"
          /\ \A u \in Threads \ {t} : pc'[u] = pc[u] /\ call'[u] = call[u]
          /\ call'[t].id = call[t].id
          /\ UNCHANGED <<nextRequestId, loop, outbox, sent, inbound, dispatched>>
      BY <1>0, <1>6 DEF ForgetRequest, ReleaseSlot, Return, Goto, wireVars, TypeOK, CallType
    <2>2. IdsUnique' /\ TrafficNamed' /\ WaitersUnheard'
      BY <1>0, <2>1, ListenerCall DEF Unsent, Preparing
    <2>3. PICK slot \in MsgRequestType : WriteSlot(t, slot)
      BY <1>0, <1>6, SlotsTyped, SlotMethods DEF ForgetRequest, ReleaseSlot
    <2>4. FlagsKept'
      BY <1>0, <2>1, <2>3, FlagsOwnSlot DEF Flagged, Owning, Preparing
    <2> QED BY <2>2, <2>4 DEF ListenerInv
  <1> QED BY <1>1, <1>2, <1>3, <1>4, <1>5, <1>6 DEF CallStep
(* The steps of the I/O thread, of the connection and of the server. *)
LEMMA ListenerLoop ==
    ASSUME MatchInv, ListenerInv, LoopStep \/ Disconnect \/ Reply
    PROVE  ListenerInv'
  <1>0. /\ TypeOK /\ FlagsKept /\ WaitersUnheard /\ TrafficNamed /\ OneInFlightPerSlot
        /\ dispatched \subseteq Traffic
    BY DEF MatchInv, ExclusiveInv, ListenerInv, Traffic
  <1>1. UNCHANGED <<pc, call, nextRequestId>>
    BY DEF LoopStep, AsyncWrite, AsyncWriteFails, OnMsg, OnMsgStore, OnMsgNotify, OnClose,
           AbortNext, Disconnect,
           Reply, ServerReply, slotVars
  <1>2. ASSUME NEW msg \in outbox, AsyncWrite(msg) \/ AsyncWriteFails(msg) PROVE ListenerInv'
    <2>1. Traffic' \subseteq Traffic /\ UNCHANGED <<requests, dispatched>>
      BY <1>2 DEF AsyncWrite, AsyncWriteFails, slotVars, Traffic
    <2> QED BY <1>0, <1>1, <2>1, ListenerQuiet DEF ListenerInv
  <1>3. ASSUME NEW msg \in inbound, OnMsg(msg) PROVE ListenerInv'
    <2>1. requests[msg.index].id = msg.id
      BY <1>0 DEF OneInFlightPerSlot, InFlight
    <2>2. Traffic' \subseteq Traffic /\ UNCHANGED <<requests, dispatched>>
      BY <1>3, <2>1 DEF OnMsg, slotVars, Traffic, LoopGoto
    <2> QED BY <1>0, <1>1, <2>2, ListenerQuiet DEF ListenerInv
  <1>4. CASE OnMsgStore
    <2>1. Traffic' \subseteq Traffic /\ UNCHANGED dispatched
      BY <1>4 DEF OnMsgStore, wireVars, Traffic, LoopGoto
    <2>2. \A i \in Index : requests'[i].tx = requests[i].tx
      BY <1>0, <1>4, SlotsTyped, FlagsOfSlot DEF OnMsgStore, LoopWriteSlot, TypeOK
    <2> QED BY <1>0, <1>1, <2>1, <2>2, ListenerQuiet DEF ListenerInv
  <1>5. CASE OnMsgNotify
    <2>1. /\ loop.pc = "getFlags" /\ loop.msg \in Traffic
          /\ Traffic' \subseteq Traffic /\ UNCHANGED requests
          /\ dispatched' = IF requests[loop.msg.index].tx
                           THEN dispatched ELSE dispatched \cup {loop.msg}
      BY <1>5 DEF OnMsgNotify, slotVars, wireVars, Traffic, IdleLoop
    <2>2. IdsUnique' /\ TrafficNamed' /\ FlagsKept'
      BY <1>0, <1>1, <2>1, ListenerQuiet
    <2>3. ASSUME NEW t \in Threads, pc[t] \in {"enter", "wait"}, call[t].id = loop.msg.id,
                 loop.msg.tx
          PROVE  requests[loop.msg.index].tx
      <3>1. loop.msg = HeaderOf(t)
        BY <1>0, <2>1, <2>3 DEF TrafficNamed
      <3>2. loop.msg.index = call[t].index /\ loop.msg.tx = call[t].tx
        BY <3>1 DEF HeaderOf
      <3> QED BY <1>0, <2>3, <3>2 DEF FlagsKept, Slot
    <2>4. WaitersUnheard'
      BY <1>0, <1>1, <2>1, <2>3 DEF WaitersUnheard
    <2> QED BY <2>2, <2>4 DEF ListenerInv
  <1>6. CASE OnClose
    <2>1. Traffic' \subseteq Traffic /\ UNCHANGED <<requests, dispatched>>
      BY <1>6 DEF OnClose, slotVars, wireVars, Traffic, LoopGoto
    <2> QED BY <1>0, <1>1, <2>1, ListenerQuiet DEF ListenerInv
  <1>7. CASE AbortNext
    <2>1. Traffic' \subseteq Traffic /\ UNCHANGED dispatched
      BY <1>7 DEF AbortNext, wireVars, Traffic, LoopGoto, IdleLoop
    <2>2. \A i \in Index : requests'[i].tx = requests[i].tx
      BY <1>0, <1>7, SlotsTyped, FlagsOfSlot DEF AbortNext, LoopWriteSlot, TypeOK
    <2> QED BY <1>0, <1>1, <2>1, <2>2, ListenerQuiet DEF ListenerInv
  <1>8. CASE Disconnect
    <2>1. Traffic' \subseteq Traffic /\ UNCHANGED <<requests, dispatched>>
      BY <1>8 DEF Disconnect, slotVars, Traffic
    <2> QED BY <1>0, <1>1, <2>1, ListenerQuiet DEF ListenerInv
  <1>9. ASSUME NEW msg \in sent, ServerReply(msg) PROVE ListenerInv'
    <2>1. Traffic' \subseteq Traffic /\ UNCHANGED <<requests, dispatched>>
      BY <1>9 DEF ServerReply, slotVars, Traffic
    <2> QED BY <1>0, <1>1, <2>1, ListenerQuiet DEF ListenerInv
  <1> QED BY <1>2, <1>3, <1>4, <1>5, <1>6, <1>7, <1>8, <1>9 DEF LoopStep, Reply

LEMMA NextListener ==
    ASSUME MaxResends = 0
    PROVE  MatchInv /\ ListenerInv /\ [Next]_vars => ListenerInv'
  <1> SUFFICES ASSUME MatchInv, ListenerInv, [Next]_vars PROVE ListenerInv'
    OBVIOUS
  <1>1. ~Resend
    <2>1. resends \in Nat
      BY DEF MatchInv, ExclusiveInv, TypeOK
    <2>2. \A i \in Index : ~ResendFind(i)
      BY <2>1 DEF ResendFind
    <2>3. ~ResendFlags /\ ~ResendWrite /\ ~ResendWriteFails
      BY DEF MatchInv, NoResend, ResendFlags, ResendWrite, ResendWriteFails
    <2> QED BY <2>2, <2>3 DEF Resend
  <1>2. CASE UNCHANGED vars
    BY <1>2 DEF vars, ListenerInv, IdsUnique, TrafficNamed, FlagsKept, WaitersUnheard, Traffic,
                HeaderOf, Slot
  <1> QED BY <1>1, <1>2, ListenerCalls, ListenerLoop DEF Next

(***************************************************************************)
(* Without resends, MsgClient::onMsg passes the listener no response that  *)
(* a transaction still waits for: the flags it reads back from the slot,   *)
(* after the response is stored and without a lock, are still those of the *)
(* call that waits, because nobody else writes the slot before the call    *)
(* gives it up.                                                            *)
(***************************************************************************)
THEOREM ListenerNeverWaitedFor ==
    ASSUME MaxResends = 0
    PROVE  Spec => []ListenerLeavesTransactions
  <1>1. Init => ListenerInv
    BY DEF Init, ListenerInv, IdsUnique, TrafficNamed, FlagsKept, WaitersUnheard, Traffic, IdleLoop
  <1>2. ListenerInv => ListenerLeavesTransactions
    BY DEF ListenerInv, WaitersUnheard, ListenerLeavesTransactions
  <1> QED BY InitMatch, NextMatch, NextListener, <1>1, <1>2, PTL DEF Spec
=================================================================================
