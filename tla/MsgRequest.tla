------------------------------ MODULE MsgRequest ------------------------------
(***************************************************************************)
(* One slot of the request pool: the class MsgRequest (msg_request.h,      *)
(* msg_request.cpp) as a record, and each of its methods as an operator    *)
(* from a slot to a slot.  A method takes the slot's mutex for its whole   *)
(* body, or is a single atomic access, so an operator is one atomic step;  *)
(* the one exception, tryGrab, is split at the point where the class       *)
(* leaves its fields half written (see Grabbed and IdStored).              *)
(*                                                                         *)
(* A message is known by its request id, which is unique per message: the  *)
(* fields request and response hold the id in the header of the message    *)
(* they point to.  The two time stamps of the class are read only by the   *)
(* resend logic and are left to the modules that model it.                 *)
(***************************************************************************)
EXTENDS Integers

(* COMMUTIL_INVALID_REQUEST_ID, also the value of a null message pointer. *)
NoId == -1

(* enum MsgRequestStatus *)
RequestStatus == {"RS_IDLE", "RS_PENDING", "RS_ARRIVED", "RS_ABORTED"}

(* The fields of the class; tx is the bit COMMUTIL_REQUEST_FLAG_TX of m_flags. *)
MsgRequestType == [status   : RequestStatus,
                   id       : Nat,
                   tx       : BOOLEAN,
                   request  : Nat \cup {NoId},
                   response : Nat \cup {NoId}]

(* The constructor of the class: every slot starts with the request id 0,  *)
(* which is also the first id the pool hands out.                          *)
NewMsgRequest == [status   |-> "RS_IDLE",
                  id       |-> 0,
                  tx       |-> FALSE,
                  request  |-> NoId,
                  response |-> NoId]

(* isVacant(), also the value that the compare-and-swap of tryGrab expects. *)
IsVacant(slot) == slot.status = "RS_IDLE"

(* The two halves of tryGrab(): the compare-and-swap that takes the slot,  *)
(* then the plain store of the new owner's id.  In between, the slot is    *)
(* pending under the id of its previous owner.                             *)
Grabbed(slot) == [slot EXCEPT !.status = "RS_PENDING"]

IdStored(slot, id) == [slot EXCEPT !.id = id]

SetFlags(slot, tx) == [slot EXCEPT !.tx = tx]

SetRequest(slot, request) == [slot EXCEPT !.request = request]

(* clearRequest() forgets the message and leaves the status alone. *)
ClearRequest(slot) == [slot EXCEPT !.request = NoId]

(* setResponse() marks the slot as arrived whatever its status was. *)
SetResponse(slot, response) ==
    [slot EXCEPT !.response = response, !.status = "RS_ARRIVED"]

(* abortResponse() acts on a pending slot only. *)
AbortResponse(slot) ==
    IF slot.status = "RS_PENDING"
    THEN [slot EXCEPT !.response = NoId, !.status = "RS_ABORTED"]
    ELSE slot

(* clearResponse() makes the slot vacant; its id and its flags stay. *)
ClearResponse(slot) ==
    [slot EXCEPT !.request = NoId, !.response = NoId, !.status = "RS_IDLE"]

(* The predicate of the condition variable in waitResponse(). *)
ResponseReady(slot) == slot.status \in {"RS_ARRIVED", "RS_ABORTED"}

(* The switch at the end of waitResponse(). *)
WaitResult(slot) ==
    CASE slot.status = "RS_IDLE"    -> "E_INVALID_STATE"
      [] slot.status = "RS_PENDING" -> "E_TIMED_OUT"
      [] slot.status = "RS_ABORTED" -> "E_IO_CANCELED"
      [] slot.status = "RS_ARRIVED" -> "E_OK"

===============================================================================
