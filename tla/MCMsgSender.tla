------------------------------ MODULE MCMsgSender ------------------------------
(* Instances of MsgSender: one application thread, a pool of one or two     *)
(* slots, messages of different sizes.                                      *)
EXTENDS MsgSender

(* Every second message is the shorter one. *)
LargeAndSmall == [id \in 0 .. MaxRequestId - 1 |-> IF id % 2 = 0 THEN 3 ELSE 1]

===============================================================================
