------------------------------ MODULE MCMsgServer ------------------------------
(***************************************************************************)
(* Instances of MsgServer for TLC.  Slots, tasks, queues and clients are   *)
(* numbers that the code computes with, so no symmetry applies.            *)
(***************************************************************************)
EXTENDS MsgServer

===============================================================================
