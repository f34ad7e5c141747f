----------------------------- MODULE MCMsgClient -----------------------------
(* MsgClient for TLC. *)
EXTENDS MsgClient, TLC

(* The threads run the same code and are interchangeable. *)
ThreadSymmetry == Permutations(Threads)

==============================================================================
