---------------------------- MODULE MCUdpServer ----------------------------
(* Three clients that collide in the last entry of the table, so that the  *)
(* probe sequences wrap and an expired client leaves a hole before others. *)
EXTENDS UdpServer, TLC

MCHash == [c \in Keys |-> 7]
=============================================================================
