--------------------------- MODULE MCStreamClient ---------------------------
(* Two threads in waitReady and two in waitConnect, or those a violated    *)
(* property is about.                                                      *)
EXTENDS StreamClient
=============================================================================
