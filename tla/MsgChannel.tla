------------------------------- MODULE MsgChannel -------------------------------
(***************************************************************************)
(* What message assembly promises to the layer above, apart from bytes and *)
(* segments: on each connection the messages that the peer has sent arrive *)
(* in order and at most once, and while the connection is sound none is    *)
(* left out.  Once a message was lost for want of memory, something that   *)
(* nobody has sent may come between them.  Messages are numbered by their  *)
(* place on the connection.                                                *)
(***************************************************************************)
EXTENDS Integers, Sequences

CONSTANT MsgCount     \* the most messages on a connection

VARIABLES delivered,    \* the messages handed to the listener, 0 for none of the peer's
          sound,        \* nothing on the connection was lost, or came before the first
          intact        \* no message was lost for want of memory

vars == <<delivered, sound, intact>>

Init == delivered = <<>> /\ sound \in BOOLEAN /\ intact = TRUE

Deliver ==
    \E m \in 1 .. MsgCount :
        /\ \A i \in DOMAIN delivered : delivered[i] < m
        /\ sound => m = Len(delivered) + 1
        /\ delivered' = Append(delivered, m)
        /\ UNCHANGED <<sound, intact>>

Garble ==
    /\ ~ intact
    /\ delivered' = Append(delivered, 0)
    /\ UNCHANGED <<sound, intact>>

Lose ==
    /\ sound' = FALSE /\ intact' = FALSE
    /\ UNCHANGED delivered

Connect ==
    /\ delivered' = <<>>
    /\ sound' \in BOOLEAN /\ intact' = TRUE

Next == Deliver \/ Garble \/ Lose \/ Connect

Spec == Init /\ [][Next]_vars

===============================================================================
