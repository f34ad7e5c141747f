----------------------------- MODULE MCMsgAssembler -----------------------------
(* Instances of MsgAssembler. *)
EXTENDS MsgAssembler

Single(buffer, compressed) == [batch |-> FALSE, compressed |-> compressed, buffers |-> <<buffer>>]
Batch(buffers, compressed) == [batch |-> TRUE, compressed |-> compressed, buffers |-> buffers]

(* A message without payload and two batches, with an empty buffer in the  *)
(* middle and at the end; a compressed batch in front of a longer message. *)
MCScripts ==
    {<<Single(<<>>, FALSE), Batch(<<<<5>>, <<>>, <<6>>>>, FALSE), Single(<<7>>, TRUE)>>,
     <<Batch(<<<<5>>, <<>>>>, TRUE), Single(<<-1, -2, 7, 8, 9>>, FALSE)>>}

(* Nothing, the beginning of a magic word, or a byte 0. *)
MCJunk == {<<>>, <<4, -1, -2>>, <<0>>}
MCNoJunk == {<<>>}

===============================================================================
