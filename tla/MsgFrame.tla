-------------------------------- MODULE MsgFrame --------------------------------
(***************************************************************************)
(* Message frames as values: what MsgFrameWriter puts into a message, and  *)
(* what MsgFrameReader makes of it (msg_frame_writer.cpp,                  *)
(* msg_batch_writer.cpp, msg_frame_reader.cpp, msg_batch_reader.h,         *)
(* fixed_input_stream.cpp).                                                *)
(*                                                                         *)
(* Payloads are sequences of numbers.  A 4-byte integer is one element, so *)
(* a sequence stands for the bytes with the integers kept whole.           *)
(***************************************************************************)
EXTENDS Integers, SequencesExt

(* gzip: the inflated payload comes back, and the length is another one. *)
GzipMark == 1000
Compress(payload) == <<GzipMark>> \o payload
Decompress(payload) == Tail(payload)

(* A frame: the fields of the header that the reader looks at, and the     *)
(* payload.                                                                *)
Frame(batch, compressed, batchSize, plain) ==
    [batch |-> batch, compressed |-> compressed, batchSize |-> batchSize,
     uncompressedLength |-> IF compressed THEN Len(plain) ELSE 0,
     payload |-> IF compressed THEN Compress(plain) ELSE plain]

(* prepareMsgFrame for one buffer. *)
SingleFrame(buffer, compressed) == Frame(FALSE, compressed, 1, buffer)

(* writeBatch: the number of buffers, then each with its length in front. *)
WriteBatch(buffers) ==
    <<Len(buffers)>> \o FlattenSeq([i \in DOMAIN buffers |-> <<Len(buffers[i])>> \o buffers[i]])

(* prepareMsgFrame with a MsgBufferArrayWriter and the flags that          *)
(* MsgSender::sendMsgBatch and transactMsgBatch pass: the batch flag comes *)
(* from them, the writer itself does not set it.                           *)
BatchFrame(buffers, compressed) ==
    Frame(TRUE, compressed, Len(buffers), WriteBatch(buffers))

(* What an application sends: a buffer, or a batch of buffers. *)
FrameOf(app) == IF app.batch THEN BatchFrame(app.buffers, app.compressed)
                ELSE SingleFrame(app.buffers[1], app.compressed)

-------------------------------------------------------------------------------

(* One call of handleMsg. *)
Call(buffer, last, batchSize) == [buffer |-> buffer, last |-> last, batchSize |-> batchSize]

(* Fault of MsgBatchReader::readMsg: the length is not skipped. *)
ReadMsgAtLength(payload, offset) ==
    IF offset >= Len(payload) - 1 THEN [rc |-> "E_END_OF_STREAM"]
    ELSE [rc |-> "E_OK", buffer |-> SubSeq(payload, offset + 1, offset + payload[offset + 1]),
          offset |-> offset + 1 + payload[offset + 1]]

(* FixedInputStream: reading or skipping at the end of the stream is an    *)
(* error, even skipping 0 bytes.                                           *)
Ended(payload, offset) == offset >= Len(payload)

(* MsgBatchReader::readMsg at an offset of the payload: the length, then   *)
(* the bytes.                                                              *)
ReadMsg(payload, offset) ==
    IF Ended(payload, offset) \/ Ended(payload, offset + 1) THEN [rc |-> "E_END_OF_STREAM"]
    ELSE [rc |-> "E_OK",
          buffer |-> SubSeq(payload, offset + 2, offset + 1 + payload[offset + 1]),
          offset |-> offset + 1 + payload[offset + 1]]

(* One iteration of the loop of readMsgFrame over a batch; the listener    *)
(* refuses the record number refused, 0 for none.                          *)
ReadNext(payload, refused, before, i) ==
    LET read == ReadMsg(payload, before.offset) IN
    IF before.rc # "E_OK" THEN before
    ELSE IF read.rc # "E_OK" THEN [before EXCEPT !.rc = read.rc]
    ELSE [rc |-> IF i = refused THEN "E_REFUSED" ELSE "E_OK",
          calls |-> Append(before.calls, Call(read.buffer, i = payload[1], payload[1])),
          offset |-> read.offset]

(* The loop, after the number of records was read. *)
ReadBatch(payload, refused) ==
    LET loop[i \in 0 .. payload[1]] ==
            IF i = 0 THEN [rc |-> "E_OK", calls |-> <<>>, offset |-> 1]
            ELSE ReadNext(payload, refused, loop[i - 1], i)
    IN [rc |-> loop[payload[1]].rc, calls |-> loop[payload[1]].calls]

(* readMsgFrame: the calls of handleMsg, and the result. *)
ReadMsgFrame(frame, refused) ==
    LET plain == IF frame.compressed THEN Decompress(frame.payload) ELSE frame.payload IN
    IF frame.compressed /\ Len(plain) # frame.uncompressedLength
    THEN [rc |-> "E_DATA_CORRUPT", calls |-> <<>>]
    ELSE IF ~ frame.batch
    THEN [rc |-> IF refused = 1 THEN "E_REFUSED" ELSE "E_OK",
          calls |-> <<Call(plain, TRUE, 1)>>]
    ELSE IF plain = <<>>
    THEN [rc |-> "E_END_OF_STREAM", calls |-> <<>>]
    ELSE IF plain[1] # frame.batchSize
    THEN [rc |-> "E_DATA_CORRUPT", calls |-> <<>>]
    ELSE ReadBatch(plain, refused)

-------------------------------------------------------------------------------
(* What a writer expects of the reader. *)

(* The calls of handleMsg for the buffers as their sender would make them. *)
Written(buffers) ==
    LET n == Len(buffers) IN [i \in 1 .. n |-> Call(buffers[i], i = n, n)]

(* An empty buffer at the end of a batch is taken for the end of the       *)
(* stream.                                                                 *)
EndsEmpty(buffers) == Len(buffers) > 0 /\ buffers[Len(buffers)] = <<>>

(* A frame is read back as the application gave it: its buffers in order,  *)
(* the last one marked, all of them unless the listener refuses one, which *)
(* is then the last it gets; only an empty buffer at the end of a batch is *)
(* left out.                                                               *)
ReadsBack(app, frame, refused) ==
    LET ends == app.batch /\ EndsEmpty(app.buffers)
        given == IF ends THEN Len(app.buffers) - 1 ELSE Len(app.buffers)
        read == ReadMsgFrame(frame, refused)
    IN IF refused \in 1 .. given
       THEN read.rc = "E_REFUSED" /\ read.calls = SubSeq(Written(app.buffers), 1, refused)
       ELSE /\ read.rc = IF ends THEN "E_END_OF_STREAM" ELSE "E_OK"
            /\ read.calls = SubSeq(Written(app.buffers), 1, given)

===============================================================================
