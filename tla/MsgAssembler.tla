------------------------------ MODULE MsgAssembler ------------------------------
(***************************************************************************)
(* The assembly of messages from the buffers that a stream transport       *)
(* delivers: MsgAssembler::onBytesReceived and its three states, on top of *)
(* the list of buffers in SegmentedInputStream (msg_assembler.cpp,         *)
(* segmented_input_stream.cpp), for one connection index that is used by   *)
(* one connection after another.  A message that is complete is handed to  *)
(* a listener that reads it as a frame (MsgFrame.tla).                     *)
(*                                                                         *)
(* A stream is a sequence of numbers: the magic word, one element for all  *)
(* the other fields of a header (the number of the message on its          *)
(* connection), and the payload.  Buffers do not contain the magic word.   *)
(*                                                                         *)
(* The loop of onBytesReceived runs to its end within one callback of the  *)
(* I/O thread.  One iteration is one step here; where an iteration changes *)
(* nothing, the loop of the code spins for ever, and so the model has no   *)
(* step from there.                                                        *)
(***************************************************************************)
EXTENDS MsgFrame, FiniteSets

CONSTANTS Scripts,          \* what a peer may send: each a sequence of buffers or batches
          Junk,             \* what may come before the first message
          MaxInteger,       \* bound: numbers of messages, counts and lengths
          MaxConnections,   \* bound: connections that use the index in turn
          MaxAllocFailures  \* bound: failures of allocMsg

ASSUME AssemblerAssumption ==
    MaxInteger \in Nat /\ MaxConnections \in Nat \ {0} /\ MaxAllocFailures \in Nat

(* COMMUTIL_MSG_MAGIC, shorter, and like it without a border. *)
Magic == <<-1, -2, -3>>
HeaderLength == Len(Magic) + 1

(* A script is made of what FrameOf accepts, and not longer than the       *)
(* numbers of messages go.                                                 *)
ASSUME ScriptsAssumption ==
    \A s \in Scripts :
        /\ s \in Seq([batch : BOOLEAN, compressed : BOOLEAN, buffers : Seq(Seq(Int))])
        /\ Len(s) <= MaxInteger
        /\ \A m \in DOMAIN s : ~ s[m].batch => Len(s[m].buffers) = 1

(* A place in a sequence of numbers at which the magic word stands. *)
MagicAt(bytes, p) == SubSeq(bytes, p + 1, p + Len(Magic)) = Magic
FreeOfMagic(bytes) == \A p \in 0 .. Len(bytes) - Len(Magic) : ~ MagicAt(bytes, p)

(* Neither what comes before the first message nor the data of an          *)
(* application contains the magic word.                                    *)
ASSUME MagicAssumption ==
    /\ \A junk \in Junk : junk \in Seq(Int) /\ FreeOfMagic(junk)
    /\ \A s \in Scripts : \A m \in DOMAIN s : \A i \in DOMAIN s[m].buffers :
          FreeOfMagic(s[m].buffers[i])

VARIABLES script, sound,    \* this connection's messages; nothing was lost, or is in the way
          intact,           \* no message of this connection was lost by allocMsg
          input,            \* bytes the peer has sent and that have not arrived
          segs,             \* the list of buffers from m_head to m_tail
          offset, size,     \* m_offset, m_size
          state, header,    \* m_state, m_msgHeader
          running,          \* inside onBytesReceived
          delivered,        \* messages given to the listener, by number; 0 for one that
                            \* nobody has sent
          payloads,         \* and the payload of each
          connections, allocFailures,
          fault             \* a read past the buffers or a write past a message

streamVars == <<segs, offset, size>>
peerVars == <<script, sound, intact, connections>>
vars == <<script, sound, intact, input, segs, offset, size, state, header, running, delivered,
          payloads, connections, allocFailures, fault>>

(* The bytes of a message, and of all messages of a connection. *)
Text(msgs, m) == Magic \o <<m>> \o FrameOf(msgs[m]).payload
Wire(msgs) == FlattenSeq([m \in DOMAIN msgs |-> Text(msgs, m)])

MsgLength(m) == Len(Text(script, m))

TypeOK ==
    /\ script \in Scripts
    /\ sound \in BOOLEAN /\ intact \in BOOLEAN /\ running \in BOOLEAN
    /\ input \in Seq(Int)
    /\ segs \in Seq(Seq(Int) \ {<<>>})
    /\ offset \in Nat /\ size \in Nat
    /\ state \in {"MS_WAITING_HEADER", "MS_WAITING_BODY", "MS_RESYNC"}
    /\ header \in 0 .. Len(script)
    /\ delivered \in Seq(0 .. Len(script))
    /\ Len(payloads) = Len(delivered)
    /\ connections \in 1 .. MaxConnections
    /\ allocFailures \in 0 .. MaxAllocFailures
    /\ fault \in {"none", "bounds", "overflow"}

(* The stream object after its constructor and the reset() of onConnect. *)
Init ==
    /\ script \in Scripts
    /\ \E junk \in Junk : input = junk \o Wire(script) /\ sound = (junk = <<>>)
    /\ intact = TRUE
    /\ segs = <<>> /\ offset = 0 /\ size = 0
    /\ state = "MS_RESYNC" /\ header = 0
    /\ running = FALSE
    /\ delivered = <<>> /\ payloads = <<>>
    /\ connections = 1 /\ allocFailures = 0
    /\ fault = "none"

-------------------------------------------------------------------------------
(* SegmentedInputStream. *)

(* reset drops the buffers and the size, and keeps m_offset. *)
Reset == segs' = <<>> /\ size' = 0 /\ UNCHANGED offset

AppendBuffer(buffer) ==
    segs' = Append(segs, buffer) /\ size' = size + Len(buffer) /\ UNCHANGED offset

(* How many bytes are in the first j buffers. *)
Bytes(j) == Len(FlattenSeq(SubSeq(segs, 1, j)))

Least(a, b) == IF a < b THEN a ELSE b

(* peekBytes and copyBytes stay inside the buffers when they take n bytes. *)
InBounds(n) ==
    /\ segs # <<>>
    /\ offset <= Len(segs[1])
    /\ offset + n <= Bytes(Len(segs))

(* peekBytes. *)
Peek(n) == SubSeq(FlattenSeq(segs), offset + 1, offset + n)

(* The number of buffers that taking n bytes uses up. *)
UsedUp(n, gone) ==
    /\ Bytes(gone) <= offset + n
    /\ gone < Len(segs) => Bytes(gone + 1) > offset + n

(* Fault of copyBytes: the offset is not moved back when buffers go. *)
TakeKeepingOffset(n) ==
    \E gone \in 0 .. Len(segs) :
        /\ UsedUp(n, gone)
        /\ segs' = SubSeq(segs, gone + 1, Len(segs))
        /\ offset' = IF gone = Len(segs) THEN 0 ELSE offset + n
        /\ size' = size - n

(* copyBytes: n bytes are taken off, and buffers used up are removed. *)
Take(n) ==
    \E gone \in 0 .. Len(segs) :
        /\ UsedUp(n, gone)
        /\ segs' = SubSeq(segs, gone + 1, Len(segs))
        /\ offset' = offset + n - Bytes(gone)
        /\ size' = size - n

(* Fault of skipBytes: the length is not cut to what is there. *)
SkipUncut(n) == Take(n) /\ UNCHANGED fault

(* skipBytes, at most what m_size promises. *)
Skip(n) ==
    \E m \in {Least(size, n)} :
        IF InBounds(m) THEN Take(m) /\ UNCHANGED fault
        ELSE fault' = "bounds" /\ UNCHANGED streamVars

(* The integers in a stream (numbers of messages, counts, lengths) are     *)
(* small, so their upper bytes are 0, and a gzip header has such a byte    *)
(* too; the bytes of payloads have larger numbers.                         *)
HasNul(x) == x \in 0 .. MaxInteger \cup {GzipMark}

(* The places at which commutil_strnstr finds the magic word in a buffer.  *)
(* The search ends at the first byte that is 0.                            *)
Found(buffer) ==
    {p \in 0 .. Len(buffer) - Len(Magic) :
        /\ MagicAt(buffer, p)
        /\ \A q \in 1 .. p : ~ HasNul(buffer[q])}

(* The first place from which the end of the buffer is a prefix of the     *)
(* magic word, or the end.                                                 *)
Suffix(buffer) ==
    LET places == {p \in Len(buffer) - Len(Magic) .. Len(buffer) :
                      SubSeq(buffer, p + 1, Len(buffer)) = SubSeq(Magic, 1, Len(buffer) - p)}
    IN CHOOSE p \in places : \A q \in places : p <= q

(* The places of the first buffer at which the magic word begins and goes  *)
(* on in the next buffer (or, missed so far, ends with the first one).     *)
Border(buffer, next) ==
    {p \in Len(buffer) - Len(Magic) .. Len(buffer) - 1 :
        LET i == Len(Magic) - (Len(buffer) - p) IN
        /\ i <= Len(next)
        /\ SubSeq(buffer, p + 1, Len(buffer)) \o SubSeq(next, 1, i) = Magic}

(* The place at which the search of the border gives up because the next   *)
(* buffer is too short.                                                    *)
GivesUp(buffer, next) == Len(buffer) - Len(Magic) + Len(next) + 1

-------------------------------------------------------------------------------
(* The transport: bytes arrive, the connection ends and the index gets a   *)
(* new one.                                                                *)

Arrive(n) ==
    /\ ~ running
    /\ n \in 1 .. Len(input)
    /\ input' = SubSeq(input, n + 1, Len(input))
    /\ AppendBuffer(SubSeq(input, 1, n))
    /\ running' = TRUE
    /\ UNCHANGED <<peerVars, state, header, delivered, payloads, allocFailures, fault>>

(* onDisconnect and then onConnect: both reset the stream. *)
Reconnect ==
    /\ ~ running
    /\ connections < MaxConnections
    /\ connections' = connections + 1
    /\ script' \in Scripts
    /\ \E junk \in Junk :
          /\ input' = junk \o Wire(script')
          /\ sound' = (junk = <<>> /\ offset = 0)
    /\ intact' = TRUE
    /\ Reset
    /\ state' = "MS_RESYNC" /\ header' = 0
    /\ delivered' = <<>> /\ payloads' = <<>>
    /\ UNCHANGED <<running, allocFailures, fault>>

-------------------------------------------------------------------------------
(* The loop of onBytesReceived. *)

LoopEnds ==
    /\ running
    /\ size = 0
    /\ running' = FALSE
    /\ UNCHANGED <<peerVars, input, streamVars, state, header, delivered, payloads,
                   allocFailures, fault>>

(* MsgHeader::deserialize and isValid. *)
IsValid(bytes) == MagicAt(bytes, 0)

(* onWaitHeader, with at least a header in the stream. *)
OnWaitHeader ==
    /\ running
    /\ size > 0
    /\ state = "MS_WAITING_HEADER"
    /\ size >= HeaderLength
    /\ IF ~ InBounds(HeaderLength)
       THEN /\ fault' = "bounds"
            /\ UNCHANGED <<streamVars, state, header>>
       ELSE IF IsValid(Peek(HeaderLength))
       THEN /\ state' = "MS_WAITING_BODY"
            /\ header' = Peek(HeaderLength)[HeaderLength]
            /\ UNCHANGED <<streamVars, fault>>
       ELSE /\ Skip(HeaderLength)
            /\ state' = "MS_RESYNC"
            /\ UNCHANGED header
    /\ UNCHANGED <<peerVars, input, running, delivered, payloads, allocFailures>>

(* Fault of onWaitBody: the loop goes on with part of a message. *)
WaitForBodyGoesOn ==
    /\ running
    /\ size > 0
    /\ state = "MS_WAITING_BODY"
    /\ size < MsgLength(header)
    /\ UNCHANGED vars

(* Fault of onWaitBody: a message is complete only with a byte more. *)
WaitForOneMore ==
    /\ running
    /\ size > 0
    /\ state = "MS_WAITING_BODY"
    /\ size <= MsgLength(header)
    /\ running' = FALSE
    /\ UNCHANGED <<peerVars, input, streamVars, state, header, delivered, payloads,
                   allocFailures, fault>>

(* onWaitBody with part of a message. *)
WaitForBody ==
    /\ running
    /\ size > 0
    /\ state = "MS_WAITING_BODY"
    /\ size < MsgLength(header)
    /\ running' = FALSE
    /\ UNCHANGED <<peerVars, input, streamVars, state, header, delivered, payloads,
                   allocFailures, fault>>

(* The bytes that Msg::deserialize reads, header and payload: the length   *)
(* is that of the header in the stream, cut to m_size by readBytes. Nobody *)
(* looks at the magic word there, and without it any length may come out.  *)
Reads(bytes) ==
    IF IsValid(bytes) THEN {Least(size, MsgLength(bytes[HeaderLength]))}
    ELSE HeaderLength .. size

(* The message that those bytes are. *)
MsgRead(bytes) == IF IsValid(bytes) THEN bytes[HeaderLength] ELSE 0

(* The payload of n bytes that are read. *)
Payload(n) == SubSeq(Peek(n), HeaderLength + 1, n)

(* Fault of onWaitBody: the message is peeked and stays in the stream. *)
OnWaitBodyPeeks ==
    /\ running
    /\ state = "MS_WAITING_BODY"
    /\ size >= MsgLength(header) /\ InBounds(MsgLength(header))
    /\ delivered' = Append(delivered, header)
    /\ payloads' = Append(payloads, Payload(MsgLength(header)))
    /\ state' = "MS_WAITING_HEADER"
    /\ UNCHANGED <<peerVars, streamVars, input, header, running, allocFailures, fault>>

(* onWaitBody with as many bytes as the header that was peeked asks for.   *)
(* The message is allocated with that length, read by the length of the    *)
(* header that is in the stream, and given to the listener.                *)
OnWaitBody ==
    /\ running
    /\ size > 0
    /\ state = "MS_WAITING_BODY"
    /\ size >= MsgLength(header)
    /\ \/ /\ ~ InBounds(HeaderLength)
          /\ fault' = "bounds"
          /\ UNCHANGED <<streamVars, state, delivered, payloads>>
       \/ /\ InBounds(HeaderLength)
          /\ \E n \in Reads(Peek(HeaderLength)) :
                IF n > MsgLength(header) \/ ~ InBounds(n)
                THEN /\ fault' = IF n > MsgLength(header) THEN "overflow" ELSE "bounds"
                     /\ UNCHANGED <<streamVars, state, delivered, payloads>>
                ELSE /\ Take(n)
                     /\ delivered' = Append(delivered, MsgRead(Peek(HeaderLength)))
                     /\ payloads' = Append(payloads, Payload(n))
                     /\ state' = "MS_WAITING_HEADER"
                     /\ UNCHANGED fault
    /\ UNCHANGED <<peerVars, input, header, running, allocFailures>>

(* allocMsg fails: the message is skipped, the loop ends, and the state    *)
(* and the header stay as they are, so that the next bytes are read as the *)
(* message that was lost.                                                  *)
AllocFails ==
    /\ running
    /\ size > 0
    /\ state = "MS_WAITING_BODY"
    /\ size >= MsgLength(header)
    /\ allocFailures < MaxAllocFailures
    /\ allocFailures' = allocFailures + 1
    /\ Skip(MsgLength(header))
    /\ sound' = FALSE /\ intact' = FALSE
    /\ running' = FALSE
    /\ UNCHANGED <<script, connections, input, state, header, delivered, payloads>>

(* onResync: the first buffer is searched from its beginning, whatever     *)
(* m_offset is.                                                            *)
Searching ==
    /\ running
    /\ size >= Len(Magic)
    /\ state = "MS_RESYNC"
    /\ segs # <<>>
    /\ Len(segs[1]) >= Len(Magic)

ResyncFound ==
    /\ Searching
    /\ \E p \in Found(segs[1]) :
          /\ \A q \in Found(segs[1]) : p <= q
          /\ IF p = 0 THEN UNCHANGED <<streamVars, fault>> ELSE Skip(p)
    /\ state' = "MS_WAITING_HEADER"
    /\ UNCHANGED <<peerVars, input, header, running, delivered, payloads, allocFailures>>

(* The only buffer does not contain the magic word: all but a beginning of *)
(* it is skipped.                                                          *)
ResyncLast ==
    /\ Searching
    /\ Found(segs[1]) = {} /\ Len(segs) = 1
    /\ Skip(Suffix(segs[1]))
    /\ UNCHANGED <<peerVars, input, state, header, running, delivered, payloads, allocFailures>>

(* The magic word begins in the first buffer and ends in the second one,   *)
(* or the second one is too short to tell.                                 *)
ResyncBorder ==
    /\ Searching
    /\ Found(segs[1]) = {} /\ Len(segs) > 1
    /\ LET border == Border(segs[1], segs[2])
           stop == GivesUp(segs[1], segs[2])
       IN \/ \E p \in border :
                /\ \A q \in border : p <= q
                /\ Skip(p)
                /\ state' = "MS_WAITING_HEADER"
          \/ /\ border = {}
             /\ stop < Len(segs[1])
             /\ Skip(stop)
             /\ UNCHANGED state
    /\ UNCHANGED <<peerVars, input, header, running, delivered, payloads, allocFailures>>

(* Neither: the first buffer is removed, and m_size stays. *)
ResyncNextBuffer ==
    /\ Searching
    /\ Found(segs[1]) = {} /\ Len(segs) > 1
    /\ Border(segs[1], segs[2]) = {}
    /\ GivesUp(segs[1], segs[2]) >= Len(segs[1])
    /\ segs' = Tail(segs)
    /\ offset' = 0
    /\ UNCHANGED <<peerVars, input, size, state, header, running, delivered, payloads,
                   allocFailures, fault>>

Iteration ==
    \/ LoopEnds \/ OnWaitHeader \/ WaitForBody \/ OnWaitBody \/ AllocFails
    \/ ResyncFound \/ ResyncLast \/ ResyncBorder \/ ResyncNextBuffer

Next ==
    /\ fault = "none"
    /\ \/ \E n \in 1 .. Len(input) : Arrive(n)
       \/ Reconnect
       \/ Iteration

Spec == Init /\ [][Next]_vars

(* A callback that has begun runs on. *)
FairSpec == Spec /\ WF_vars(fault = "none" /\ Iteration)

-------------------------------------------------------------------------------
(* Properties. *)

(* The messages of this connection that have arrived in full. *)
Complete ==
    LET arrived == Len(Wire(script)) - Len(input) IN
    Cardinality({m \in DOMAIN script : Len(Wire(SubSeq(script, 1, m))) <= arrived})

(* On a sound connection, however the bytes were cut into buffers, every   *)
(* message that has arrived in full is with the listener when the callback *)
(* of onBytesReceived ends. (Behind a cut inside a header it does not end: *)
(* StuckLoopEnds.)                                                         *)
SoundIsDelivered ==
    sound /\ ~ running => Len(delivered) = Complete

(* The same for every connection: reset() makes the stream a new one. *)
ArrivedIsDelivered ==
    fault = "none" /\ ~ running => Len(delivered) = Complete

(* On a sound connection no read leaves the buffers and no payload is      *)
(* longer than the message that was allocated for it.                      *)
SoundIsInBounds == sound => fault = "none"

(* The frame with message i of delivered, as it was received. *)
Received(i) == [FrameOf(script[delivered[i]]) EXCEPT !.payload = payloads[i]]

(* As long as no message is lost by allocMsg, whatever comes before the    *)
(* first message and whatever reset() leaves behind, every message that    *)
(* reaches the listener is one that was sent and is read back as its       *)
(* sender wrote it: the frame reader hands out the buffers that the frame  *)
(* writer was given.                                                       *)
FramesAreRead ==
    intact =>
        \A i \in DOMAIN delivered :
            /\ delivered[i] \in DOMAIN script
            /\ LET app == script[delivered[i]] IN
               \A refused \in 0 .. Len(app.buffers) : ReadsBack(app, Received(i), refused)

(* A part of a header, which onWaitHeader and onResync leave in the stream *)
(* without ending the loop.                                                *)
PartOfHeader ==
    state # "MS_WAITING_BODY" /\ size \in 1 .. HeaderLength - 1

(* On a sound connection the callback of onBytesReceived ends, unless what *)
(* is left in the stream is a part of a header.                            *)
AssemblyEnds ==
    running ~> (~ running \/ fault # "none" \/ ~ sound \/ PartOfHeader)

(* The loop of onBytesReceived ends when it is stuck, as the comment of    *)
(* msg_assembler.cpp at line 84 says.                                      *)
StuckLoopEnds == running ~> (~ running \/ fault # "none")

(* The assembler implements the message channel: messages reach the        *)
(* listener in order and at most once, none is left out while the          *)
(* connection is sound, and one that nobody sent comes only after          *)
(* allocMsg has failed.                                                    *)
Channel == INSTANCE MsgChannel WITH MsgCount <- Max({Len(s) : s \in Scripts})
ImplementsChannel == Channel!Spec

===============================================================================
