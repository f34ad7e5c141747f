---------------------------- MODULE StreamClient ----------------------------
(***************************************************************************)
(* The connection of a stream client: DataClient, DataStreamClient and     *)
(* TcpClient (src/transport), with the connect notification that MsgClient *)
(* keeps on top (ConnectData).  start() runs the loop on an I/O thread,    *)
(* which connects, retries on a periodic timer until it is connected,      *)
(* writes, reads, and closes the socket on an error; stop() runs           *)
(* stopTransport on the loop, joins the thread and closes what is open.    *)
(* Application threads wait in waitReady and waitConnect.  One life of the *)
(* client object, from start() to stop().                                  *)
(*                                                                         *)
(* libuv is external.  Of its rules the model keeps the ones this code     *)
(* depends on: a second connect while one is pending or the socket is      *)
(* closing fails at once; closing a socket cancels its pending connect and *)
(* its pending writes, with a callback each; and uv_close must not be      *)
(* called on a handle that is closing (walk_and_close asks first), which   *)
(* ends the process and is recorded in aborted.                            *)
(***************************************************************************)
EXTENDS Naturals, FiniteSets

CONSTANTS ReadyWaiters,    \* threads that call waitReady
          ConnectWaiters,  \* threads that call waitConnect
          Period,          \* m_reconnectTimeoutMillis
          MaxFailures,     \* bound: connects the server does not accept
          MaxWrites        \* bound: messages written

ASSUME PeriodAssumption == Period \in Nat \ {0}
ASSUME BoundsAssumption == MaxFailures \in Nat /\ MaxWrites \in Nat
ASSUME WaitersAssumption == ReadyWaiters \cap ConnectWaiters = {}

VARIABLES
    io,           \* the I/O thread: none, starting, looping, ended
    stop,         \* stop(): none, called, closing, stopped
    sock,         \* fresh, connecting, open, closing, closed
    pending,      \* a connect request has no callback yet
    announce,     \* the close of the socket has onCloseStatic as callback
    timer,        \* time since the reconnect timer was started or fired
    isConnected,  \* m_isConnected
    isReady, connectStatus,       \* DataClient: m_isReady, m_connectStatus
    arrived, arrivedStatus,       \* ConnectData: m_connectArrived, m_connectStatus
    queued, writing,              \* messages on their way to uv_write, in uv_write
    waiter,       \* for each waiting thread: idle, blocked, woken, returned
    aborted,      \* uv_close was called on a closing handle
    spoiled,      \* what has cost the client its socket before it connected
    failures, writes, disconnects

sockVars == <<sock, pending, announce>>
readyVars == <<isReady, connectStatus>>
arriveVars == <<arrived, arrivedStatus>>
boundVars == <<failures, writes>>
vars == <<io, stop, sockVars, timer, isConnected, readyVars, arriveVars, queued,
          writing, waiter, aborted, spoiled, boundVars, disconnects>>

Waiters == ReadyWaiters \cup ConnectWaiters

Init ==
    /\ io = "none" /\ stop = "none"
    /\ sock = "fresh" /\ pending = FALSE /\ announce = FALSE
    /\ timer = 0
    /\ isConnected = FALSE
    /\ isReady = FALSE /\ connectStatus = "ok"
    /\ arrived = FALSE /\ arrivedStatus = "ok"
    /\ queued = 0 /\ writing = 0
    /\ waiter = [w \in Waiters |-> "idle"]
    /\ aborted = FALSE
    /\ spoiled = {}
    /\ failures = 0 /\ writes = 0 /\ disconnects = 0

Looping == io = "looping" /\ ~aborted

Closing == sock \in {"closing", "closed"}

\* uv_close with a callback that announces the end, or without one.
Close(callback) ==
    IF Closing
    THEN aborted' = TRUE /\ UNCHANGED <<sock, announce>>
    ELSE sock' = "closing" /\ announce' = callback /\ UNCHANGED aborted

\* The sets of threads that notify_one on the condition variable of W may wake.
OneOf(W) ==
    LET blocked == {w \in W : waiter[w] = "blocked"}
    IN  IF blocked = {} THEN {{}} ELSE {{w} : w \in blocked}

Wake(W) == waiter' = [w \in Waiters |-> IF w \in W THEN "woken" ELSE waiter[w]]

-----------------------------------------------------------------------------
(* DataClient::start and the beginning of ioTask. *)

Start ==
    /\ io = "none"
    /\ io' = "starting"
    /\ UNCHANGED <<stop, sockVars, timer, isConnected, readyVars, arriveVars, queued,
                   writing, waiter, aborted, spoiled, boundVars, disconnects>>

\* startTransport: the timer runs and the first connect is under way.
StartTransport ==
    /\ io = "starting"
    /\ io' = "looping"
    /\ sock' = "connecting" /\ pending' = TRUE
    /\ timer' = 0
    /\ UNCHANGED <<stop, announce, isConnected, readyVars, arriveVars, queued, writing,
                   waiter, aborted, spoiled, boundVars, disconnects>>

\* ioTask returns: the address is not valid or the connect is refused at once,
\* which closes the socket, or the timer or the request is not to be had.
StartTransportFails ==
    /\ io = "starting"
    /\ io' = "ended"
    /\ Close(FALSE) \/ UNCHANGED <<sock, announce, aborted>>
    /\ UNCHANGED <<stop, pending, timer, isConnected, readyVars, arriveVars, queued,
                   writing, waiter, spoiled, boundVars, disconnects>>

-----------------------------------------------------------------------------
(* onConnect: the result, good or bad, goes to setReady and, through       *)
(* MsgClient::onConnect, to notifyConnect; each signals one waiter.        *)

\* For mutation: setReady does not signal.
SignalConnectOnly == \E C \in OneOf(ConnectWaiters) : Wake(C)

\* For mutation: notifyConnect does not signal.
SignalReadyOnly == \E R \in OneOf(ReadyWaiters) : Wake(R)

Signal == \E R \in OneOf(ReadyWaiters), C \in OneOf(ConnectWaiters) : Wake(R \cup C)

Connected(status) ==
    /\ pending
    /\ pending' = FALSE
    /\ isReady' = TRUE /\ connectStatus' = status
    /\ arrived' = TRUE /\ arrivedStatus' = status
    /\ Signal
    /\ UNCHANGED <<io, stop, announce, timer, queued, writing, aborted, writes,
                   disconnects>>

ConnectOk ==
    /\ Looping /\ sock = "connecting"
    /\ Connected("ok")
    /\ sock' = "open"
    /\ isConnected' = TRUE
    /\ UNCHANGED <<spoiled, failures>>

ConnectFails ==
    /\ Looping /\ sock = "connecting"
    /\ failures < MaxFailures
    /\ Connected("error")
    /\ sock' = "fresh"
    /\ failures' = failures + 1
    /\ UNCHANGED <<isConnected, spoiled>>

\* The connection is there and uv_read_start fails: it is left as it is.
ReadStartFails ==
    /\ Looping /\ sock = "connecting"
    /\ failures < MaxFailures
    /\ Connected("error")
    /\ sock' = "open"
    /\ failures' = failures + 1
    /\ spoiled' = spoiled \cup {"unread"}
    /\ UNCHANGED isConnected

\* Callbacks run on the loop, and once more inside stop().
CallbacksRun == Looping \/ stop = "closing"

ConnectCanceled ==
    /\ CallbacksRun /\ Closing
    /\ Connected("error")
    /\ UNCHANGED <<sock, isConnected, spoiled, failures>>

-----------------------------------------------------------------------------
(* The reconnect timer.  It has the period that onTimer compares with the  *)
(* time since the last connect, so a call of onTimer finds it passed.      *)

Tick ==
    /\ Looping
    /\ timer < Period
    /\ timer' = timer + 1
    /\ UNCHANGED <<io, stop, sockVars, isConnected, readyVars, arriveVars, queued,
                   writing, waiter, aborted, spoiled, boundVars, disconnects>>

\* For mutation: the flag that setReady sets after a failure too.
RetryUntilReady == ~isReady

Retry == ~isConnected

\* startStreamTransport on a fresh socket.  uv_tcp_connect may fail at once (no
\* route, no port left), which closes the socket with no callback; a request
\* that cannot be allocated leaves it.
Reconnect ==
    \/ /\ sock' = "connecting" /\ pending' = TRUE
       /\ UNCHANGED <<announce, aborted, spoiled, failures>>
    \/ /\ failures < MaxFailures
       /\ failures' = failures + 1
       /\ Close(FALSE)
       /\ spoiled' = spoiled \cup {"connect"}
       /\ UNCHANGED pending
    \/ /\ failures < MaxFailures
       /\ failures' = failures + 1
       /\ UNCHANGED <<sockVars, aborted, spoiled>>

\* startStreamTransport on a socket that is connecting, open or closing:
\* uv_tcp_connect fails and the socket is closed, with no callback.
ReconnectBusy ==
    /\ Close(FALSE)
    /\ spoiled' = IF pending THEN spoiled \cup {"slow"} ELSE spoiled
    /\ UNCHANGED <<pending, failures>>

OnTimer ==
    /\ Looping
    /\ timer >= Period
    /\ timer' = 0
    /\ \/ ~Retry /\ UNCHANGED <<sockVars, aborted, spoiled, failures>>
       \/ Retry /\ sock = "fresh" /\ Reconnect
       \/ Retry /\ sock # "fresh" /\ ReconnectBusy
    /\ UNCHANGED <<io, stop, isConnected, readyVars, arriveVars, queued, writing,
                   waiter, writes, disconnects>>

-----------------------------------------------------------------------------
(* Reading and writing. *)

Write ==
    /\ io = "looping"
    /\ stop = "none"
    /\ writes < MaxWrites
    /\ writes' = writes + 1
    /\ queued' = queued + 1
    /\ UNCHANGED <<io, stop, sockVars, timer, isConnected, readyVars, arriveVars,
                   writing, waiter, aborted, spoiled, failures, disconnects>>

\* For mutation: both classes' onAsyncWriteStatic submit the buffer.
AsyncWriteTwice ==
    /\ Looping
    /\ queued > 0
    /\ queued' = queued - 1
    /\ ~Closing
    /\ writing' = writing + 2
    /\ UNCHANGED <<io, stop, sockVars, timer, isConnected, readyVars, arriveVars,
                   waiter, aborted, spoiled, boundVars, disconnects>>

\* writeTransport: uv_write takes the buffer, or the request is not to be had or
\* refused, which is logged and forgotten.
AsyncWrite ==
    /\ Looping
    /\ queued > 0
    /\ queued' = queued - 1
    /\ \/ ~Closing /\ writing' = writing + 1
       \/ UNCHANGED writing
    /\ UNCHANGED <<io, stop, sockVars, timer, isConnected, readyVars, arriveVars,
                   waiter, aborted, spoiled, boundVars, disconnects>>

OnWrite ==
    /\ Looping /\ sock = "open"
    /\ writing > 0
    /\ writing' = writing - 1
    /\ UNCHANGED <<io, stop, sockVars, timer, isConnected, readyVars, arriveVars,
                   queued, waiter, aborted, spoiled, boundVars, disconnects>>

\* A write that failed or was cancelled closes the socket, whoever else did.
OnWriteFails ==
    /\ CallbacksRun
    /\ sock # "connecting"
    /\ writing > 0
    /\ writing' = writing - 1
    /\ Close(TRUE)
    /\ spoiled' = spoiled \cup {"write"}
    /\ UNCHANGED <<io, stop, pending, timer, isConnected, readyVars, arriveVars, queued,
                   waiter, boundVars, disconnects>>

\* For mutation: the socket is closed without a callback.
OnReadErrorSilent ==
    /\ Looping /\ sock = "open" /\ isConnected
    /\ Close(FALSE)
    /\ UNCHANGED <<io, stop, pending, timer, isConnected, readyVars, arriveVars, queued,
                   writing, waiter, spoiled, boundVars, disconnects>>

OnReadError ==
    /\ Looping /\ sock = "open" /\ isConnected
    /\ Close(TRUE)
    /\ UNCHANGED <<io, stop, pending, timer, isConnected, readyVars, arriveVars, queued,
                   writing, waiter, spoiled, boundVars, disconnects>>

\* The last callback of the socket: onClose and MsgClient::onDisconnect, which
\* resets the connect data.  isReady and isConnected stay as they are.
OnClose ==
    /\ CallbacksRun
    /\ sock = "closing" /\ ~pending /\ writing = 0
    /\ sock' = "closed"
    /\ IF announce
       THEN /\ arrived' = FALSE /\ arrivedStatus' = "ok"
            /\ disconnects' = disconnects + 1
       ELSE UNCHANGED <<arriveVars, disconnects>>
    /\ UNCHANGED <<io, stop, pending, announce, timer, isConnected, readyVars, queued,
                   writing, waiter, aborted, spoiled, boundVars>>

-----------------------------------------------------------------------------
(* stop(): stopTransportLoop. *)

Stop ==
    /\ io # "none" /\ stop = "none"
    /\ stop' = "called"
    /\ UNCHANGED <<io, sockVars, timer, isConnected, readyVars, arriveVars, queued,
                   writing, waiter, aborted, spoiled, boundVars, disconnects>>

\* async_stop on the loop: stopTransport, then uv_stop.  stopTransport stops the
\* timer, asks for a shutdown once what is written is out, which nothing waits
\* for, and forgets the stream handle: no write is taken after it, and what is
\* in uv_write is cancelled by the close that follows the join.
AsyncStop ==
    /\ Looping
    /\ stop = "called"
    /\ io' = "ended"
    /\ UNCHANGED <<stop, sockVars, timer, isConnected, readyVars, arriveVars, queued,
                   writing, waiter, aborted, spoiled, boundVars, disconnects>>

\* For mutation: uv_is_closing is not asked.
WalkAndCloseAll ==
    /\ stop = "called" /\ io = "ended"
    /\ stop' = "closing"
    /\ Close(FALSE)
    /\ UNCHANGED <<io, pending, timer, isConnected, readyVars, arriveVars, queued,
                   writing, waiter, spoiled, boundVars, disconnects>>

\* The thread is joined, and what is not closing yet is closed.
WalkAndClose ==
    /\ stop = "called" /\ io = "ended"
    /\ stop' = "closing"
    /\ IF Closing THEN UNCHANGED <<sock, announce, aborted>> ELSE Close(FALSE)
    /\ UNCHANGED <<io, pending, timer, isConnected, readyVars, arriveVars, queued,
                   writing, waiter, spoiled, boundVars, disconnects>>

\* The last uv_run has served the callbacks.
StopDone ==
    /\ stop = "closing" /\ sock = "closed"
    /\ stop' = "stopped"
    /\ UNCHANGED <<io, sockVars, timer, isConnected, readyVars, arriveVars, queued,
                   writing, waiter, aborted, spoiled, boundVars, disconnects>>

-----------------------------------------------------------------------------
(* waitReady and waitConnect: the predicate is evaluated under the lock    *)
(* when the call begins and whenever the thread is woken.                  *)

Holds(w) == IF w \in ReadyWaiters THEN isReady ELSE arrived

Wait(w) ==
    /\ waiter[w] \in {"idle", "woken"}
    /\ waiter' = [waiter EXCEPT ![w] = IF Holds(w) THEN "returned" ELSE "blocked"]
    /\ UNCHANGED <<io, stop, sockVars, timer, isConnected, readyVars, arriveVars,
                   queued, writing, aborted, spoiled, boundVars, disconnects>>

LoopStep ==
    \/ ConnectOk \/ ConnectFails \/ ReadStartFails \/ ConnectCanceled
    \/ AsyncWrite \/ OnWrite \/ OnWriteFails \/ OnClose

StopStep == AsyncStop \/ WalkAndClose \/ StopDone

Next ==
    /\ ~aborted
    /\ \/ Start \/ StartTransport \/ StartTransportFails
       \/ LoopStep \/ OnReadError
       \/ Tick \/ OnTimer
       \/ Write
       \/ Stop \/ StopStep
       \/ \E w \in Waiters : Wait(w)

Spec == Init /\ [][Next]_vars

\* The threads run, time passes, a due timer and what is pending on the loop
\* are served.  Nobody has to write, stop or lose the connection.
FairSpec ==
    /\ Spec
    /\ WF_vars(~aborted /\ (StartTransport \/ StartTransportFails))
    /\ WF_vars(~aborted /\ LoopStep)
    /\ WF_vars(~aborted /\ Tick) /\ WF_vars(~aborted /\ OnTimer)
    /\ WF_vars(~aborted /\ StopStep)
    /\ \A w \in Waiters : WF_vars(~aborted /\ waiter[w] = "woken" /\ Wait(w))

-----------------------------------------------------------------------------
TypeOK ==
    /\ io \in {"none", "starting", "looping", "ended"}
    /\ stop \in {"none", "called", "closing", "stopped"}
    /\ sock \in {"fresh", "connecting", "open", "closing", "closed"}
    /\ pending \in BOOLEAN /\ announce \in BOOLEAN /\ aborted \in BOOLEAN
    /\ isConnected \in BOOLEAN /\ isReady \in BOOLEAN /\ arrived \in BOOLEAN
    /\ timer \in 0..Period
    /\ connectStatus \in {"ok", "error"} /\ arrivedStatus \in {"ok", "error"}
    /\ queued \in 0..MaxWrites /\ writing \in 0..MaxWrites
    /\ waiter \in [Waiters -> {"idle", "blocked", "woken", "returned"}]
    /\ spoiled \subseteq {"unread", "slow", "write", "connect"}
    /\ failures \in 0..MaxFailures /\ writes \in 0..MaxWrites
    /\ disconnects \in 0..1

(* The socket is closed once.  uv_close is called on a closing handle only *)
(* where a write failed, a connect outlasted the reconnect timeout, a      *)
(* retry failed at once or uv_read_start failed: a loss seen by the        *)
(* reader, a stop and both in any order close it once.                     *)
ClosedOnce == aborted => spoiled # {}

(* The client keeps trying until it is connected, however often the server *)
(* refuses, unless it is stopped or has closed its own socket.             *)
ConnectsInTheEnd ==
    (io = "looping") ~> (isConnected \/ io # "looping" \/ spoiled # {})

(* "check if connected, if not then check if reconnect time has arrived",  *)
(* "issue reconnect" (onTimer): a client that runs and is not connected    *)
(* tries again, so that a server that accepts has it in the end.  False: a *)
(* retry that meets a connect still pending closes the socket, and the     *)
(* next one closes the closing socket.                                     *)
RetriesUntilConnected ==
    (io = "looping") ~> (isConnected \/ io # "looping")

(* Once the first connect has ended, well or badly, the threads in         *)
(* waitReady are not all left there; only a client that never started or   *)
(* was stopped leaves them.                                                *)
WaitReadyReturns ==
    (io = "looping" /\ \E w \in ReadyWaiters : waiter[w] = "blocked") ~>
        \/ \E w \in ReadyWaiters : waiter[w] = "returned"
        \/ io = "ended" \/ aborted

(* Nor are those in waitConnect, unless the connection is lost before the  *)
(* thread that was woken has looked at the result.                         *)
WaitConnectReturns ==
    (io = "looping" /\ \E w \in ConnectWaiters : waiter[w] = "blocked") ~>
        \/ \E w \in ConnectWaiters : waiter[w] = "returned"
        \/ disconnects > 0 \/ io = "ended" \/ aborted

(* "Waits for the data client to become ready for IO" (waitReady): every   *)
(* thread that waits comes back once the client is ready.  False with two: *)
(* setReady wakes one.                                                     *)
EveryReadyWaiterReturns ==
    \A w \in ReadyWaiters :
        (waiter[w] = "blocked" /\ isReady) ~>
            (waiter[w] = "returned" \/ io = "ended" \/ aborted)

(* "Waits fot the TCP connection to connect" (waitConnect): a thread that  *)
(* was waiting when the connection came, and was woken for it, returns.    *)
(* False: onDisconnect may reset the connect data before the thread looks, *)
(* and nothing wakes it again.                                             *)
WokenWaiterReturns ==
    \A w \in ConnectWaiters :
        (waiter[w] = "woken" /\ isConnected) ~>
            (waiter[w] = "returned" \/ io = "ended" \/ aborted)

(* A connection that is lost while the client runs is announced: the       *)
(* connect data is reset and the pending requests are aborted, or the      *)
(* client is on its way down.                                              *)
LossIsAnnounced ==
    (isConnected /\ Closing /\ stop = "none") ~>
        (disconnects > 0 \/ stop # "none" \/ aborted)
=============================================================================
