------------------------ MODULE StreamClient_proofs ------------------------
(***************************************************************************)
(* Proofs about StreamClient for any set of waiting threads, reconnect     *)
(* period, number of failed connects and number of writes.                 *)
(***************************************************************************)
EXTENDS StreamClient, TLAPS

(* A buffer is on its way, in uv_write, or done with. *)
WritesCounted == queued + writing <= writes

(* The end of the connection is announced by the last callback. *)
AnnouncedLast == disconnects = 1 => sock = "closed"

(* The I/O thread alone opens the socket. *)
FreshUntilStarted == io \in {"none", "starting"} => sock = "fresh"

(* A connect that is under way has a callback to come. *)
ConnectingIsPending == sock = "connecting" => pending

(* stop() joins the I/O thread before it closes what is left. *)
ClosesAfterJoin == stop \in {"closing", "stopped"} => io = "ended"

(* While the loop runs, a socket that is open or closing and was never     *)
(* reported as connected is one the client has spoiled.                    *)
UnconnectedIsSpoiled ==
    io = "looping" /\ ~isConnected /\ sock \in {"open", "closing", "closed"} => spoiled # {}

(* The inductive invariant. *)
SocketInv ==
    /\ WritesCounted /\ AnnouncedLast /\ FreshUntilStarted /\ ConnectingIsPending
    /\ ClosesAfterJoin /\ UnconnectedIsSpoiled /\ ClosedOnce

(* The types of the flags and those of the counters, apart. *)
FlagTypes ==
    /\ io \in {"none", "starting", "looping", "ended"}
    /\ stop \in {"none", "called", "closing", "stopped"}
    /\ sock \in {"fresh", "connecting", "open", "closing", "closed"}
    /\ pending \in BOOLEAN /\ announce \in BOOLEAN /\ aborted \in BOOLEAN
    /\ isConnected \in BOOLEAN /\ isReady \in BOOLEAN /\ arrived \in BOOLEAN
    /\ connectStatus \in {"ok", "error"} /\ arrivedStatus \in {"ok", "error"}
    /\ waiter \in [Waiters -> {"idle", "blocked", "woken", "returned"}]
    /\ spoiled \subseteq {"unread", "slow", "write", "connect"}

CounterTypes ==
    /\ timer \in 0..Period
    /\ queued \in 0..MaxWrites /\ writing \in 0..MaxWrites
    /\ failures \in 0..MaxFailures /\ writes \in 0..MaxWrites
    /\ disconnects \in 0..1

LEMMA TypeParts == TypeOK <=> FlagTypes /\ CounterTypes
  BY Zenon DEF TypeOK, FlagTypes, CounterTypes

(* uv_close keeps the types, and the socket it is called on is closing. *)
LEMMA CloseType ==
    ASSUME FlagTypes, NEW callback \in BOOLEAN, Close(callback)
    PROVE  /\ sock' \in {"closing", "closed"} /\ announce' \in BOOLEAN /\ aborted' \in BOOLEAN
           /\ sock' \in {"fresh", "connecting", "open", "closing", "closed"}
           /\ sock = "closed" => sock' = "closed"
           /\ aborted' => aborted \/ Closing
  BY DEF Close, Closing, FlagTypes

(* A signal changes the state of threads. *)
LEMMA SignalType ==
    ASSUME FlagTypes, Signal
    PROVE  waiter' \in [Waiters -> {"idle", "blocked", "woken", "returned"}]
  BY DEF Signal, Wake, FlagTypes

LEMMA InitSocket == Init => TypeOK /\ SocketInv
<1> SUFFICES ASSUME Init PROVE TypeOK /\ SocketInv
  OBVIOUS
<1>1. FlagTypes
  BY DEF Init, FlagTypes
<1>2. CounterTypes
  BY PeriodAssumption, BoundsAssumption DEF Init, CounterTypes
<1>3. WritesCounted /\ AnnouncedLast
  BY DEF Init, WritesCounted, AnnouncedLast
<1>4. /\ FreshUntilStarted /\ ConnectingIsPending /\ ClosesAfterJoin
      /\ UnconnectedIsSpoiled /\ ClosedOnce
  BY DEF Init, FreshUntilStarted, ConnectingIsPending, ClosesAfterJoin,
         UnconnectedIsSpoiled, ClosedOnce
<1> QED BY <1>1, <1>2, <1>3, <1>4, TypeParts DEF SocketInv

(* Every action keeps the types of the counters, *)
LEMMA CountersFollow ==
    ASSUME CounterTypes, WritesCounted, UNCHANGED <<queued, writing, writes>>,
           timer' \in 0..Period, failures' \in 0..MaxFailures, disconnects' \in 0..1
    PROVE  CounterTypes' /\ WritesCounted'
  BY DEF CounterTypes, WritesCounted

LEMMA SumBound ==
    ASSUME NEW a \in Nat, NEW b \in Nat, NEW n \in Nat, NEW c \in 0..n, a + b <= c
    PROVE  a \in 0..n /\ b \in 0..n
  OBVIOUS

LEMMA BuffersFollow ==
    ASSUME CounterTypes, UNCHANGED <<timer, failures, disconnects>>,
           queued' \in Nat, writing' \in Nat, writes' \in 0..MaxWrites,
           queued' + writing' <= writes'
    PROVE  CounterTypes' /\ WritesCounted'
<1>1. queued' \in 0..MaxWrites /\ writing' \in 0..MaxWrites
  BY BoundsAssumption, SumBound
<1>2. timer' \in 0..Period /\ failures' \in 0..MaxFailures /\ disconnects' \in 0..1
  BY DEF CounterTypes
<1> QED BY <1>1, <1>2 DEF CounterTypes, WritesCounted

LEMMA NextCounters ==
    ASSUME FlagTypes, CounterTypes, SocketInv, [Next]_vars
    PROVE  CounterTypes' /\ WritesCounted'
<1> USE PeriodAssumption, BoundsAssumption DEF boundVars
<1>0. /\ timer \in 0..Period /\ failures \in 0..MaxFailures /\ disconnects \in 0..1
      /\ writes \in 0..MaxWrites /\ queued \in Nat /\ writing \in Nat
      /\ queued + writing <= writes /\ WritesCounted
  BY DEF SocketInv, CounterTypes, WritesCounted
<1>1. CASE UNCHANGED vars
  BY <1>0, <1>1, CountersFollow DEF vars
<1>2. CASE Start \/ Stop \/ AsyncStop \/ StopDone
  BY <1>0, <1>2, CountersFollow DEF Start, Stop, AsyncStop, StopDone
<1>3. CASE StartTransport \/ StartTransportFails \/ WalkAndClose \/ OnReadError
  <2>1. /\ UNCHANGED <<queued, writing, writes, failures, disconnects>>
        /\ timer' \in {0, timer}
    BY <1>3 DEF StartTransport, StartTransportFails, WalkAndClose, OnReadError
  <2> QED BY <1>0, <2>1, CountersFollow
<1>4. CASE ConnectOk \/ ConnectFails \/ ReadStartFails \/ ConnectCanceled
  <2>1. UNCHANGED <<queued, writing, writes, timer, disconnects>>
    BY <1>4 DEF ConnectOk, ConnectFails, ReadStartFails, ConnectCanceled, Connected
  <2>2. failures' = failures \/ (failures < MaxFailures /\ failures' = failures + 1)
    BY <1>4 DEF ConnectOk, ConnectFails, ReadStartFails, ConnectCanceled
  <2>3. failures' \in 0..MaxFailures
    BY <1>0, <2>2
  <2> QED BY <1>0, <2>1, <2>3, CountersFollow
<1>5. CASE AsyncWrite \/ OnWrite \/ OnWriteFails \/ Write
  <2>1. UNCHANGED <<timer, failures, disconnects>>
    BY <1>5 DEF AsyncWrite, OnWrite, OnWriteFails, Write
  <2>2. \/ /\ queued > 0 /\ queued' = queued - 1 /\ writes' = writes
           /\ writing' = writing \/ writing' = writing + 1
        \/ queued' = queued /\ writing > 0 /\ writing' = writing - 1 /\ writes' = writes
        \/ /\ queued' = queued + 1 /\ writing' = writing /\ writes' = writes + 1
           /\ writes < MaxWrites
    BY <1>5 DEF AsyncWrite, OnWrite, OnWriteFails, Write
  <2>3. /\ queued' \in Nat /\ writing' \in Nat /\ writes' \in 0..MaxWrites
        /\ queued' + writing' <= writes'
    BY <1>0, <2>2
  <2> QED BY <2>1, <2>3, BuffersFollow
<1>6. CASE OnClose
  <2>1. /\ UNCHANGED <<queued, writing, writes, timer, failures>>
        /\ disconnects' = disconnects \/ disconnects' = disconnects + 1
        /\ sock = "closing"
    BY <1>6 DEF OnClose, arriveVars
  <2>2. disconnects # 1
    BY <2>1 DEF SocketInv, AnnouncedLast
  <2>3. disconnects' \in 0..1
    BY <1>0, <2>1, <2>2
  <2> QED BY <1>0, <2>1, <2>3, CountersFollow
<1>7. CASE Tick \/ OnTimer
  <2>1. /\ UNCHANGED <<queued, writing, writes, disconnects>>
        /\ timer' = 0 \/ (timer < Period /\ timer' = timer + 1)
    BY <1>7 DEF Tick, OnTimer
  <2>2. failures' = failures \/ (failures < MaxFailures /\ failures' = failures + 1)
    BY <1>7 DEF Tick, OnTimer, Reconnect, ReconnectBusy
  <2>3. timer' \in 0..Period /\ failures' \in 0..MaxFailures
    BY <1>0, <2>1, <2>2
  <2> QED BY <1>0, <2>1, <2>3, CountersFollow
<1>8. ASSUME NEW w \in Waiters, Wait(w)
      PROVE  CounterTypes' /\ WritesCounted'
  BY <1>0, <1>8, CountersFollow DEF Wait
<1> QED BY <1>1, <1>2, <1>3, <1>4, <1>5, <1>6, <1>7, <1>8 DEF Next, LoopStep, StopStep

(* and those of the flags. *)
LEMMA FlagsFollow ==
    ASSUME FlagTypes,
           UNCHANGED <<pending, announce, aborted, isConnected, isReady, connectStatus,
                       arrived, arrivedStatus, waiter, spoiled, sock>>,
           io' \in {"none", "starting", "looping", "ended"},
           stop' \in {"none", "called", "closing", "stopped"}
    PROVE  FlagTypes'
  BY DEF FlagTypes

LEMMA NextFlags ==
    ASSUME FlagTypes, [Next]_vars
    PROVE  FlagTypes'
<1> USE DEF sockVars, readyVars, arriveVars
<1>1. CASE UNCHANGED vars
  BY <1>1, FlagsFollow DEF vars, FlagTypes
<1>2. CASE Start \/ Stop \/ AsyncStop \/ StopDone
  <2>1. /\ io' \in {"none", "starting", "looping", "ended"}
        /\ stop' \in {"none", "called", "closing", "stopped"}
    BY <1>2 DEF Start, Stop, AsyncStop, StopDone, FlagTypes
  <2> QED BY <1>2, <2>1, FlagsFollow DEF Start, Stop, AsyncStop, StopDone
<1>3. CASE StartTransport
  BY <1>3 DEF StartTransport, FlagTypes
<1>4. CASE StartTransportFails
  <2>1. CASE Close(FALSE)
    BY <1>4, <2>1, CloseType DEF StartTransportFails, FlagTypes
  <2>2. CASE UNCHANGED <<sock, announce, aborted>>
    BY <1>4, <2>2 DEF StartTransportFails, FlagTypes
  <2> QED BY <1>4, <2>1, <2>2 DEF StartTransportFails
<1>5. CASE ConnectOk \/ ConnectFails \/ ReadStartFails \/ ConnectCanceled
  <2>1. waiter' \in [Waiters -> {"idle", "blocked", "woken", "returned"}]
    BY <1>5, SignalType DEF ConnectOk, ConnectFails, ReadStartFails, ConnectCanceled, Connected
  <2>2. CASE ConnectOk
    BY <2>1, <2>2 DEF ConnectOk, Connected, FlagTypes
  <2>3. CASE ConnectFails
    BY <2>1, <2>3 DEF ConnectFails, Connected, FlagTypes
  <2>4. CASE ReadStartFails
    BY <2>1, <2>4 DEF ReadStartFails, Connected, FlagTypes
  <2>5. CASE ConnectCanceled
    BY <2>1, <2>5 DEF ConnectCanceled, Connected, FlagTypes
  <2> QED BY <1>5, <2>2, <2>3, <2>4, <2>5
<1>6. CASE AsyncWrite \/ OnWrite \/ Write \/ Tick
  <2>1. io \in {"none", "starting", "looping", "ended"} /\ stop \in {"none", "called", "closing", "stopped"}
    BY DEF FlagTypes
  <2> QED BY <1>6, <2>1, FlagsFollow DEF AsyncWrite, OnWrite, Write, Tick
<1>7. CASE OnWriteFails
  BY <1>7, CloseType DEF OnWriteFails, FlagTypes
<1>8. CASE OnClose
  BY <1>8 DEF OnClose, FlagTypes
<1>9. CASE OnReadError
  BY <1>9, CloseType DEF OnReadError, FlagTypes
<1>10. CASE OnTimer
  <2>1. UNCHANGED <<io, stop, isConnected, isReady, connectStatus, arrived, arrivedStatus,
                    waiter>>
    BY <1>10 DEF OnTimer
  <2>2. CASE ~Retry
    <3>1. UNCHANGED <<sock, pending, announce, aborted, spoiled>>
      BY <1>10, <2>2 DEF OnTimer
    <3> QED BY <2>1, <3>1 DEF FlagTypes
  <2>3. CASE Retry /\ sock = "fresh"
    <3>1. \/ sock' = "connecting" /\ pending' = TRUE /\ UNCHANGED <<announce, aborted, spoiled>>
          \/ Close(FALSE) /\ UNCHANGED pending /\ spoiled' = spoiled \cup {"connect"}
          \/ UNCHANGED <<sock, pending, announce, aborted, spoiled>>
      BY <1>10, <2>3 DEF OnTimer, Reconnect
    <3>2. CASE sock' = "connecting" /\ pending' = TRUE /\ UNCHANGED <<announce, aborted, spoiled>>
      BY <2>1, <3>2 DEF FlagTypes
    <3>3. CASE Close(FALSE) /\ UNCHANGED pending /\ spoiled' = spoiled \cup {"connect"}
      BY <2>1, <3>3, CloseType DEF FlagTypes
    <3>4. CASE UNCHANGED <<sock, pending, announce, aborted, spoiled>>
      BY <2>1, <3>4 DEF FlagTypes
    <3> QED BY <3>1, <3>2, <3>3, <3>4
  <2>4. CASE Retry /\ sock # "fresh"
    <3>1. Close(FALSE) /\ UNCHANGED pending /\ spoiled' \subseteq spoiled \cup {"slow"}
      BY <1>10, <2>4 DEF OnTimer, ReconnectBusy
    <3> QED BY <2>1, <3>1, CloseType DEF FlagTypes
  <2> QED BY <2>2, <2>3, <2>4
<1>11. CASE WalkAndClose
  BY <1>11, CloseType DEF WalkAndClose, FlagTypes
<1>12. ASSUME NEW w \in Waiters, Wait(w)
       PROVE  FlagTypes'
  BY <1>12 DEF Wait, FlagTypes
<1> QED BY <1>1, <1>2, <1>3, <1>4, <1>5, <1>6, <1>7, <1>8, <1>9, <1>10, <1>11, <1>12
        DEF Next, LoopStep, StopStep

(* Every action keeps the rest of the invariant: one step per action that  *)
(* moves the socket, the I/O thread or stop().                             *)
LEMMA SocketFollows ==
    ASSUME SocketInv, WritesCounted',
           UNCHANGED <<io, stop, sock, pending, isConnected, aborted, spoiled, disconnects>>
    PROVE  SocketInv'
<1>1. /\ AnnouncedLast' /\ FreshUntilStarted' /\ ConnectingIsPending'
      /\ ClosesAfterJoin' /\ UnconnectedIsSpoiled' /\ ClosedOnce'
  BY DEF SocketInv, AnnouncedLast, FreshUntilStarted, ConnectingIsPending, ClosesAfterJoin,
         UnconnectedIsSpoiled, ClosedOnce
<1> QED BY <1>1 DEF SocketInv

LEMMA NextSocket ==
    ASSUME FlagTypes, CounterTypes, SocketInv, WritesCounted', [Next]_vars
    PROVE  SocketInv'
<1> USE DEF SocketInv, AnnouncedLast, FreshUntilStarted, ConnectingIsPending,
            ClosesAfterJoin, UnconnectedIsSpoiled, ClosedOnce
<1>1. CASE UNCHANGED vars \/ Tick \/ AsyncWrite \/ OnWrite \/ Write
  <2>1. UNCHANGED <<io, stop, sock, pending, isConnected, aborted, spoiled, disconnects>>
    BY <1>1 DEF vars, Tick, AsyncWrite, OnWrite, Write, sockVars, boundVars
  <2> QED BY <2>1, SocketFollows
<1>2. CASE Start
  BY <1>2 DEF Start, sockVars
<1>3. CASE StartTransport
  BY <1>3 DEF StartTransport
<1>4. CASE StartTransportFails
  BY <1>4 DEF StartTransportFails, Close, Closing
<1>5. CASE ConnectOk
  BY <1>5 DEF ConnectOk, Connected, Looping
<1>6. CASE ConnectFails
  BY <1>6 DEF ConnectFails, Connected, Looping
<1>7. CASE ReadStartFails
  BY <1>7 DEF ReadStartFails, Connected, Looping
<1>8. CASE ConnectCanceled
  BY <1>8 DEF ConnectCanceled, Connected, Closing
<1>9. CASE OnTimer
  <2>1. UNCHANGED <<io, stop, isConnected, disconnects>> /\ io = "looping" /\ ~aborted
    BY <1>9 DEF OnTimer, Looping
  <2>2. CASE ~Retry
    <3>1. UNCHANGED <<sock, pending, aborted, spoiled>>
      BY <1>9, <2>2 DEF OnTimer, sockVars
    <3> QED BY <2>1, <3>1, SocketFollows
  <2>3. CASE Retry /\ sock = "fresh"
    <3>1. \/ sock' = "connecting" /\ pending' /\ UNCHANGED <<aborted, spoiled>>
          \/ sock' = "closing" /\ spoiled' # {} /\ UNCHANGED aborted
          \/ UNCHANGED <<sock, pending, aborted, spoiled>>
      BY <1>9, <2>3 DEF OnTimer, Reconnect, Close, Closing, sockVars
    <3> QED BY <2>1, <2>3, <3>1
  <2>4. CASE Retry /\ sock # "fresh"
    <3>1. /\ Close(FALSE) /\ UNCHANGED pending
          /\ spoiled' = IF pending THEN spoiled \cup {"slow"} ELSE spoiled
      BY <1>9, <2>4 DEF OnTimer, ReconnectBusy
    <3>2. spoiled' # {}
      BY <2>1, <2>4, <3>1 DEF Retry, FlagTypes
    <3>3. sock' \in {"closing", "closed"} /\ (sock = "closed" => sock' = "closed")
      BY <3>1, CloseType
    <3> QED BY <2>1, <3>2, <3>3
  <2> QED BY <2>2, <2>3, <2>4
<1>10. CASE OnWriteFails
  <2>1. /\ Close(TRUE) /\ spoiled' # {} /\ io \in {"looping", "ended"}
        /\ UNCHANGED <<io, stop, isConnected, disconnects>>
    BY <1>10 DEF OnWriteFails, CallbacksRun, Looping
  <2>2. sock' \in {"closing", "closed"} /\ (sock = "closed" => sock' = "closed")
    BY <2>1, CloseType
  <2> QED BY <2>1, <2>2
<1>11. CASE OnReadError
  <2>1. /\ sock' = "closing" /\ UNCHANGED aborted /\ isConnected' /\ io' = "looping"
        /\ UNCHANGED <<io, stop, isConnected, disconnects, pending, spoiled>> /\ sock = "open"
    BY <1>11 DEF OnReadError, Looping, Close, Closing
  <2> QED BY <2>1
<1>12. CASE OnClose
  <2>1. /\ sock = "closing" /\ sock' = "closed"
        /\ UNCHANGED <<io, stop, isConnected, aborted, spoiled>>
    BY <1>12 DEF OnClose
  <2> QED BY <2>1
<1>13. CASE Stop
  BY <1>13 DEF Stop, sockVars
<1>14. CASE AsyncStop
  BY <1>14 DEF AsyncStop, sockVars, Looping
<1>15. CASE WalkAndClose
  <2>1. /\ stop' = "closing" /\ io' = "ended" /\ sock' \in {"closing", "closed"}
        /\ (sock = "closed" => sock' = "closed")
        /\ UNCHANGED <<aborted, spoiled, disconnects>>
    BY <1>15, CloseType DEF WalkAndClose, Close, Closing
  <2> QED BY <2>1
<1>16. CASE StopDone
  BY <1>16 DEF StopDone, sockVars
<1>17. ASSUME NEW w \in Waiters, Wait(w)
       PROVE  SocketInv'
  BY <1>17, SocketFollows DEF Wait, sockVars
<1> QED BY <1>1, <1>2, <1>3, <1>4, <1>5, <1>6, <1>7, <1>8, <1>9, <1>10, <1>11, <1>12,
           <1>13, <1>14, <1>15, <1>16, <1>17 DEF Next, LoopStep, StopStep

LEMMA SocketInvariant == Spec => [](TypeOK /\ SocketInv)
<1>1. TypeOK /\ SocketInv /\ [Next]_vars => (TypeOK /\ SocketInv)'
  <2> SUFFICES ASSUME TypeOK, SocketInv, [Next]_vars
               PROVE  TypeOK' /\ SocketInv'
    OBVIOUS
  <2>1. FlagTypes /\ CounterTypes
    BY TypeParts
  <2>2. FlagTypes' /\ CounterTypes' /\ WritesCounted'
    BY <2>1, NextFlags, NextCounters
  <2>3. TypeOK'
    BY <2>2, TypeParts, PTL
  <2> QED BY <2>1, <2>2, <2>3, NextSocket
<1> QED BY <1>1, InitSocket, PTL DEF Spec

(* The variables of StreamClient keep their types for every bound; with    *)
(* them, no buffer is in two places and the end of the connection is       *)
(* announced at most once.                                                 *)
THEOREM TypeCorrect == Spec => []TypeOK
  BY SocketInvariant, PTL

(* uv_close is called on a closing socket only in a client that has        *)
(* spoiled its socket by a failed write, a slow connect, a retry that      *)
(* failed at once or a failed uv_read_start: every order of a loss, a      *)
(* refused connect, a retry and a stop closes it once.                     *)
THEOREM ClosesOnce == Spec => []ClosedOnce
<1>1. SocketInv => ClosedOnce
  BY DEF SocketInv
<1> QED BY <1>1, SocketInvariant, PTL
=============================================================================
