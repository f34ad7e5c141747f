----------------------------- MODULE UdpServer -----------------------------
(***************************************************************************)
(* UdpServer (src/transport/udp_server.cpp) over DataServer: datagrams     *)
(* have no connection, so the server keeps one pseudo-connection for each  *)
(* client address.  Its state is in two places that onRecv and onTimer     *)
(* change together: the array of connection slots and the table from the   *)
(* address of a client to its slot.  One thread runs the loop; replies     *)
(* come from the threads of the listener through uv_async_send.            *)
(*                                                                         *)
(* onRecv stores the connection id in the table and uses what it finds     *)
(* there as an index of the array.  The two agree only until a slot is     *)
(* taken for the second time.  An index past the array is undefined        *)
(* behaviour: the model records it in wild and stops there.  An error of   *)
(* the socket comes from libuv without an address, which onRecv reads: the *)
(* process ends.                                                           *)
(***************************************************************************)
EXTENDS ConcurrentHashTable, Sequences

CONSTANTS MaxConnections,  \* size of the slot array
          Expire,          \* m_clientExpireSeconds, also the timer's period
          MaxDatagrams,    \* bound: calls of onRecv
          MaxReplies,      \* bound: replies under way
          MaxRestarts      \* bound: calls of initialize

\* COMMUTIL_UDP_CONN_MAP_FACTOR entries of the table for each slot.
ASSUME FactorAssumption == Capacity = 4 * MaxConnections
ASSUME ExpireAssumption == Expire \in Nat \ {0}
ASSUME ConnectionsAssumption == MaxConnections \in Nat \ {0}
ASSUME BoundsAssumption == MaxDatagrams \in Nat /\ MaxReplies \in Nat /\ MaxRestarts \in Nat

VARIABLES
    phase,      \* of the server object: down, initialized, running, stopped,
                \* or crashed
    slots,      \* m_connDataArray
    table,      \* m_connectionMap
    nextId,     \* m_nextConnectionId
    elapsed,    \* time since the expiry timer fired
    connected,  \* for each slot, the client announced to the listener
    seen,       \* the last datagram: who sent it and the slot it was given to
    replies,    \* replies queued on the loop
    wild,       \* onRecv used an index past the array
    datagrams, restarts

vars == <<phase, slots, table, nextId, elapsed, connected, seen, replies, wild,
          datagrams, restarts>>

Slots == 0..(MaxConnections - 1)

Nobody == "nobody"
ASSUME NobodyAssumption == Nobody \notin Keys

Used == {i \in Slots : slots[i].used}

\* The server runs its loop (and has not left the array).
Serving == phase = "running" /\ ~wild

(***************************************************************************)
(* Initialisation.  m_lastAccessTimeMillis is not initialised, so the age  *)
(* of a slot that was never used is arbitrary.                             *)
(***************************************************************************)
FreshSlot(age) ==
    [used |-> FALSE, client |-> Nobody, id |-> 0, age |-> age, entry |-> 0]

FreshSlots == {[i \in Slots |-> FreshSlot(ages[i])] :
               ages \in [Slots -> 0..Expire]}

Init ==
    /\ phase = "down"
    /\ slots \in FreshSlots
    /\ table = EmptyTable
    /\ nextId = 0
    /\ elapsed = 0
    /\ connected = [i \in Slots |-> Nobody]
    /\ seen = [from |-> Nobody, slot |-> 0]
    /\ replies = <<>>
    /\ wild = FALSE
    /\ datagrams = 0
    /\ restarts = 0

(***************************************************************************)
(* The life of the object.  A failure on the way (map, socket, address,    *)
(* bind, receive, timer) takes back what was set up before it.  The        *)
(* counter of connection ids is never reset.                               *)
(***************************************************************************)
Initialize ==
    /\ phase = "down"
    /\ restarts < MaxRestarts
    /\ restarts' = restarts + 1
    /\ \/ /\ phase' = "initialized"
          /\ slots' \in FreshSlots
       \/ UNCHANGED <<phase, slots>>
    /\ table' = EmptyTable
    /\ UNCHANGED <<nextId, elapsed, connected, seen, replies, wild, datagrams>>

Start ==
    /\ phase = "initialized"
    /\ phase' = "running"
    /\ elapsed' = 0
    /\ UNCHANGED <<slots, table, nextId, connected, seen, replies, wild,
                   datagrams, restarts>>

\* The loop is stopped with the handles of all replies under way; clients
\* that are still connected are not announced as disconnected.
Stop ==
    /\ Serving
    /\ phase' = "stopped"
    /\ replies' = <<>>
    /\ seen' = [from |-> Nobody, slot |-> 0]
    /\ UNCHANGED <<slots, table, nextId, elapsed, connected, wild, datagrams,
                   restarts>>

\* Table and array are destroyed, and the listener is not told: to it, the
\* clients of this life stay connected.
Terminate ==
    /\ phase = "stopped"
    /\ phase' = "down"
    /\ table' = EmptyTable
    /\ slots' = [i \in Slots |-> [slots[i] EXCEPT !.used = FALSE]]
    /\ UNCHANGED <<nextId, elapsed, connected, seen, replies, wild, datagrams, restarts>>

(***************************************************************************)
(* onRecv.  A datagram from client c renews the time of the slot it is     *)
(* given to.  A call with nothing to read only frees the buffer.           *)
(***************************************************************************)
Receives(c) ==
    /\ Serving
    /\ datagrams < MaxDatagrams
    /\ datagrams' = datagrams + 1
    /\ UNCHANGED <<phase, elapsed, replies, restarts>>

Accessed(s) == [s EXCEPT !.age = 0]

\* A client that is in the table, whose value is an index of the array.
RecvKnown(c) ==
    LET e == GetItem(table, c)
        i == table[e].value
    IN  /\ Receives(c)
        /\ e # NoEntry
        /\ i \in Slots
        /\ slots' = [slots EXCEPT ![i] = Accessed(@)]
        /\ seen' = [from |-> c, slot |-> i]
        /\ UNCHANGED <<table, nextId, connected, wild>>

RecvWild(c) ==
    LET e == GetItem(table, c)
    IN  /\ Receives(c)
        /\ e # NoEntry
        /\ table[e].value \notin Slots
        /\ wild' = TRUE
        /\ UNCHANGED <<slots, table, nextId, connected, seen>>

\* For mutation: the slot array is searched from its end.
GrabLast == Max(Slots \ Used)

\* grabConnectionData takes the first slot that is not in use.
GrabConnectionData == Min(Slots \ Used)

\* For mutation: the slot keeps the details it was created with.
KeepDetails(c) == Nobody

\* The address setHostDetails writes to the details of the slot.
HostDetails(c) == c

RecvNew(c) ==
    LET i == GrabConnectionData
        e == SetItemEntry(table, c)
        grabbed == [used |-> TRUE, client |-> HostDetails(c), id |-> nextId,
                    age |-> slots[i].age, entry |-> e]
    IN  /\ Receives(c)
        /\ GetItem(table, c) = NoEntry
        /\ Used # Slots
        /\ nextId' = nextId + 1
        /\ IF e = NoEntry
           THEN /\ slots' = [slots EXCEPT ![i] = [grabbed EXCEPT !.used = FALSE,
                                                  !.entry = slots[i].entry]]
                /\ UNCHANGED <<table, connected, seen>>
           ELSE /\ table' = SetItem(table, c, nextId)
                /\ slots' = [slots EXCEPT ![i] = Accessed(grabbed)]
                /\ connected' = [connected EXCEPT ![i] = c]
                /\ seen' = [from |-> c, slot |-> i]
        /\ UNCHANGED wild

\* All slots are in use: the datagram is dropped, and its buffer with it.
RecvRefused(c) ==
    /\ Receives(c)
    /\ GetItem(table, c) = NoEntry
    /\ Used = Slots
    /\ UNCHANGED <<slots, table, nextId, connected, seen, wild>>

Recv == \E c \in Keys : RecvKnown(c) \/ RecvNew(c) \/ RecvWild(c) \/ RecvRefused(c)

\* libuv reports an error with a null address.
RecvError ==
    /\ Serving
    /\ datagrams < MaxDatagrams
    /\ datagrams' = datagrams + 1
    /\ phase' = "crashed"
    /\ replies' = <<>>
    /\ seen' = [from |-> Nobody, slot |-> 0]
    /\ UNCHANGED <<slots, table, nextId, elapsed, connected, wild, restarts>>

(***************************************************************************)
(* The expiry timer, and the passage of time.                              *)
(***************************************************************************)
\* For mutation: the last slot of the array is left out.
ExpiredButLast == {i \in Used : slots[i].age >= Expire /\ i + 1 < MaxConnections}

Expired == {i \in Used : slots[i].age >= Expire}

\* For mutation: slots are released and their entries stay.
ReleasedNone(S) == table

\* The table without the entries of the slots in S.
Released(S) ==
    [e \in Entries |-> IF \E i \in S : slots[i].entry = e
                       THEN [table[e] EXCEPT !.key = NoKey]
                       ELSE table[e]]

OnTimer ==
    /\ Serving
    /\ elapsed >= Expire
    /\ elapsed' = 0
    /\ slots' = [i \in Slots |-> IF i \in Expired
                                 THEN [slots[i] EXCEPT !.used = FALSE]
                                 ELSE slots[i]]
    /\ table' = Released(Expired)
    /\ connected' = [i \in Slots |-> IF i \in Expired THEN Nobody ELSE connected[i]]
    /\ UNCHANGED <<phase, nextId, seen, replies, wild, datagrams, restarts>>

\* Ages count up to Expire, which is all the timer tells apart.
Tick ==
    /\ Serving
    /\ elapsed < Expire
    /\ elapsed' = elapsed + 1
    /\ slots' = [i \in Slots |-> [slots[i] EXCEPT !.age = Min({@ + 1, Expire})]]
    /\ UNCHANGED <<phase, table, nextId, connected, seen, replies, wild,
                   datagrams, restarts>>

(***************************************************************************)
(* Replies.  The listener answers the last datagram with the slot it was   *)
(* told; writeTransport reads the address in that slot when the loop gets  *)
(* to it.                                                                  *)
(***************************************************************************)
ReplyMsg ==
    /\ Serving
    /\ seen.from # Nobody
    /\ Len(replies) < MaxReplies
    /\ replies' = Append(replies, seen)
    /\ UNCHANGED <<phase, slots, table, nextId, elapsed, connected, seen, wild,
                   datagrams, restarts>>

\* Where writeTransport would send reply r now.
Destination(r) == slots[r.slot].client

WriteTransport ==
    /\ Serving
    /\ replies # <<>>
    /\ replies' = Tail(replies)
    /\ UNCHANGED <<phase, slots, table, nextId, elapsed, connected, seen, wild,
                   datagrams, restarts>>

Next ==
    \/ Initialize \/ Start \/ Stop \/ Terminate
    \/ Recv \/ RecvError
    \/ OnTimer \/ Tick
    \/ ReplyMsg \/ WriteTransport

Spec == Init /\ [][Next]_vars

\* Time passes, libuv runs a timer that is due and callbacks that are queued.
FairSpec == Spec /\ WF_vars(Tick) /\ WF_vars(OnTimer) /\ WF_vars(WriteTransport)

-----------------------------------------------------------------------------
SlotType == [used : BOOLEAN, client : Keys \cup {Nobody}, id : Nat, age : 0..Expire,
             entry : Entries]

TypeOK ==
    /\ phase \in {"down", "initialized", "running", "stopped", "crashed"}
    /\ slots \in [Slots -> SlotType]
    /\ \A i \in Used : slots[i].client \in Keys
    /\ table \in [Entries -> [key : Keys \cup {NoKey}, value : Nat]]
    /\ nextId \in 0..MaxDatagrams
    /\ elapsed \in 0..Expire
    /\ connected \in [Slots -> Keys \cup {Nobody}]
    /\ seen \in [from : Keys \cup {Nobody}, slot : Slots]
    /\ replies \in Seq([from : Keys, slot : Slots])
    /\ wild \in BOOLEAN
    /\ datagrams \in 0..MaxDatagrams
    /\ restarts \in 0..MaxRestarts

\* initialize() was called before the one of the present life.
StoppedBefore == restarts > IF phase = "down" THEN 0 ELSE 1

(* The array, the table and the listener agree on the clients: the entry   *)
(* of a slot in use holds the client's address and the slot's id, every    *)
(* entry that is not vacant belongs to a slot in use, and the listener was *)
(* told of the client of every slot in use.  The clients it was told of    *)
(* and not yet told to be gone are no others, until the server is          *)
(* terminated, which tells it nothing.  onRecv and onTimer keep the three  *)
(* in step, over expiry and restart.                                       *)
ViewsAgree ==
    /\ \A i \in Used :
           table[slots[i].entry] = [key |-> slots[i].client, value |-> slots[i].id]
    /\ \A e \in Entries : table[e].key # NoKey => \E i \in Used : slots[i].entry = e
    /\ \A i \in Used : connected[i] = slots[i].client
    /\ ~StoppedBefore => \A i \in Slots \ Used : connected[i] = Nobody

(* A client has one slot at a time, whatever holes expired clients left in *)
(* its probe sequence: getItem has to find an entry that lies behind one.  *)
OneSlotPerClient ==
    \A i, j \in Used : slots[i].client = slots[j].client => i = j

(* As long as every slot that was ever taken is still in use, each         *)
(* datagram is handed to the listener with the slot of the client that     *)
(* sent it, and each reply under way goes to the client it answers.        *)
UnexpiredAreAnswered ==
    nextId = Cardinality(Used) =>
        /\ ~wild
        /\ seen.from # Nobody => slots[seen.slot].client = seen.from
        /\ \A n \in DOMAIN replies : Destination(replies[n]) = replies[n].from

(* A client that has gone silent gives its slot back: with finitely many   *)
(* datagrams, a slot in use is released unless the server stops first.     *)
SilentIsForgotten ==
    \A i \in Slots :
        (phase = "running" /\ i \in Used) ~> (i \notin Used \/ phase # "running" \/ wild)

(* A datagram is handed to the listener with the slot of the client that   *)
(* sent it, the connection index that udp_server.cpp:157 expects from the  *)
(* table.                                                                  *)
DatagramFindsItsSlot ==
    [][datagrams' # datagrams /\ seen' # seen /\ seen'.from # Nobody =>
           slots'[seen'.slot].client = seen'.from]_vars

(* "In such a case no disconnect notification will be delivered to the     *)
(* listener for that datagram client" (DataListener::onConnect).  False:   *)
(* onTimer announces the end of a pseudo-connection that has expired.      *)
NeverDisconnected ==
    [][\A i \in Slots : connected[i] # Nobody => connected'[i] # Nobody]_vars
=============================================================================
