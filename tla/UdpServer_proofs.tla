-------------------------- MODULE UdpServer_proofs --------------------------
(***************************************************************************)
(* Proofs about UdpServer for any set of clients, hash function, number of *)
(* slots and bounds.                                                       *)
(***************************************************************************)
EXTENDS UdpServer, TLAPS, FiniteSetTheorems

(* A nonempty set of natural numbers has a least element. *)
LEMMA LeastExists ==
    ASSUME NEW S \in SUBSET Nat, S # {}
    PROVE  \E x \in S : \A y \in S : x <= y
<1>1. PICK x \in S : \A y \in S : ~(<<y, x>> \in OpToRel(<, Nat))
  BY NatLessThanWellFounded, WFMin, Zenon
<1>2. ASSUME NEW y \in S
      PROVE  x <= y
  <2>1. y < x => <<y, x>> \in OpToRel(<, Nat)
    BY DEF OpToRel
  <2>2. ~(y < x)
    BY <1>1, <2>1, Zenon
  <2> QED BY <2>2
<1> QED BY <1>1, <1>2

(* Min returns it. *)
LEMMA MinIsLeast ==
    ASSUME NEW S \in SUBSET Nat, S # {}
    PROVE  Min(S) \in S /\ \A y \in S : Min(S) <= y
  BY LeastExists DEF Min

(* The size of the table is a power of two, so the table has an entry. *)
LEMMA SizeType == Size \in Nat \ {0} /\ Size >= Capacity
<1> DEFINE Large == {s \in {2 ^ n : n \in 0..Capacity} : s >= Capacity}
<1>1. Large \in SUBSET Nat
  BY PowerAssumption, CapacityAssumption
<1>2. 2 ^ Capacity \in Large
  BY PowerAssumption, CapacityAssumption
<1>3. PICK s \in Large : \A t \in Large : s <= t
  BY <1>1, <1>2, LeastExists
<1>4. /\ s \in {2 ^ n : n \in 0..Capacity}
      /\ s >= Capacity /\ \A n \in 0..Capacity : 2 ^ n >= Capacity => s <= 2 ^ n
  BY <1>3
<1>5. Size \in {2 ^ n : n \in 0..Capacity} /\ Size >= Capacity
  BY <1>4 DEF Size
<1> QED BY <1>5, PowerAssumption, CapacityAssumption

(* Division with remainder, where the numbers are small. *)
LEMMA SmallMod ==
    ASSUME NEW m \in Nat \ {0}, NEW a \in Nat
    PROVE  /\ a % m \in 0..(m - 1)
           /\ a < m => a % m = a /\ (a + m) % m = a
  OBVIOUS

(* A probe looks at an entry of the table. *)
LEMMA ProbedIsEntry ==
    ASSUME NEW k \in Keys, NEW n \in Nat
    PROVE  Probed(k, n) \in Entries /\ Home(k) \in Entries
<1>1. Hash[k] \in Nat
  BY HashAssumption
<1>2. Home(k) \in 0..(Size - 1)
  BY <1>1, SizeType, SmallMod DEF Home
<1>3. Home(k) + n \in Nat
  BY <1>2, SizeType
<1> QED BY <1>2, <1>3, SizeType, SmallMod DEF Probed, Entries

(* A search that goes all the way round looks at every entry. *)
LEMMA EveryEntryProbed ==
    ASSUME NEW k \in Keys, NEW e \in Entries
    PROVE  \E n \in Entries : Probed(k, n) = e
<1>1. Home(k) \in 0..(Size - 1) /\ e \in 0..(Size - 1) /\ Size \in Nat \ {0}
  BY ProbedIsEntry, SizeType DEF Entries
<1>2. e \in Nat /\ e < Size
  BY <1>1
<1>3. e % Size = e /\ (e + Size) % Size = e
  BY <1>1, <1>2, SmallMod, Zenon
<1>4. CASE e >= Home(k)
  <2>1. e - Home(k) \in Entries /\ Home(k) + (e - Home(k)) = e
    BY <1>1, <1>4 DEF Entries
  <2> QED BY <1>3, <2>1 DEF Probed
<1>5. CASE e < Home(k)
  <2>1. e + Size - Home(k) \in Entries /\ Home(k) + (e + Size - Home(k)) = e + Size
    BY <1>1, <1>5 DEF Entries
  <2> QED BY <1>3, <2>1 DEF Probed
<1> QED BY <1>1, <1>4, <1>5

(* What a search returns: an entry with a key it looks for, or NoEntry     *)
(* when no entry of the table, behind a hole or not, has one.              *)
LEMMA SearchResult ==
    ASSUME NEW t, NEW k \in Keys, NEW S
    PROVE  LET e == FirstProbed(t, k, S)
           IN  \/ e \in Entries /\ e # NoEntry /\ t[e].key \in S
               \/ e = NoEntry /\ \A f \in Entries : t[f].key \notin S
<1> DEFINE hits == {n \in Entries : t[Probed(k, n)].key \in S}
<1>1. CASE hits = {}
  <2>1. FirstProbed(t, k, S) = NoEntry
    BY <1>1 DEF FirstProbed
  <2>2. ASSUME NEW f \in Entries
        PROVE  t[f].key \notin S
    <3>1. PICK n \in Entries : Probed(k, n) = f
      BY EveryEntryProbed
    <3> QED BY <1>1, <3>1
  <2> QED BY <2>1, <2>2
<1>2. CASE hits # {}
  <2>1. hits \in SUBSET Nat
    BY SizeType DEF Entries
  <2>2. Min(hits) \in hits
    BY <1>2, <2>1, MinIsLeast
  <2>3. FirstProbed(t, k, S) = Probed(k, Min(hits))
    BY <1>2 DEF FirstProbed
  <2>4. Probed(k, Min(hits)) \in Entries
    BY <2>1, <2>2, ProbedIsEntry
  <2>5. \A e \in Entries : e # NoEntry
    BY SizeType DEF Entries, NoEntry
  <2> QED BY <2>2, <2>3, <2>4, <2>5
<1> QED BY <1>1, <1>2

(* getItem: the entry of the key, wherever it is. *)
LEMMA GetItemResult ==
    ASSUME NEW k \in Keys
    PROVE  /\ GetItem(table, k) # NoEntry =>
                  GetItem(table, k) \in Entries /\ table[GetItem(table, k)].key = k
           /\ GetItem(table, k) = NoEntry => \A f \in Entries : table[f].key # k
  BY SearchResult DEF GetItem

(* setItem: for a key the table does not have, a vacant entry or none. *)
LEMMA SetItemResult ==
    ASSUME NEW k \in Keys, GetItem(table, k) = NoEntry,
           SetItemEntry(table, k) # NoEntry
    PROVE  /\ SetItemEntry(table, k) \in Entries
           /\ table[SetItemEntry(table, k)].key = NoKey
  BY SearchResult, GetItemResult DEF SetItemEntry

-----------------------------------------------------------------------------
(* The counter of connection ids never runs ahead of the datagrams. *)
IdsAreCounted == nextId <= datagrams

(* The slot and the entry that a new client is given. *)
LEMMA GrabbedIsFree ==
    ASSUME Used # Slots
    PROVE  GrabConnectionData \in Slots \ Used
<1>1. Slots \ Used \in SUBSET Nat /\ Slots \ Used # {}
  BY ConnectionsAssumption DEF Slots, Used
<1> QED BY <1>1, MinIsLeast DEF GrabConnectionData

(* Time does not take an age past Expire. *)
LEMMA AgeBounded ==
    ASSUME NEW a \in 0..Expire
    PROVE  Min({a + 1, Expire}) \in 0..Expire
<1>1. {a + 1, Expire} \in SUBSET Nat
  BY ExpireAssumption
<1>2. /\ Min({a + 1, Expire}) \in {a + 1, Expire}
      /\ \A y \in {a + 1, Expire} : Min({a + 1, Expire}) <= y
  BY <1>1, MinIsLeast
<1> QED BY <1>2, ExpireAssumption

(* What releasing, ageing and accessing a slot leave as it was. *)
LEMMA SlotReleased ==
    ASSUME NEW s \in SlotType
    PROVE  LET t == [s EXCEPT !.used = FALSE]
           IN  /\ t \in SlotType /\ t.used = FALSE
               /\ t.client = s.client /\ t.id = s.id /\ t.entry = s.entry
  BY DEF SlotType

LEMMA SlotAged ==
    ASSUME NEW s \in SlotType, NEW a \in 0..Expire
    PROVE  LET t == [s EXCEPT !.age = a]
           IN  /\ t \in SlotType /\ t.used = s.used
               /\ t.client = s.client /\ t.id = s.id /\ t.entry = s.entry
  BY DEF SlotType

LEMMA SlotAccessed ==
    ASSUME NEW s \in SlotType
    PROVE  LET t == Accessed(s)
           IN  /\ t \in SlotType /\ t.used = s.used
               /\ t.client = s.client /\ t.id = s.id /\ t.entry = s.entry
  BY SlotAged, ExpireAssumption DEF Accessed

(* The constants of the initial state have their types. *)
LEMMA InitialValues ==
    /\ 0 \in Slots /\ 0 \in Entries
    /\ EmptyTable \in [Entries -> [key : Keys \cup {NoKey}, value : Nat]]
    /\ \A s \in FreshSlots :
          s \in [Slots -> SlotType] /\ \A i \in Slots : s[i].used = FALSE
<1>1. 0 \in Slots /\ 0 \in Entries
  BY ConnectionsAssumption, SizeType DEF Slots, Entries
<1>2. \A age \in 0..Expire : FreshSlot(age) \in SlotType /\ FreshSlot(age).used = FALSE
  BY <1>1 DEF FreshSlot, SlotType
<1>3. ASSUME NEW s \in FreshSlots
      PROVE  s \in [Slots -> SlotType] /\ \A i \in Slots : s[i].used = FALSE
  <2>1. PICK ages \in [Slots -> 0..Expire] : s = [i \in Slots |-> FreshSlot(ages[i])]
    BY DEF FreshSlots
  <2> QED BY <1>2, <2>1
<1> QED BY <1>1, <1>3 DEF EmptyTable

LEMMA InitTypeOK == Init => TypeOK /\ IdsAreCounted
<1> SUFFICES ASSUME Init PROVE TypeOK /\ IdsAreCounted
  OBVIOUS
<1>1. slots \in [Slots -> SlotType] /\ Used = {}
  BY InitialValues DEF Init, Used
<1>2. replies \in Seq([from : Keys, slot : Slots])
  BY DEF Init
<1>3. /\ seen \in [from : Keys \cup {Nobody}, slot : Slots]
      /\ connected \in [Slots -> Keys \cup {Nobody}]
      /\ wild \in BOOLEAN
  BY InitialValues DEF Init
<1>4. /\ nextId \in 0..MaxDatagrams /\ datagrams \in 0..MaxDatagrams
      /\ restarts \in 0..MaxRestarts /\ elapsed \in 0..Expire
      /\ nextId <= datagrams
  BY ExpireAssumption, BoundsAssumption DEF Init
<1>5. /\ table \in [Entries -> [key : Keys \cup {NoKey}, value : Nat]]
      /\ phase \in {"down", "initialized", "running", "stopped", "crashed"}
  BY InitialValues DEF Init
<1> QED BY <1>1, <1>2, <1>3, <1>4, <1>5 DEF TypeOK, IdsAreCounted

(* Every action keeps the types. *)
LEMMA NextTypeOK ==
    ASSUME TypeOK, IdsAreCounted, [Next]_vars
    PROVE  TypeOK' /\ IdsAreCounted'
<1> USE BoundsAssumption, ExpireAssumption
<1>1. CASE UNCHANGED vars
  BY <1>1 DEF vars, TypeOK, IdsAreCounted, Used
<1>2. CASE Initialize
  <2>1. slots' \in [Slots -> SlotType] /\ \A i \in Used' : slots'[i].client \in Keys
    BY <1>2, InitialValues DEF Initialize, TypeOK, Used
  <2> QED BY <1>2, <2>1, InitialValues DEF Initialize, TypeOK, IdsAreCounted, Used
<1>3. CASE Start
  BY <1>3 DEF Start, TypeOK, IdsAreCounted, Used
<1>4. CASE Stop
  BY <1>4, InitialValues DEF Stop, TypeOK, IdsAreCounted, Used
<1>5. CASE Terminate
  <2>1. slots' \in [Slots -> SlotType] /\ \A i \in Used' : slots'[i].client \in Keys
    BY <1>5, SlotReleased DEF Terminate, TypeOK, Used
  <2> QED BY <1>5, <2>1, InitialValues DEF Terminate, TypeOK, IdsAreCounted
<1>6. ASSUME NEW c \in Keys, RecvKnown(c)
      PROVE  TypeOK' /\ IdsAreCounted'
  <2> DEFINE i == table[GetItem(table, c)].value
  <2>1. i \in Slots /\ slots' = [slots EXCEPT ![i] = Accessed(@)]
    BY <1>6 DEF RecvKnown
  <2>2. /\ Accessed(slots[i]) \in SlotType
        /\ Accessed(slots[i]).client = slots[i].client
        /\ Accessed(slots[i]).used = slots[i].used
    BY <2>1, SlotAccessed DEF TypeOK
  <2>3. slots' \in [Slots -> SlotType] /\ \A j \in Used' : slots'[j].client \in Keys
    BY <2>1, <2>2 DEF TypeOK, Used
  <2> QED BY <1>6, <2>1, <2>3 DEF RecvKnown, Receives, TypeOK, IdsAreCounted
<1>7. ASSUME NEW c \in Keys, RecvNew(c)
      PROVE  TypeOK' /\ IdsAreCounted'
  <2> DEFINE i == GrabConnectionData
             e == SetItemEntry(table, c)
             grabbed == [used |-> TRUE, client |-> HostDetails(c), id |-> nextId,
                         age |-> slots[i].age, entry |-> e]
  <2>1. i \in Slots /\ slots[i] \in SlotType /\ nextId \in Nat
    BY <1>7, GrabbedIsFree DEF RecvNew, TypeOK
  <2>2. datagrams' \in 0..MaxDatagrams /\ nextId' \in 0..MaxDatagrams /\ nextId' <= datagrams'
    BY <1>7 DEF RecvNew, Receives, TypeOK, IdsAreCounted
  <2>3. CASE e = NoEntry
    <3>1. /\ slots' = [slots EXCEPT ![i] = [grabbed EXCEPT !.used = FALSE,
                                             !.entry = slots[i].entry]]
          /\ UNCHANGED <<table, connected, seen>>
      BY <1>7, <2>3 DEF RecvNew
    <3>2. /\ [grabbed EXCEPT !.used = FALSE, !.entry = slots[i].entry] \in SlotType
          /\ [grabbed EXCEPT !.used = FALSE, !.entry = slots[i].entry].used = FALSE
      BY <2>1 DEF SlotType, HostDetails
    <3>3. slots' \in [Slots -> SlotType] /\ \A j \in Used' : slots'[j].client \in Keys
      BY <2>1, <3>1, <3>2 DEF TypeOK, Used
    <3> QED BY <1>7, <2>2, <3>1, <3>3 DEF RecvNew, Receives, TypeOK, IdsAreCounted
  <2>4. CASE e # NoEntry
    <3>1. /\ slots' = [slots EXCEPT ![i] = Accessed(grabbed)]
          /\ table' = SetItem(table, c, nextId)
          /\ connected' = [connected EXCEPT ![i] = c]
          /\ seen' = [from |-> c, slot |-> i]
      BY <1>7, <2>4 DEF RecvNew
    <3>2. e \in Entries
      BY <1>7, <2>4, SetItemResult DEF RecvNew
    <3>3. grabbed \in SlotType /\ grabbed.client = c
      BY <2>1, <3>2 DEF SlotType, HostDetails
    <3>4. slots' \in [Slots -> SlotType] /\ \A j \in Used' : slots'[j].client \in Keys
      <4> HIDE DEF grabbed
      <4>1. Accessed(grabbed) \in SlotType /\ Accessed(grabbed).client = c
        BY <3>3, SlotAccessed
      <4> QED BY <2>1, <3>1, <4>1 DEF TypeOK, Used
    <3>5. table' \in [Entries -> [key : Keys \cup {NoKey}, value : Nat]]
      BY <2>1, <3>1, <3>2 DEF SetItem, TypeOK
    <3> QED BY <1>7, <2>1, <2>2, <3>1, <3>4, <3>5
            DEF RecvNew, Receives, TypeOK, IdsAreCounted
  <2> QED BY <2>3, <2>4
<1>8. ASSUME NEW c \in Keys, RecvWild(c) \/ RecvRefused(c)
      PROVE  TypeOK' /\ IdsAreCounted'
  <2>1. wild' \in BOOLEAN
    BY <1>8 DEF RecvWild, RecvRefused, TypeOK
  <2>2. /\ UNCHANGED <<phase, elapsed, replies, restarts, slots, table, nextId, connected,
                       seen>>
        /\ datagrams' = datagrams + 1 /\ datagrams < MaxDatagrams
    BY <1>8 DEF RecvWild, RecvRefused, Receives
  <2> QED BY <2>1, <2>2 DEF TypeOK, IdsAreCounted, Used
<1>9. CASE OnTimer
  <2>1. slots' \in [Slots -> SlotType] /\ \A i \in Used' : slots'[i].client \in Keys
    BY <1>9, SlotReleased DEF OnTimer, TypeOK, Used, Expired
  <2>2. table' \in [Entries -> [key : Keys \cup {NoKey}, value : Nat]]
    BY <1>9 DEF OnTimer, TypeOK, Released
  <2>3. connected' \in [Slots -> Keys \cup {Nobody}]
    BY <1>9 DEF OnTimer, TypeOK
  <2>4. /\ elapsed' = 0
        /\ UNCHANGED <<phase, nextId, seen, replies, wild, datagrams, restarts>>
    BY <1>9 DEF OnTimer
  <2> QED BY <2>1, <2>2, <2>3, <2>4 DEF TypeOK, IdsAreCounted
<1>10. CASE Tick
  <2>1. \A i \in Slots : Min({slots[i].age + 1, Expire}) \in 0..Expire
    BY AgeBounded DEF TypeOK, SlotType
  <2>2. slots' = [i \in Slots |-> [slots[i] EXCEPT !.age = Min({slots[i].age + 1, Expire})]]
    BY <1>10 DEF Tick
  <2>3. \A i \in Slots : /\ slots'[i] \in SlotType
                          /\ slots'[i].used = slots[i].used
                          /\ slots'[i].client = slots[i].client
    <3> TAKE i \in Slots
    <3>1. slots[i] \in SlotType /\ Min({slots[i].age + 1, Expire}) \in 0..Expire
      BY <2>1 DEF TypeOK
    <3>2. slots'[i] = [slots[i] EXCEPT !.age = Min({slots[i].age + 1, Expire})]
      BY <2>2, Zenon
    <3> HIDE DEF Min
    <3> QED BY <3>1, <3>2, SlotAged
  <2>5. slots' \in [Slots -> SlotType] /\ \A i \in Used' : slots'[i].client \in Keys
    BY <2>2, <2>3 DEF TypeOK, Used
  <2>4. /\ elapsed' \in 0..Expire
        /\ UNCHANGED <<phase, table, nextId, connected, seen, replies, wild, datagrams,
                       restarts>>
    BY <1>10 DEF Tick, TypeOK
  <2> QED BY <2>4, <2>5 DEF TypeOK, IdsAreCounted
<1>11. CASE ReplyMsg
  BY <1>11 DEF ReplyMsg, TypeOK, IdsAreCounted, Used
<1>13. CASE RecvError
  BY <1>13, InitialValues DEF RecvError, TypeOK, IdsAreCounted, Used
<1>12. CASE WriteTransport
  BY <1>12 DEF WriteTransport, TypeOK, IdsAreCounted, Used
<1> QED BY <1>1, <1>2, <1>3, <1>4, <1>5, <1>6, <1>7, <1>8, <1>9, <1>10, <1>11, <1>12,
           <1>13 DEF Next, Recv

(* The variables of UdpServer keep their types for every number of slots,  *)
(* clients and datagrams: nothing but an index past the array, which wild  *)
(* records, leaves them.                                                   *)
THEOREM TypeCorrect == Spec => []TypeOK
<1>1. Spec => [](TypeOK /\ IdsAreCounted)
  BY InitTypeOK, NextTypeOK, PTL DEF Spec
<1> QED BY <1>1, PTL

-----------------------------------------------------------------------------
(* A server that is not started has no client, and it is started once it   *)
(* is initialized.                                                         *)
DownIsEmpty ==
    /\ phase \in {"down", "initialized"} => Used = {}
    /\ phase # "down" => restarts > 0

(* The inductive invariant of the two views: that a client has one slot is *)
(* what makes the entries of different slots different, so that releasing  *)
(* one of them leaves the others in the table.                             *)
ViewsInv == ViewsAgree /\ OneSlotPerClient /\ DownIsEmpty

(* The entry of a slot in use, field by field. *)
LEMMA EntryOfSlot ==
    ASSUME ViewsAgree, NEW i \in Used
    PROVE  /\ table[slots[i].entry].key = slots[i].client
           /\ table[slots[i].entry].value = slots[i].id
<1>1. table[slots[i].entry] = [key |-> slots[i].client, value |-> slots[i].id]
  BY Zenon DEF ViewsAgree
<1> QED BY <1>1

(* Slots in use have entries of their own. *)
LEMMA EntriesDiffer ==
    ASSUME ViewsAgree, OneSlotPerClient, NEW i \in Used, NEW j \in Used,
           slots[i].entry = slots[j].entry
    PROVE  i = j
  BY EntryOfSlot DEF OneSlotPerClient

(* A slot stands for the same client in both states. *)
SameSlot(i) ==
    /\ slots'[i].used = slots[i].used /\ slots'[i].client = slots[i].client
    /\ slots'[i].id = slots[i].id /\ slots'[i].entry = slots[i].entry

(* A step that changes nothing but ages keeps the views. *)
LEMMA ViewsQuiet ==
    ASSUME ViewsInv, UNCHANGED <<table, connected, restarts>>, \A i \in Slots : SameSlot(i),
           phase' \in {"down", "initialized"} => phase \in {"down", "initialized"},
           phase' = "down" <=> phase = "down"
    PROVE  ViewsInv'
<1>1. Used' = Used /\ \A i \in Used : SameSlot(i)
  BY DEF Used, SameSlot
<1>2. ViewsAgree'
  <2>1. /\ \A i \in Used' : table'[slots'[i].entry] =
                               [key |-> slots'[i].client, value |-> slots'[i].id]
        /\ \A e \in Entries : table'[e].key # NoKey => \E i \in Used' : slots'[i].entry = e
    BY <1>1 DEF ViewsInv, ViewsAgree, SameSlot
  <2>2. \A i \in Used' : connected'[i] = slots'[i].client
    BY <1>1 DEF ViewsInv, ViewsAgree, SameSlot
  <2>3. ~StoppedBefore' => \A i \in Slots \ Used' : connected'[i] = Nobody
    BY <1>1 DEF ViewsInv, ViewsAgree, StoppedBefore
  <2> QED BY <2>1, <2>2, <2>3 DEF ViewsAgree
<1>3. OneSlotPerClient'
  BY <1>1 DEF ViewsInv, OneSlotPerClient, SameSlot
<1> QED BY <1>1, <1>2, <1>3 DEF ViewsInv, DownIsEmpty

(* An empty array, an empty table and no connection announced. *)
LEMMA ViewsEmpty ==
    ASSUME Used = {}, table = EmptyTable, connected = [i \in Slots |-> Nobody],
           phase = "down"
    PROVE  ViewsInv
  BY DEF ViewsInv, ViewsAgree, OneSlotPerClient, DownIsEmpty, EmptyTable

LEMMA InitViews == Init => ViewsInv
<1> SUFFICES ASSUME Init PROVE ViewsInv
  OBVIOUS
<1>1. Used = {}
  BY InitialValues DEF Init, Used
<1> QED BY <1>1, ViewsEmpty DEF Init

(* onRecv for a new client: the slot, the entry and the connection appear  *)
(* together, and the entry was nobody's.                                   *)
LEMMA ViewsRecvNew ==
    ASSUME TypeOK, ViewsInv, NEW c \in Keys, RecvNew(c)
    PROVE  ViewsInv'
<1> DEFINE i == GrabConnectionData
           e == SetItemEntry(table, c)
           grabbed == [used |-> TRUE, client |-> HostDetails(c), id |-> nextId,
                       age |-> slots[i].age, entry |-> e]
<1>1. /\ i \in Slots \ Used /\ slots[i] \in SlotType /\ nextId \in Nat
      /\ phase' = "running" /\ UNCHANGED <<phase, restarts>>
  BY GrabbedIsFree DEF RecvNew, Receives, Serving, TypeOK
<1>2. CASE e = NoEntry
  <2>1. /\ slots' = [slots EXCEPT ![i] = [grabbed EXCEPT !.used = FALSE,
                                          !.entry = slots[i].entry]]
        /\ UNCHANGED <<table, connected>>
    BY <1>2 DEF RecvNew
  <2>2. \A j \in Slots : slots'[j].used = slots[j].used /\ (j # i => slots'[j] = slots[j])
    BY <1>1, <2>1 DEF TypeOK, Used, SlotType
  <2>3. Used' = Used /\ \A j \in Used : slots'[j] = slots[j]
    BY <1>1, <2>2 DEF Used
  <2> QED BY <1>1, <2>1, <2>3
          DEF ViewsInv, ViewsAgree, OneSlotPerClient, DownIsEmpty, StoppedBefore
<1>3. CASE e # NoEntry
  <2>1. /\ slots' = [slots EXCEPT ![i] = Accessed(grabbed)]
        /\ table' = [table EXCEPT ![e] = [key |-> c, value |-> nextId]]
        /\ connected' = [connected EXCEPT ![i] = c]
    BY <1>3 DEF RecvNew, SetItem
  <2>2. e \in Entries /\ table[e].key = NoKey
    BY <1>3, SetItemResult DEF RecvNew
  <2>3. \A f \in Entries : table[f].key # c
    BY GetItemResult DEF RecvNew
  <2>4. /\ slots'[i].used /\ slots'[i].client = c
        /\ slots'[i].id = nextId /\ slots'[i].entry = e
    <3>1. grabbed \in SlotType
      BY <1>1, <2>2 DEF SlotType, HostDetails
    <3>2. /\ grabbed.used /\ grabbed.client = c
          /\ grabbed.id = nextId /\ grabbed.entry = e
      BY DEF HostDetails
    <3>3. slots'[i] = Accessed(grabbed)
      BY <1>1, <2>1 DEF TypeOK
    <3> HIDE DEF grabbed
    <3> QED BY <3>1, <3>2, <3>3, SlotAccessed
  <2>5. Used' = Used \cup {i} /\ \A j \in Used : slots'[j] = slots[j] /\ j # i
    BY <1>1, <2>1, <2>4 DEF TypeOK, Used
  <2>6. \A j \in Used : slots[j].entry \in Entries /\ slots[j].entry # e /\ slots[j].client # c
    <3>1. \A j \in Used : slots[j].entry \in Entries
      BY DEF TypeOK, SlotType, Used
    <3>2. \A j \in Used : slots[j].client # NoKey
      BY NoKeyAssumption DEF TypeOK
    <3> QED BY <2>2, <2>3, <3>1, <3>2, EntryOfSlot DEF ViewsInv
  <2>7. /\ table'[e] = [key |-> c, value |-> nextId]
        /\ \A f \in Entries : f # e => table'[f] = table[f]
    BY <2>1, <2>2 DEF TypeOK
  <2>8. ViewsAgree'
    <3>1. \A j \in Used' : table'[slots'[j].entry] =
                              [key |-> slots'[j].client, value |-> slots'[j].id]
      BY <2>4, <2>5, <2>6, <2>7 DEF ViewsInv, ViewsAgree
    <3>2. \A f \in Entries : table'[f].key # NoKey => \E j \in Used' : slots'[j].entry = f
      BY <2>4, <2>5, <2>7 DEF ViewsInv, ViewsAgree
    <3>3. \A j \in Used' : connected'[j] = slots'[j].client
      BY <1>1, <2>1, <2>4, <2>5 DEF ViewsInv, ViewsAgree, TypeOK, Used
    <3>4. ~StoppedBefore' => \A j \in Slots \ Used' : connected'[j] = Nobody
      BY <1>1, <2>1, <2>5 DEF ViewsInv, ViewsAgree, TypeOK, StoppedBefore
    <3> QED BY <3>1, <3>2, <3>3, <3>4 DEF ViewsAgree
  <2>9. OneSlotPerClient'
    BY <2>4, <2>5, <2>6 DEF ViewsInv, OneSlotPerClient
  <2> QED BY <1>1, <2>8, <2>9 DEF ViewsInv, DownIsEmpty
<1> QED BY <1>2, <1>3

(* onTimer: a slot that stays in use keeps its entry. *)
LEMMA ViewsOnTimer ==
    ASSUME TypeOK, ViewsInv, OnTimer
    PROVE  ViewsInv'
<1>1. /\ slots' = [i \in Slots |-> IF i \in Expired
                                   THEN [slots[i] EXCEPT !.used = FALSE] ELSE slots[i]]
      /\ table' = Released(Expired)
      /\ connected' = [i \in Slots |-> IF i \in Expired THEN Nobody ELSE connected[i]]
      /\ phase' = "running" /\ Expired \subseteq Used /\ UNCHANGED <<phase, restarts>>
  BY DEF OnTimer, Serving, Expired
<1>2. Used' = Used \ Expired /\ \A i \in Used' : slots'[i] = slots[i]
  BY <1>1, SlotReleased DEF Used, TypeOK
<1>3. \A i \in Used' : slots[i].entry \in Entries /\ table'[slots[i].entry] = table[slots[i].entry]
  <2> TAKE i \in Used'
  <2>1. slots[i].entry \in Entries /\ i \in Used /\ i \notin Expired
    BY <1>2 DEF TypeOK, SlotType, Used
  <2>2. ~ \E j \in Expired : slots[j].entry = slots[i].entry
    BY <1>1, <2>1, EntriesDiffer DEF ViewsInv
  <2>3. \A e \in Entries : ~ (\E j \in Expired : slots[j].entry = e) => table'[e] = table[e]
    BY <1>1 DEF Released
  <2> QED BY <2>1, <2>2, <2>3
<1>4. ASSUME NEW e \in Entries, table'[e].key # NoKey
      PROVE  \E i \in Used' : slots'[i].entry = e
  <2>1. ~ (\E j \in Expired : slots[j].entry = e) /\ table'[e] = table[e]
    BY <1>1, <1>4 DEF Released, TypeOK
  <2>2. PICK i \in Used : slots[i].entry = e
    BY <1>4, <2>1 DEF ViewsInv, ViewsAgree
  <2> QED BY <1>2, <2>1, <2>2
<1>5. ViewsAgree'
  <2>1. \A j \in Used' : table'[slots'[j].entry] =
                            [key |-> slots'[j].client, value |-> slots'[j].id]
    BY <1>2, <1>3 DEF ViewsInv, ViewsAgree
  <2>2. \A j \in Used' : connected'[j] = slots'[j].client
    BY <1>1, <1>2 DEF ViewsInv, ViewsAgree, Used
  <2>3. ~StoppedBefore' => \A j \in Slots \ Used' : connected'[j] = Nobody
    BY <1>1, <1>2 DEF ViewsInv, ViewsAgree, StoppedBefore
  <2> QED BY <1>4, <2>1, <2>2, <2>3 DEF ViewsAgree
<1>6. OneSlotPerClient'
  BY <1>2 DEF ViewsInv, OneSlotPerClient
<1> QED BY <1>1, <1>5, <1>6 DEF ViewsInv, DownIsEmpty

(* Every action keeps the views in step. *)
LEMMA NextViews ==
    ASSUME TypeOK, ViewsInv, [Next]_vars
    PROVE  ViewsInv'
<1>1. CASE UNCHANGED vars \/ Start \/ Stop \/ RecvError \/ ReplyMsg \/ WriteTransport
  <2>1. UNCHANGED <<slots, table, connected, restarts>>
    BY <1>1 DEF vars, Start, Stop, RecvError, ReplyMsg, WriteTransport
  <2>2. /\ phase' \in {"down", "initialized"} => phase \in {"down", "initialized"}
        /\ phase' = "down" <=> phase = "down"
    BY <1>1 DEF vars, Start, Stop, RecvError, Serving, ReplyMsg, WriteTransport
  <2>3. \A i \in Slots : SameSlot(i)
    BY <2>1 DEF SameSlot
  <2> QED BY <2>1, <2>2, <2>3, ViewsQuiet
<1>2. CASE Initialize
  <2>1. Used = {} /\ table' = EmptyTable /\ connected' = connected
    BY <1>2 DEF Initialize, ViewsInv, DownIsEmpty
  <2>2. Used' = {}
    BY <1>2, <2>1, InitialValues DEF Initialize, Used
  <2>3. phase = "down" /\ restarts \in Nat /\ restarts' = restarts + 1
    BY <1>2, BoundsAssumption DEF Initialize, TypeOK
  <2>4. ~StoppedBefore' => ~StoppedBefore
    BY <2>3 DEF StoppedBefore
  <2>5. ~StoppedBefore' => \A i \in Slots \ Used' : connected'[i] = Nobody
    BY <2>1, <2>2, <2>4 DEF ViewsInv, ViewsAgree
  <2> QED BY <2>1, <2>2, <2>3, <2>5
          DEF ViewsInv, ViewsAgree, OneSlotPerClient, DownIsEmpty, EmptyTable
<1>3. CASE Terminate
  <2>1. Used' = {}
    BY <1>3, SlotReleased DEF Terminate, Used, TypeOK
  <2>2. StoppedBefore' /\ phase' = "down" /\ table' = EmptyTable
    BY <1>3 DEF Terminate, ViewsInv, DownIsEmpty, StoppedBefore
  <2> QED BY <2>1, <2>2
          DEF ViewsInv, ViewsAgree, OneSlotPerClient, DownIsEmpty, EmptyTable
<1>4. ASSUME NEW c \in Keys, RecvKnown(c)
      PROVE  ViewsInv'
  <2> DEFINE k == table[GetItem(table, c)].value
  <2>1. /\ k \in Slots /\ slots' = [slots EXCEPT ![k] = Accessed(slots[k])]
        /\ UNCHANGED <<table, connected, phase, restarts>>
    BY <1>4 DEF RecvKnown, Receives
  <2>2. \A i \in Slots : SameSlot(i)
    BY <2>1, SlotAccessed DEF SameSlot, TypeOK
  <2> QED BY <2>1, <2>2, ViewsQuiet
<1>5. ASSUME NEW c \in Keys, RecvWild(c) \/ RecvRefused(c)
      PROVE  ViewsInv'
  BY <1>5, ViewsQuiet DEF RecvWild, RecvRefused, Receives, SameSlot
<1>6. CASE Tick
  <2>1. slots' = [i \in Slots |-> [slots[i] EXCEPT !.age = Min({slots[i].age + 1, Expire})]]
    BY <1>6 DEF Tick
  <2>2. ASSUME NEW i \in Slots
        PROVE  SameSlot(i)
    <3>1. slots'[i] = [slots[i] EXCEPT !.age = Min({slots[i].age + 1, Expire})]
      BY <2>1, Zenon
    <3>2. slots[i] \in SlotType
      BY DEF TypeOK
    <3> QED BY <3>1, <3>2 DEF SameSlot, SlotType
  <2> QED BY <1>6, <2>2, ViewsQuiet DEF Tick
<1> QED BY <1>1, <1>2, <1>3, <1>4, <1>5, <1>6, ViewsRecvNew, ViewsOnTimer DEF Next, Recv

(* TypeOK and the views hold together. *)
LEMMA ViewsInvariant == Spec => [](TypeOK /\ ViewsInv)
<1>1. Init => TypeOK /\ IdsAreCounted /\ ViewsInv
  BY InitTypeOK, InitViews
<1>2. TypeOK /\ IdsAreCounted /\ ViewsInv /\ [Next]_vars => (TypeOK /\ IdsAreCounted /\ ViewsInv)'
  BY NextTypeOK, NextViews
<1>3. Spec => [](TypeOK /\ IdsAreCounted /\ ViewsInv)
  BY <1>1, <1>2, PTL DEF Spec
<1> QED BY <1>3, PTL

(* The slot array and the address table agree, and the listener was told   *)
(* of every client in them, for every hash function and every number of    *)
(* slots, over expiry, refusal, a failed initialise and restart; it knows  *)
(* of no others until the server is terminated.                            *)
THEOREM ViewsAlwaysAgree == Spec => []ViewsAgree
<1>1. ViewsInv => ViewsAgree
  BY DEF ViewsInv
<1> QED BY <1>1, ViewsInvariant, PTL

(* No client ever has two slots: getItem finds its entry behind any hole   *)
(* that onTimer left in the probe sequence.                                *)
THEOREM ClientsHaveOneSlot == Spec => []OneSlotPerClient
<1>1. ViewsInv => OneSlotPerClient
  BY DEF ViewsInv
<1> QED BY <1>1, ViewsInvariant, PTL

-----------------------------------------------------------------------------
(* Where every slot that was ever taken is still in use, the ids are the   *)
(* indexes: slots were taken in the order of the array.                    *)
IdsAreIndexes == Used = 0..(nextId - 1) /\ \A i \in Used : slots[i].id = i

(* What the listener was told, and its replies, lead to slots in use that  *)
(* belong to the client.                                                   *)
AnswersLeadHome ==
    /\ seen.from # Nobody => seen.slot \in Used /\ slots[seen.slot].client = seen.from
    /\ \A n \in DOMAIN replies :
           replies[n].slot \in Used /\ slots[replies[n].slot].client = replies[n].from

(* Stop takes back the replies; there are none until the server runs.      *)
QuietUnlessRunning == phase # "running" => seen.from = Nobody /\ replies = <<>>

(* The inductive invariant of the answers. *)
AnswersInv ==
    /\ QuietUnlessRunning
    /\ Cardinality(Used) <= nextId
    /\ nextId = Cardinality(Used) => ~wild /\ IdsAreIndexes /\ AnswersLeadHome

(* The slots in use are finitely many, and a set of slots that fills an    *)
(* interval from 0 continues with its length.                              *)
LEMMA UsedFinite ==
    IsFiniteSet(Used) /\ Cardinality(Used) \in Nat
<1>1. IsFiniteSet(Slots)
  BY ConnectionsAssumption, FS_Interval DEF Slots
<1>2. Used \in SUBSET Slots
  BY DEF Used
<1> QED BY <1>1, <1>2, FS_Subset, FS_CardinalityType

LEMMA NextFreeSlot ==
    ASSUME Used # Slots, NEW n \in Nat, Used = 0..(n - 1)
    PROVE  GrabConnectionData = n
<1>1. GrabConnectionData \in Slots \ Used
  BY GrabbedIsFree
<1>2. \A y \in Slots \ Used : GrabConnectionData <= y
  <2>1. Slots \ Used \in SUBSET Nat
    BY ConnectionsAssumption DEF Slots
  <2>2. Slots \ Used # {}
    BY <1>1
  <2> QED BY <2>1, <2>2, MinIsLeast DEF GrabConnectionData
<1>3. GrabConnectionData \in Nat /\ GrabConnectionData >= n
  BY <1>1, ConnectionsAssumption DEF Slots
<1>4. n \in Slots \ Used
  BY <1>1, <1>3, ConnectionsAssumption DEF Slots
<1> QED BY <1>2, <1>3, <1>4

(* A step that leaves slots, counter and answers alone. *)
LEMMA AnswersQuiet ==
    ASSUME AnswersInv, QuietUnlessRunning', UNCHANGED <<nextId, wild>>,
           \A i \in Slots : SameSlot(i),
           AnswersLeadHome => AnswersLeadHome'
    PROVE  AnswersInv'
<1>1. Used' = Used /\ \A i \in Used : slots'[i].id = slots[i].id
  BY DEF Used, SameSlot
<1> QED BY <1>1 DEF AnswersInv, IdsAreIndexes

LEMMA InitAnswers == Init => AnswersInv
<1> SUFFICES ASSUME Init PROVE AnswersInv
  OBVIOUS
<1>1. Used = {}
  BY InitialValues DEF Init, Used
<1>2. Cardinality(Used) = 0
  BY <1>1, FS_EmptySet
<1>3. QuietUnlessRunning /\ AnswersLeadHome
  BY DEF Init, QuietUnlessRunning, AnswersLeadHome
<1>4. nextId = 0 /\ ~wild
  BY DEF Init
<1> QED BY <1>1, <1>2, <1>3, <1>4 DEF AnswersInv, IdsAreIndexes

(* A known client: its entry is the entry of one of the slots in use. *)
LEMMA KnownClient ==
    ASSUME TypeOK, ViewsInv, NEW c \in Keys, GetItem(table, c) # NoEntry
    PROVE  \E j \in Used : /\ slots[j].client = c
                           /\ table[GetItem(table, c)].value = slots[j].id
<1> DEFINE e == GetItem(table, c)
<1>1. e \in Entries /\ table[e].key = c /\ c # NoKey
  BY GetItemResult, NoKeyAssumption
<1>2. PICK j \in Used : slots[j].entry = e
  BY <1>1 DEF ViewsInv, ViewsAgree
<1> QED BY <1>1, <1>2, EntryOfSlot DEF ViewsInv

(* onRecv for a new client. *)
LEMMA AnswersRecvNew ==
    ASSUME TypeOK, ViewsInv, AnswersInv, NEW c \in Keys,
           RecvNew(c)
    PROVE  AnswersInv'
<1> DEFINE i == GrabConnectionData
           e == SetItemEntry(table, c)
           grabbed == [used |-> TRUE, client |-> HostDetails(c), id |-> nextId,
                       age |-> slots[i].age, entry |-> e]
<1>1. i \in Slots \ Used /\ slots[i] \in SlotType /\ nextId \in Nat /\ nextId' = nextId + 1
  BY GrabbedIsFree DEF RecvNew, TypeOK
<1>2. QuietUnlessRunning' /\ UNCHANGED <<wild, replies>>
  BY DEF RecvNew, Receives, Serving, QuietUnlessRunning
<1>3. CASE e = NoEntry
  <2>1. slots' = [slots EXCEPT ![i] = [grabbed EXCEPT !.used = FALSE, !.entry = slots[i].entry]]
    BY <1>3 DEF RecvNew
  <2>2. Used' = Used
    BY <1>1, <2>1 DEF TypeOK, Used, SlotType
  <2>3. Cardinality(Used)' < nextId'
    BY <1>1, <2>2, UsedFinite DEF AnswersInv
  <2> QED BY <1>1, <1>2, <2>2, <2>3, UsedFinite DEF AnswersInv
<1>4. CASE e # NoEntry
  <2>1. /\ slots' = [slots EXCEPT ![i] = Accessed(grabbed)]
        /\ seen' = [from |-> c, slot |-> i]
    BY <1>4 DEF RecvNew
  <2>2. e \in Entries
    BY <1>4, SetItemResult DEF RecvNew
  <2>3. slots'[i].used /\ slots'[i].client = c /\ slots'[i].id = nextId
    <3>1. grabbed \in SlotType
      BY <1>1, <2>2 DEF SlotType, HostDetails
    <3>2. grabbed.used /\ grabbed.client = c /\ grabbed.id = nextId
      BY DEF HostDetails
    <3>3. slots'[i] = Accessed(grabbed)
      BY <1>1, <2>1 DEF TypeOK
    <3> HIDE DEF grabbed
    <3> QED BY <3>1, <3>2, <3>3, SlotAccessed
  <2>4. Used' = Used \cup {i} /\ \A j \in Used : slots'[j] = slots[j] /\ j # i
    BY <1>1, <2>1, <2>3 DEF TypeOK, Used
  <2>5. Cardinality(Used') = Cardinality(Used) + 1 /\ Cardinality(Used) \in Nat
    BY <1>1, <2>4, UsedFinite, FS_AddElement
  <2>6. Cardinality(Used)' = Cardinality(Used')
    OBVIOUS
  <2>7. ASSUME nextId = Cardinality(Used)
        PROVE  ~wild' /\ IdsAreIndexes' /\ AnswersLeadHome'
    <3>1. ~wild /\ IdsAreIndexes /\ AnswersLeadHome
      BY <2>7 DEF AnswersInv
    <3>2. i = nextId
      BY <1>1, <3>1, NextFreeSlot DEF IdsAreIndexes
    <3>3. Used' = 0..(nextId' - 1)
      BY <1>1, <2>4, <3>1, <3>2 DEF IdsAreIndexes
    <3>4. \A j \in Used' : slots'[j].id = j
      BY <2>3, <2>4, <3>1, <3>2 DEF IdsAreIndexes
    <3>5. AnswersLeadHome'
      <4>1. seen'.slot \in Used' /\ slots'[seen'.slot].client = seen'.from
        BY <2>1, <2>3, <2>4
      <4>2. \A n \in DOMAIN replies' : /\ replies'[n].slot \in Used'
                                       /\ slots'[replies'[n].slot].client = replies'[n].from
        BY <1>2, <2>4, <3>1 DEF AnswersLeadHome
      <4> QED BY <4>1, <4>2 DEF AnswersLeadHome
    <3> QED BY <1>2, <3>1, <3>3, <3>4, <3>5 DEF IdsAreIndexes
  <2>8. Cardinality(Used)' <= nextId'
    BY <1>1, <2>5, <2>6 DEF AnswersInv
  <2>9. nextId' = Cardinality(Used)' => nextId = Cardinality(Used)
    BY <1>1, <2>5, <2>6
  <2> QED BY <1>2, <2>7, <2>8, <2>9 DEF AnswersInv
<1> QED BY <1>3, <1>4

(* onTimer: once a slot has been released, the counter is ahead for good.  *)
LEMMA AnswersOnTimer ==
    ASSUME TypeOK, AnswersInv, OnTimer
    PROVE  AnswersInv'
<1>1. /\ slots' = [i \in Slots |-> IF i \in Expired
                                   THEN [slots[i] EXCEPT !.used = FALSE] ELSE slots[i]]
      /\ UNCHANGED <<phase, nextId, seen, replies, wild>>
      /\ Expired \subseteq Used
  BY DEF OnTimer, Expired
<1>2. Used' = Used \ Expired /\ nextId \in Nat
  BY <1>1, SlotReleased DEF Used, TypeOK
<1>3. QuietUnlessRunning'
  BY <1>1 DEF AnswersInv, QuietUnlessRunning
<1>4. CASE Expired = {}
  <2>1. \A i \in Slots : SameSlot(i)
    BY <1>1, <1>4 DEF SameSlot
  <2>2. AnswersLeadHome => AnswersLeadHome'
    BY <1>1, <1>2, <1>4 DEF AnswersLeadHome, Used
  <2> QED BY <1>1, <1>3, <2>1, <2>2, AnswersQuiet
<1>5. CASE Expired # {}
  <2>1. Used' # Used /\ Used' \in SUBSET Used
    BY <1>1, <1>2, <1>5
  <2>2. Cardinality(Used') < Cardinality(Used) /\ Cardinality(Used') \in Nat
    BY <2>1, UsedFinite, FS_Subset, FS_CardinalityType
  <2>3. Cardinality(Used)' = Cardinality(Used')
    OBVIOUS
  <2>4. Cardinality(Used)' < nextId' /\ Cardinality(Used)' \in Nat
    BY <1>1, <1>2, <2>2, <2>3, UsedFinite DEF AnswersInv
  <2> QED BY <1>1, <1>2, <1>3, <2>4 DEF AnswersInv
<1> QED BY <1>4, <1>5

(* Every action keeps the answers. *)
LEMMA NextAnswers ==
    ASSUME TypeOK, ViewsInv, AnswersInv, [Next]_vars
    PROVE  AnswersInv'
<1>1. CASE UNCHANGED vars
  <2>1. QuietUnlessRunning' /\ (AnswersLeadHome => AnswersLeadHome')
    BY <1>1 DEF vars, AnswersInv, QuietUnlessRunning, AnswersLeadHome, Used
  <2> QED BY <1>1, <2>1, AnswersQuiet DEF vars, SameSlot
<1>2. CASE Initialize
  <2>1. Used = {} /\ seen'.from = Nobody /\ replies' = <<>> /\ UNCHANGED <<nextId, wild>>
    BY <1>2 DEF Initialize, ViewsInv, DownIsEmpty, AnswersInv, QuietUnlessRunning
  <2>2. Used' = {}
    BY <1>2, <2>1, InitialValues DEF Initialize, Used
  <2>3. QuietUnlessRunning' /\ AnswersLeadHome'
    BY <2>1 DEF QuietUnlessRunning, AnswersLeadHome
  <2> QED BY <2>1, <2>2, <2>3 DEF AnswersInv, IdsAreIndexes
<1>3. CASE Start \/ Stop \/ RecvError
  <2>1. UNCHANGED <<slots, nextId, wild>>
    BY <1>3 DEF Start, Stop, RecvError
  <2>2. QuietUnlessRunning' /\ (AnswersLeadHome => AnswersLeadHome')
    BY <1>3 DEF Start, Stop, RecvError, AnswersInv, QuietUnlessRunning, AnswersLeadHome, Used
  <2> QED BY <2>1, <2>2, AnswersQuiet DEF SameSlot
<1>4. CASE Terminate
  <2>1. Used' = {}
    BY <1>4, SlotReleased DEF Terminate, Used, TypeOK
  <2>2. /\ seen'.from = Nobody /\ replies' = <<>> /\ UNCHANGED <<nextId, wild>>
        /\ nextId \in Nat
    BY <1>4 DEF Terminate, AnswersInv, QuietUnlessRunning, TypeOK
  <2>3. QuietUnlessRunning' /\ AnswersLeadHome'
    BY <2>2 DEF QuietUnlessRunning, AnswersLeadHome
  <2>4. Cardinality(Used)' = 0
    BY <2>1, FS_EmptySet
  <2>5. ASSUME nextId = 0
        PROVE  ~wild
    <3>1. Cardinality(Used) = 0
      BY <2>5, UsedFinite DEF AnswersInv
    <3> QED BY <2>5, <3>1 DEF AnswersInv
  <2> QED BY <2>1, <2>2, <2>3, <2>4, <2>5 DEF AnswersInv, IdsAreIndexes
<1>5. ASSUME NEW c \in Keys, RecvKnown(c)
      PROVE  AnswersInv'
  <2> DEFINE k == table[GetItem(table, c)].value
  <2>1. /\ k \in Slots /\ slots' = [slots EXCEPT ![k] = Accessed(slots[k])]
        /\ UNCHANGED <<phase, nextId, wild, replies>> /\ phase = "running"
        /\ seen' = [from |-> c, slot |-> k]
        /\ GetItem(table, c) # NoEntry
    BY <1>5 DEF RecvKnown, Receives, Serving
  <2>2. \A i \in Slots : SameSlot(i)
    BY <2>1, SlotAccessed DEF SameSlot, TypeOK
  <2>3. PICK j \in Used : slots[j].client = c /\ k = slots[j].id
    BY <2>1, KnownClient
  <2>4. Used' = Used /\ \A i \in Used : slots'[i].id = slots[i].id /\ slots'[i].client = slots[i].client
    BY <2>2 DEF Used, SameSlot
  <2>5. ASSUME nextId = Cardinality(Used)
        PROVE  ~wild /\ IdsAreIndexes /\ AnswersLeadHome'
    <3>1. ~wild /\ IdsAreIndexes /\ AnswersLeadHome
      BY <2>5 DEF AnswersInv
    <3>2. k = j
      BY <2>3, <3>1 DEF IdsAreIndexes
    <3>3. seen'.slot \in Used' /\ slots'[seen'.slot].client = seen'.from
      BY <2>1, <2>3, <2>4, <3>2
    <3>4. \A n \in DOMAIN replies' : /\ replies'[n].slot \in Used'
                                     /\ slots'[replies'[n].slot].client = replies'[n].from
      BY <2>1, <2>4, <3>1 DEF AnswersLeadHome
    <3> QED BY <3>1, <3>3, <3>4 DEF AnswersLeadHome
  <2>6. QuietUnlessRunning'
    BY <2>1 DEF QuietUnlessRunning
  <2> QED BY <2>1, <2>4, <2>5, <2>6 DEF AnswersInv, IdsAreIndexes
<1>6. ASSUME NEW c \in Keys, RecvWild(c)
      PROVE  AnswersInv'
  <2>1. /\ table[GetItem(table, c)].value \notin Slots /\ GetItem(table, c) # NoEntry
        /\ UNCHANGED <<phase, slots, nextId, seen, replies>>
    BY <1>6 DEF RecvWild, Receives
  <2>2. PICK j \in Used : table[GetItem(table, c)].value = slots[j].id
    BY <2>1, KnownClient
  <2>3. j \in Slots /\ slots[j].id # j
    BY <2>1, <2>2 DEF Used
  <2>4. nextId # Cardinality(Used)
    BY <2>3 DEF AnswersInv, IdsAreIndexes
  <2>5. Used' = Used
    BY <2>1 DEF Used
  <2> QED BY <2>1, <2>4, <2>5 DEF AnswersInv, QuietUnlessRunning
<1>7. ASSUME NEW c \in Keys, RecvRefused(c)
      PROVE  AnswersInv'
  <2>1. UNCHANGED <<phase, slots, nextId, wild, seen, replies>>
    BY <1>7 DEF RecvRefused, Receives
  <2>2. QuietUnlessRunning' /\ (AnswersLeadHome => AnswersLeadHome')
    BY <2>1 DEF AnswersInv, QuietUnlessRunning, AnswersLeadHome, Used
  <2> QED BY <2>1, <2>2, AnswersQuiet DEF SameSlot
<1>8. CASE Tick
  <2>1. /\ slots' = [i \in Slots |-> [slots[i] EXCEPT !.age = Min({slots[i].age + 1, Expire})]]
        /\ UNCHANGED <<phase, nextId, wild, seen, replies>>
    BY <1>8 DEF Tick
  <2>2. ASSUME NEW i \in Slots
        PROVE  SameSlot(i)
    <3>1. slots'[i] = [slots[i] EXCEPT !.age = Min({slots[i].age + 1, Expire})]
      BY <2>1, Zenon
    <3>2. slots[i] \in SlotType
      BY DEF TypeOK
    <3> QED BY <3>1, <3>2 DEF SameSlot, SlotType
  <2>3. Used' = Used /\ \A i \in Used : slots'[i].client = slots[i].client
    BY <2>2 DEF Used, SameSlot
  <2>4. QuietUnlessRunning' /\ (AnswersLeadHome => AnswersLeadHome')
    BY <2>1, <2>3 DEF AnswersInv, QuietUnlessRunning, AnswersLeadHome
  <2> QED BY <2>1, <2>2, <2>4, AnswersQuiet
<1>9. CASE ReplyMsg
  <2>1. /\ UNCHANGED <<slots, nextId, wild, seen>> /\ phase' = "running"
        /\ seen.from # Nobody /\ replies' = Append(replies, seen)
        /\ replies \in Seq([from : Keys, slot : Slots])
    BY <1>9 DEF ReplyMsg, Serving, TypeOK
  <2>2. /\ DOMAIN replies = 1..Len(replies) /\ Len(replies) \in Nat
        /\ DOMAIN replies' = 1..(Len(replies) + 1)
        /\ \A n \in 1..Len(replies) : replies'[n] = replies[n]
        /\ replies'[Len(replies) + 1] = seen
    BY <2>1
  <2>3. AnswersLeadHome => AnswersLeadHome'
    BY <2>1, <2>2 DEF AnswersLeadHome, Used
  <2> QED BY <2>1, <2>3, AnswersQuiet DEF SameSlot, QuietUnlessRunning
<1>10. CASE WriteTransport
  <2>1. /\ UNCHANGED <<slots, nextId, wild, seen>> /\ phase' = "running"
        /\ replies # <<>> /\ replies' = Tail(replies)
        /\ replies \in Seq([from : Keys, slot : Slots])
    BY <1>10 DEF WriteTransport, Serving, TypeOK
  <2>2. /\ DOMAIN replies = 1..Len(replies) /\ Len(replies) \in Nat
        /\ DOMAIN replies' = 1..(Len(replies) - 1)
        /\ \A n \in 1..(Len(replies) - 1) : replies'[n] = replies[n + 1]
    BY <2>1
  <2>3. AnswersLeadHome => AnswersLeadHome'
    BY <2>1, <2>2 DEF AnswersLeadHome, Used
  <2> QED BY <2>1, <2>3, AnswersQuiet DEF SameSlot, QuietUnlessRunning
<1> QED BY <1>1, <1>2, <1>3, <1>4, <1>5, <1>6, <1>7, <1>8, <1>9, <1>10,
           AnswersRecvNew, AnswersOnTimer DEF Next, Recv

(* As long as no slot has ever been released, onRecv hands a datagram to   *)
(* the listener with the slot of its sender, never leaves the array, and   *)
(* writeTransport sends each reply to the client it answers: the           *)
(* connection id, which the table holds, is then the index of the slot.    *)
THEOREM UnexpiredAlwaysAnswered == Spec => []UnexpiredAreAnswered
<1>1. Init => TypeOK /\ IdsAreCounted /\ ViewsInv /\ AnswersInv
  BY InitTypeOK, InitViews, InitAnswers
<1>2. TypeOK /\ IdsAreCounted /\ ViewsInv /\ AnswersInv /\ [Next]_vars
          => (TypeOK /\ IdsAreCounted /\ ViewsInv /\ AnswersInv)'
  BY NextTypeOK, NextViews, NextAnswers
<1>3. AnswersInv => UnexpiredAreAnswered
  BY DEF AnswersInv, AnswersLeadHome, UnexpiredAreAnswered, Destination
<1> QED BY <1>1, <1>2, <1>3, PTL DEF Spec

-----------------------------------------------------------------------------
(* The table has an entry for a client that finds a slot. *)
TableHasRoom == \A c \in Keys : SetItemEntry(table, c) # NoEntry

(* The table is never full, so the error path of onRecv for a setItem that *)
(* fails is dead: entries are those of slots in use, and                   *)
(* COMMUTIL_UDP_CONN_MAP_FACTOR makes the table larger than the array.     *)
THEOREM TableIsNeverFull == Spec => []TableHasRoom
<1>1. ASSUME TypeOK, ViewsInv, NEW c \in Keys, SetItemEntry(table, c) = NoEntry
      PROVE  FALSE
  <2> DEFINE slotOf == [e \in Entries |-> CHOOSE i \in Used : slots[i].entry = e]
  <2>1. \A e \in Entries : \E i \in Used : slots[i].entry = e
    BY <1>1, SearchResult DEF SetItemEntry, ViewsInv, ViewsAgree
  <2>2. \A e \in Entries : slotOf[e] \in Used /\ slots[slotOf[e]].entry = e
    BY <2>1
  <2>3. IsFiniteSet(Entries) /\ Cardinality(Entries) = Size
    BY SizeType, FS_Interval DEF Entries
  <2>4. Cardinality(Used) <= MaxConnections
    <3>1. IsFiniteSet(Slots) /\ Cardinality(Slots) = MaxConnections
      BY ConnectionsAssumption, FS_Interval DEF Slots
    <3>2. Used \in SUBSET Slots
      BY DEF Used
    <3> QED BY <3>1, <3>2, FS_Subset
  <2>5. Cardinality(Used) < Cardinality(Entries)
    BY <2>3, <2>4, UsedFinite, SizeType, ConnectionsAssumption, FactorAssumption
  <2>6. slotOf \in [Entries -> Used]
    BY <2>2
  <2> HIDE DEF slotOf
  <2>7. \E e, f \in Entries : e # f /\ slotOf[e] = slotOf[f]
    BY <2>3, <2>5, <2>6, UsedFinite, FS_PigeonHole
  <2> QED BY <2>2, <2>7
<1>2. TypeOK /\ ViewsInv => TableHasRoom
  BY <1>1 DEF TableHasRoom
<1> QED BY <1>2, ViewsInvariant, PTL
=============================================================================
