---------------------------- MODULE MsgSender_proofs ----------------------------
(***************************************************************************)
(* Proofs about MsgSender.tla, for every number of threads, slots and      *)
(* messages, all periods and limits and every modulus of the size counter: *)
(* its type invariant, and that an accepted message is kept until          *)
(* something explains why it is not.                                       *)
(***************************************************************************)
EXTENDS MsgSender, WellFoundedInduction, TLAPS

(* The request ids that were handed out. *)
Issued == 0 .. nextRequestId - 1

(* An id belongs to one call, until its write is accepted; only accepted   *)
(* messages are written, answered or kept.                                 *)
IdsInv ==
    /\ accepted \subseteq Issued
    /\ \A t \in Threads : pc[t] \in {"grab", "fill"} => call[t].id \in Issued \ accepted
    /\ \A t, u \in Threads :
          /\ pc[t] \in {"grab", "fill"} /\ pc[u] \in {"grab", "fill"}
          /\ call[t].id = call[u].id
          => t = u
    /\ \A t \in Threads : pc[t] = "wait" => call[t].id \in accepted
    /\ \A p \in DOMAIN backlog : backlog[p].id \in accepted
    /\ \A e \in wire : e.id \in accepted
    /\ \A w \in outbox : w.id \in accepted

(* A slot that was taken and has got no answer. *)
Unanswered(slot) == slot.status \in {"RS_PENDING", "RS_ABORTED"}

(* Between taking and filling it a call has its slot, unless it was robbed. *)
FillersHaveSlots ==
    \A t \in Threads :
        pc[t] = "fill" /\ call[t].id \notin robbed
        => Slot(t).id = call[t].id /\ Unanswered(Slot(t))

(* Until the first write of a message its slot holds it and waits, and the *)
(* message is nowhere else.                                                *)
HeldSlot(w) ==
    /\ requests[w.index].id = w.id
    /\ requests[w.index].request = w.id
    /\ Unanswered(requests[w.index])

HeldForWrite(w) ==
    /\ HeldSlot(w)
    /\ \A e \in wire : e.id # w.id
    /\ ~ InBacklog(backlog, w.id)
    /\ \A v \in outbox : v.id = w.id => v = w

Gone == freed \cup pruned \cup robbed

WritesHaveSlots ==
    \A w \in outbox : ~ w.resend /\ w.id \notin Gone => HeldForWrite(w)

(* The inductive invariant of UnansweredIsKept. *)
KeptInv == IdsInv /\ FillersHaveSlots /\ WritesHaveSlots /\ UnansweredIsKept


-------------------------------------------------------------------------------
(* Sequences, minima and residues. *)

(* Every set of naturals with a member has a smallest one. *)
LEMMA SmallestMember ==
    ASSUME NEW T, T \subseteq Nat, T # {}
    PROVE  (CHOOSE i \in T : \A j \in T : i <= j) \in T
<1> DEFINE R == OpToRel(<, Nat)
<1>1. \A a, b \in Nat : a < b => <<a, b>> \in R
  BY DEF OpToRel
<1>2. IsWellFoundedOn(R, Nat)
  BY NatLessThanWellFounded
<1> HIDE DEF R
<1>3. PICK x \in T : \A y \in T : <<y, x>> \notin R
  BY <1>2, WFMin
<1>4. ASSUME NEW y \in T PROVE x <= y
  <2>1. x \in Nat /\ y \in Nat
    OBVIOUS
  <2>2. ~ (y < x)
    BY <1>1, <1>3, <2>1
  <2> QED
    BY <2>1, <2>2
<1> QED
  BY <1>3, <1>4

LEMMA Concatenated ==
    ASSUME NEW S, NEW s \in Seq(S), NEW t \in Seq(S)
    PROVE  /\ s \o t \in Seq(S)
           /\ Len(s \o t) = Len(s) + Len(t)
           /\ \A n \in 1 .. Len(s) + Len(t) :
                 (s \o t)[n] = IF n <= Len(s) THEN s[n] ELSE t[n - Len(s)]
  OBVIOUS

(* RemoveAt takes out one element and no other. *)
LEMMA RemoveAtFacts ==
    ASSUME NEW S, NEW s \in Seq(S), NEW p \in 1 .. Len(s)
    PROVE  /\ RemoveAt(s, p) \in Seq(S)
           /\ Len(RemoveAt(s, p)) = Len(s) - 1
           /\ \A n \in DOMAIN RemoveAt(s, p) :
                 \E m \in DOMAIN s : RemoveAt(s, p)[n] = s[m]
           /\ \A m \in DOMAIN s : 
                 m # p => \E n \in DOMAIN RemoveAt(s, p) : RemoveAt(s, p)[n] = s[m]
<1> DEFINE a == SubSeq(s, 1, p - 1)
           b == SubSeq(s, p + 1, Len(s))
           r == a \o b
<1>1. a \in Seq(S) /\ Len(a) = p - 1 /\ \A n \in 1 .. p - 1 : a[n] = s[n]
  OBVIOUS
<1>2. b \in Seq(S) /\ Len(b) = Len(s) - p /\ \A n \in 1 .. Len(s) - p : b[n] = s[n + p]
  OBVIOUS
<1>3. RemoveAt(s, p) = r
  BY DEF RemoveAt
<1> HIDE DEF a, b
<1>4. /\ r \in Seq(S) /\ Len(r) = Len(s) - 1
      /\ \A n \in 1 .. Len(a) + Len(b) : r[n] = IF n <= Len(a) THEN a[n] ELSE b[n - Len(a)]
  <2>1. a \in Seq(S) /\ b \in Seq(S)
    BY <1>1, <1>2
  <2>2. /\ r \in Seq(S) /\ Len(r) = Len(a) + Len(b)
        /\ \A n \in 1 .. Len(a) + Len(b) : r[n] = IF n <= Len(a) THEN a[n] ELSE b[n - Len(a)]
    BY <2>1, Concatenated
  <2> QED
    BY <1>1, <1>2, <2>2
<1> HIDE DEF r
<1>5. DOMAIN r = 1 .. Len(s) - 1 /\ DOMAIN s = 1 .. Len(s) /\ Len(s) \in Nat
  BY <1>4
<1>6. ASSUME NEW n \in 1 .. Len(s) - 1, n < p
      PROVE  r[n] = s[n]
  <2>1. n \in 1 .. p - 1 /\ n <= Len(a) /\ n \in 1 .. Len(a) + Len(b)
    BY <1>1, <1>2, <1>6
  <2> QED
    BY <1>1, <1>4, <2>1
<1>7. ASSUME NEW n \in 1 .. Len(s) - 1, ~ (n < p)
      PROVE  r[n] = s[n + 1]
  <2>1. /\ n - Len(a) \in 1 .. Len(s) - p /\ n - Len(a) + p = n + 1 /\ ~ (n <= Len(a))
        /\ n \in 1 .. Len(a) + Len(b)
    BY <1>1, <1>2, <1>7
  <2>2. r[n] = b[n - Len(a)]
    BY <1>4, <2>1
  <2> QED
    BY <1>2, <2>1, <2>2
<1>8. \A n \in DOMAIN r : \E m \in DOMAIN s : r[n] = s[m]
  BY <1>5, <1>6, <1>7
<1>9. ASSUME NEW m \in DOMAIN s, m # p
      PROVE  \E n \in DOMAIN r : r[n] = s[m]
  <2>1. CASE m < p
    BY <1>5, <1>6, <2>1
  <2>2. CASE m > p
    <3>1. m - 1 \in 1 .. Len(s) - 1 /\ ~ (m - 1 < p) /\ m - 1 + 1 = m
      BY <1>5, <2>2
    <3> QED
      BY <1>5, <1>7, <3>1
  <2> QED
    BY <1>5, <1>9, <2>1, <2>2
<1> QED
  BY <1>3, <1>4, <1>8, <1>9

(* InsertAt adds one element and keeps the others. *)
LEMMA InsertAtFacts ==
    ASSUME NEW S, NEW s \in Seq(S), NEW p \in 1 .. Len(s) + 1, NEW e \in S
    PROVE  /\ InsertAt(s, p, e) \in Seq(S)
           /\ Len(InsertAt(s, p, e)) = Len(s) + 1
           /\ \A n \in DOMAIN InsertAt(s, p, e) :
                 InsertAt(s, p, e)[n] = e \/ \E m \in DOMAIN s : InsertAt(s, p, e)[n] = s[m]
           /\ \A m \in DOMAIN s :
                 \E n \in DOMAIN InsertAt(s, p, e) : InsertAt(s, p, e)[n] = s[m]
           /\ \E n \in DOMAIN InsertAt(s, p, e) : InsertAt(s, p, e)[n] = e
<1> DEFINE a == SubSeq(s, 1, p - 1)
           b == SubSeq(s, p, Len(s))
           c == a \o <<e>>
           r == c \o b
<1>1. a \in Seq(S) /\ Len(a) = p - 1 /\ \A n \in 1 .. p - 1 : a[n] = s[n]
  OBVIOUS
<1>2. b \in Seq(S) /\ Len(b) = Len(s) - p + 1
      /\ \A n \in 1 .. Len(s) - p + 1 : b[n] = s[n + p - 1]
  OBVIOUS
<1>3. InsertAt(s, p, e) = r
  BY DEF InsertAt
<1>4. <<e>> \in Seq(S) /\ Len(<<e>>) = 1 /\ <<e>>[1] = e
  OBVIOUS
<1> HIDE DEF a, b
<1>5. /\ c \in Seq(S) /\ Len(c) = p
      /\ \A n \in 1 .. p - 1 : c[n] = s[n]
      /\ c[p] = e
  <2>1. /\ c \in Seq(S) /\ Len(c) = Len(a) + Len(<<e>>)
        /\ \A n \in 1 .. Len(a) + Len(<<e>>) :
              c[n] = IF n <= Len(a) THEN a[n] ELSE <<e>>[n - Len(a)]
    BY <1>1, <1>4, Concatenated
  <2>2. Len(c) = p
    BY <1>1, <1>4, <2>1
  <2>3. ASSUME NEW n \in 1 .. p - 1 PROVE c[n] = s[n]
    <3>1. n <= Len(a) /\ n \in 1 .. Len(a) + Len(<<e>>)
      BY <1>1, <1>4
    <3> QED
      BY <1>1, <2>1, <3>1
  <2>4. c[p] = e
    <3>1. ~ (p <= Len(a)) /\ p \in 1 .. Len(a) + Len(<<e>>) /\ p - Len(a) = 1
      BY <1>1, <1>4
    <3> QED
      BY <1>4, <2>1, <3>1
  <2> QED
    BY <2>1, <2>2, <2>3, <2>4
<1> HIDE DEF c
<1>6. /\ r \in Seq(S) /\ Len(r) = Len(s) + 1
      /\ \A n \in 1 .. Len(c) + Len(b) : r[n] = IF n <= Len(c) THEN c[n] ELSE b[n - Len(c)]
  BY <1>2, <1>5, Concatenated
<1> HIDE DEF r
<1>7. DOMAIN r = 1 .. Len(s) + 1 /\ DOMAIN s = 1 .. Len(s) /\ Len(s) \in Nat
  BY <1>6
<1>8. ASSUME NEW n \in 1 .. Len(s) + 1, n < p
      PROVE  r[n] = s[n] /\ n \in DOMAIN s
  BY <1>2, <1>5, <1>6, <1>7, <1>8
<1>9. r[p] = e
  BY <1>2, <1>5, <1>6
<1>10. ASSUME NEW n \in 1 .. Len(s) + 1, n > p
       PROVE  r[n] = s[n - 1] /\ n - 1 \in DOMAIN s
  <2>1. /\ n - Len(c) \in 1 .. Len(s) - p + 1 /\ n - Len(c) + p - 1 = n - 1
        /\ ~ (n <= Len(c)) /\ n \in 1 .. Len(c) + Len(b)
    BY <1>2, <1>5, <1>10
  <2>2. r[n] = b[n - Len(c)]
    BY <1>6, <2>1
  <2>3. b[n - Len(c)] = s[n - Len(c) + p - 1]
    BY <1>2, <2>1
  <2>4. n - 1 \in DOMAIN s
    BY <1>7, <1>10
  <2> QED
    BY <2>1, <2>2, <2>3, <2>4
<1>11. ASSUME NEW n \in DOMAIN r
       PROVE  r[n] = e \/ \E m \in DOMAIN s : r[n] = s[m]
  <2>1. n < p \/ n = p \/ n > p
    BY <1>7
  <2> QED
    BY <1>7, <1>8, <1>9, <1>10, <2>1
<1>12. ASSUME NEW m \in DOMAIN s
       PROVE  \E n \in DOMAIN r : r[n] = s[m]
  <2>1. CASE m < p
    BY <1>7, <1>8, <2>1
  <2>2. CASE m >= p
    <3>1. m + 1 \in 1 .. Len(s) + 1 /\ m + 1 > p /\ m + 1 - 1 = m
      BY <1>7, <2>2
    <3> QED
      BY <1>7, <1>10, <3>1
  <2> QED
    BY <1>7, <2>1, <2>2
<1>13. \E n \in DOMAIN r : r[n] = e
  BY <1>7, <1>9
<1> QED
  BY <1>3, <1>6, <1>11, <1>12, <1>13

(* Division with remainder. *)
LEMMA Division ==
    ASSUME NEW M \in Nat \ {0}, NEW a \in Int
    PROVE  /\ a \div M \in Int /\ a % M \in 0 .. M - 1
           /\ a = (a % M) + M * (a \div M)
  OBVIOUS

-------------------------------------------------------------------------------
(* The operators of the model. *)

(* The methods of a slot keep its type. *)
LEMMA SlotOps ==
    ASSUME NEW slot \in SlotType, NEW id \in Id, NEW tx \in BOOLEAN
    PROVE  /\ Grabbed(slot) \in SlotType
           /\ IdStored(slot, id) \in SlotType
           /\ SetFlags(slot, tx) \in SlotType
           /\ SetRequestNow(slot, id) \in SlotType
           /\ ClearRequestTime(slot) \in SlotType
           /\ ClearResponseTime(slot) \in SlotType
           /\ UpdateResendTime(slot) \in SlotType
           /\ SetResponse(slot, id) \in SlotType
           /\ AbortResponse(slot) \in SlotType
<1>0. 0 \in Age /\ Zero \in Age /\ 0 \in 0 .. ResendPeriod
  BY SenderAssumption DEF Age, Zero, AgeCap
<1> USE <1>0 DEF SlotType, RequestStatus
<1>1. Grabbed(slot) \in SlotType
  BY DEF Grabbed
<1>2. IdStored(slot, id) \in SlotType
  BY DEF IdStored
<1>3. SetFlags(slot, tx) \in SlotType
  BY DEF SetFlags
<1>4. SetRequestNow(slot, id) \in SlotType
  <2>1. [SetRequest(slot, id) EXCEPT !.requestAge = 0] \in SlotType
    BY DEF SetRequest
  <2> QED
    BY <2>1 DEF SetRequestNow
<1>5. ClearRequestTime(slot) \in SlotType
  BY DEF ClearRequestTime, ClearRequest
<1>6. ClearResponseTime(slot) \in SlotType
  BY DEF ClearResponseTime, ClearResponse
<1>7. UpdateResendTime(slot) \in SlotType
  BY DEF UpdateResendTime
<1>8. SetResponse(slot, id) \in SlotType
  BY DEF SetResponse
<1>9. AbortResponse(slot) \in SlotType
  BY DEF AbortResponse
<1> QED
  BY <1>1, <1>2, <1>3, <1>4, <1>5, <1>6, <1>7, <1>8, <1>9

(* Storing one slot keeps the type of the pool. *)
LEMMA PoolUpdate ==
    ASSUME NEW pool \in [Index -> SlotType], NEW i \in Index, NEW slot \in SlotType
    PROVE  [pool EXCEPT ![i] = slot] \in [Index -> SlotType]
  OBVIOUS

(* A pass stops at a slot of the pool or goes on with what follows it. *)
LEMMA PassType ==
    ASSUME io \in IoType, NEW from \in Nat, NEW next \in {"idle", "prune", "ended"},
           NEW slots
    PROVE  Pass(from, next, slots) \in IoType
<1> DEFINE stops == {i \in from .. PoolSize - 1 : ~ Skipped(slots[i])}
           first == CHOOSE i \in stops : \A j \in stops : i <= j
<1>1. 0 \in Index
  BY SenderAssumption DEF Index
<1>2. CASE stops = {}
  BY <1>1, <1>2 DEF Pass, IoType, IoPc
<1>3. CASE stops # {}
  <2>1. stops \subseteq Nat /\ stops \subseteq Index
    BY SenderAssumption DEF Index
  <2>2. first \in stops
    BY <1>3, <2>1, SmallestMember
  <2>3. first \in Index
    BY <2>1, <2>2
  <2>4. Pass(from, next, slots)
           = [io EXCEPT !.pc = "pass", !.request = NoId, !.next = next, !.at = first]
    BY <1>3 DEF Pass
  <2> HIDE DEF first, stops
  <2> QED
    BY <2>3, <2>4 DEF IoType, IoPc
<1> QED
  BY <1>2, <1>3

(* Removing a message from the backlog takes out at most one entry, which  *)
(* is that message's, and counts it when it does.                          *)
LEMMA Removal ==
    ASSUME backlog \in Seq(Entry), NEW STATE slots, NEW STATE id, NEW STATE size,
           RemovePendingRequest(slots, id, size)
    PROVE  /\ backlog' \in Seq(Entry)
           /\ \A n \in DOMAIN backlog' : \E m \in DOMAIN backlog : backlog'[n] = backlog[m]
           /\ \A m \in DOMAIN backlog :
                 backlog[m].id # id => \E n \in DOMAIN backlog' : backlog'[n] = backlog[m]
           /\ (id \in Id /\ sizeBytes' = Shrink(size, id)) \/ sizeBytes' = size
<1>1. CASE sizeBytes' = size /\ UNCHANGED backlog
  BY <1>1
<1>2. CASE /\ \E p \in Found(slots, id) : backlog' = RemoveAt(backlog, p)
           /\ sizeBytes' = Shrink(size, id)
  <2>1. PICK p \in DOMAIN backlog : backlog[p].id = id /\ backlog' = RemoveAt(backlog, p)
    BY <1>2 DEF Found
  <2>2. p \in 1 .. Len(backlog) /\ id \in Id
    <3>1. p \in 1 .. Len(backlog) /\ backlog[p] \in Entry
      OBVIOUS
    <3> QED
      BY <2>1, <3>1 DEF Entry
  <2> DEFINE r == RemoveAt(backlog, p)
  <2>3. /\ r \in Seq(Entry)
        /\ Len(r) = Len(backlog) - 1
        /\ \A n \in DOMAIN r : \E m \in DOMAIN backlog : r[n] = backlog[m]
        /\ \A m \in DOMAIN backlog : m # p => \E n \in DOMAIN r : r[n] = backlog[m]
    BY <2>2, RemoveAtFacts
  <2> HIDE DEF r
  <2> QED
    BY <1>2, <2>1, <2>2, <2>3 DEF r
<1> QED
  BY <1>1, <1>2 DEF RemovePendingRequest

LEMMA ShrinkType ==
    ASSUME NEW size \in Int, NEW id \in Id
    PROVE  Shrink(size, id) \in 0 .. SizeModulus - 1
<1>1. size - PayloadSize[id] \in Int /\ SizeModulus \in Nat \ {0}
  BY SenderAssumption DEF Id
<1> QED
  BY <1>1, Division DEF Shrink

LEMMA ReducedType ==
    ASSUME NEW size \in 0 .. SizeModulus - 1, NEW id \in Id
    PROVE  Reduced(size, id) \in 0 .. SizeModulus - 1
  BY SenderAssumption DEF Reduced, Id

-------------------------------------------------------------------------------
(* Type correctness. *)

LEMMA TypeInit == Init => TypeOK
<1>1. /\ NewSlot \in SlotType /\ 0 \in Index /\ 0 \in Id /\ 0 \in 0 .. SizeModulus - 1
  <2>1. Zero \in Age /\ ResendPeriod \in 0 .. ResendPeriod /\ 0 \in Id
    BY SenderAssumption DEF Age, Zero, AgeCap, Id
  <2> QED
    BY <2>1, SenderAssumption DEF NewSlot, SlotType, RequestStatus, Index
<1>2. IdleIo \in IoType /\ NoCall \in [id : Id, index : Index, tx : BOOLEAN]
  BY <1>1 DEF IdleIo, IoType, IoPc, NoCall, Timer
<1>3. SUFFICES ASSUME Init PROVE TypeOK
  OBVIOUS
<1>4. up \in BOOLEAN /\ {interrupt, stopResend, resendDone} \subseteq BOOLEAN
  BY <1>3 DEF Init
<1>5. /\ nextRequestId \in 0 .. MaxRequestId /\ deadline \in 0 .. ShutdownTimeout + 1
      /\ waited \in 0 .. ShutdownTimeout
      /\ sizeBytes \in 0 .. SizeModulus - 1
  BY <1>1, <1>3, SenderAssumption DEF Init
<1>6. backlog \in Seq(Entry)
  BY <1>3 DEF Init
<1>7. /\ outbox = {} /\ wire = {} /\ timers \subseteq Timer
      /\ {freed, pruned, robbed, accepted} \subseteq SUBSET Id
  BY <1>3 DEF Init, TimersAtStart, Timer
<1> QED
  BY <1>1, <1>2, <1>3, <1>4, <1>5, <1>6, <1>7 DEF Init, TypeOK

(* Undefined behaviour changes fault and nothing else. *)
LEMMA HaltType ==
    ASSUME TypeOK, NEW kind \in {"null", "freed", "race"}, Halt(kind)
    PROVE  TypeOK'
  BY DEF TypeOK, Halt, appVars, logVars, netVars, stopVars

LEMMA FreeType ==
    ASSUME TypeOK, NEW STATE id, id \in Id \cup {NoId}, Free(id)
    PROVE  freed' \in SUBSET Id
  BY DEF TypeOK, Free

(* A call returns, or goes to another label. *)
LEMMA ReturnType ==
    ASSUME TypeOK, NEW t \in Threads, Return(t)
    PROVE  /\ pc' \in [Threads -> {"ready", "grab", "fill", "wait", "handle"}]
           /\ call' \in [Threads -> [id : Id, index : Index, tx : BOOLEAN]]
<1>1. NoCall \in [id : Id, index : Index, tx : BOOLEAN]
  BY SenderAssumption DEF NoCall, Id, Index
<1> QED
  BY <1>1 DEF TypeOK, Return

LEMMA BeginType ==
    ASSUME TypeOK, NEW t \in Threads, Begin(t)
    PROVE  TypeOK'
<1>1. nextRequestId \in Id /\ nextRequestId + 1 \in 0 .. MaxRequestId /\ 0 \in Index
  BY SenderAssumption DEF TypeOK, Begin, Id, Index
<1>2. call' \in [Threads -> [id : Id, index : Index, tx : BOOLEAN]]
  BY <1>1 DEF TypeOK, Begin
<1> QED
  BY <1>1, <1>2 DEF TypeOK, Begin, Goto, logVars, netVars, stopVars

LEMMA GrabType ==
    ASSUME TypeOK, NEW t \in Threads, Grab(t) \/ GrabFails(t)
    PROVE  TypeOK'
<1>1. CASE Grab(t)
  <2>1. PICK i \in Index :
           /\ requests' = [requests EXCEPT ![i] = IdStored(Grabbed(@), call[t].id)]
           /\ call' = [call EXCEPT ![t].index = i]
    BY <1>1 DEF Grab
  <2>2. requests' \in [Index -> SlotType]
    BY <2>1, SlotOps, PoolUpdate DEF TypeOK
  <2>3. call' \in [Threads -> [id : Id, index : Index, tx : BOOLEAN]]
    BY <2>1 DEF TypeOK
  <2> QED
    BY <1>1, <2>2, <2>3 DEF TypeOK, Grab, Goto, logVars, netVars, stopVars
<1>2. CASE GrabFails(t)
  BY <1>2, ReturnType DEF TypeOK, GrabFails, logVars, netVars, stopVars
<1> QED
  BY <1>1, <1>2

LEMMA FilledType ==
    ASSUME TypeOK, NEW t \in Threads
    PROVE  Filled(t) \in SlotType /\ Displaced(t) \subseteq Id
<1>1. Slot(t) \in SlotType /\ call[t].id \in Id /\ call[t].tx \in BOOLEAN
  BY DEF TypeOK, Slot
<1>2. Filled(t) \in SlotType
  BY <1>1, SlotOps DEF Filled
<1>3. Slot(t).request \in Id \cup {NoId}
  BY <1>1 DEF SlotType
<1> QED
  BY <1>2, <1>3 DEF Displaced

LEMMA FillType ==
    ASSUME TypeOK, NEW t \in Threads, Fill(t) \/ FillFails(t)
    PROVE  TypeOK'
<1>1. io' \in IoType
  <2>1. io \in IoType /\ io' = [io EXCEPT !.ready = @ \ {call[t].index}]
    BY DEF TypeOK, Fill, FillFails
  <2> QED
    BY <2>1 DEF IoType
<1>2. robbed' \subseteq Id
  BY FilledType DEF TypeOK, Fill, FillFails
<1>3. CASE Fill(t)
  <2>1. requests' \in [Index -> SlotType]
    BY <1>3, FilledType, PoolUpdate DEF TypeOK, Fill, WriteSlot
  <2>2. /\ pc' \in [Threads -> {"ready", "grab", "fill", "wait", "handle"}]
        /\ call' \in [Threads -> [id : Id, index : Index, tx : BOOLEAN]]
    BY <1>3, ReturnType DEF TypeOK, Fill, Goto
  <2>3. /\ outbox' \subseteq [id : Id, index : Index, resend : BOOLEAN]
        /\ accepted' \subseteq Id
    <3>1. call[t].id \in Id /\ call[t].index \in Index
      BY DEF TypeOK
    <3>2. [id |-> call[t].id, index |-> call[t].index, resend |-> FALSE]
             \in [id : Id, index : Index, resend : BOOLEAN]
      BY <3>1
    <3> QED
      BY <1>3, <3>1, <3>2 DEF TypeOK, Fill
  <2> QED
    BY <1>1, <1>2, <1>3, <2>1, <2>2, <2>3 DEF TypeOK, Fill, logVars, stopVars
<1>4. CASE FillFails(t)
  <2>1. requests' \in [Index -> SlotType]
    BY <1>4, FilledType, SlotOps, PoolUpdate DEF TypeOK, FillFails, WriteSlot
  <2> QED
    BY <1>1, <1>2, <1>4, <2>1, ReturnType
    DEF TypeOK, FillFails, logVars, netVars, stopVars
<1> QED
  BY <1>3, <1>4

LEMMA WaitType ==
    ASSUME TypeOK, NEW t \in Threads, WaitOk(t) \/ WaitFails(t)
    PROVE  TypeOK'
<1>1. Slot(t) \in SlotType
  BY DEF TypeOK, Slot
<1>2. CASE WaitOk(t)
  <2>1. requests' \in [Index -> SlotType]
    BY <1>1, <1>2, SlotOps, PoolUpdate DEF TypeOK, WaitOk, WriteSlot
  <2> QED
    BY <1>2, <2>1 DEF TypeOK, WaitOk, Goto, logVars, netVars, stopVars
<1>3. CASE WaitFails(t)
  <2>1. CASE Halt("freed") \/ Halt("null")
    BY <2>1, HaltType
  <2>2. CASE ~ (Halt("freed") \/ Halt("null"))
    <3>1. requests' \in [Index -> SlotType]
      BY <1>1, <1>3, <2>2, SlotOps, PoolUpdate DEF TypeOK, WaitFails, WriteSlot
    <3> QED
      BY <1>3, <2>2, <3>1, ReturnType
      DEF TypeOK, WaitFails, logVars, netVars, stopVars
  <2> QED
    BY <2>1, <2>2
<1> QED
  BY <1>2, <1>3

LEMMA HandleType ==
    ASSUME TypeOK, NEW t \in Threads, HandleOk(t) \/ HandleRaces(t) \/ HandleRefused(t)
    PROVE  TypeOK'
<1>1. call[t].id \in Id
  BY DEF TypeOK
<1>2. CASE HandleOk(t)
  <2>1. /\ backlog' \in Seq(Entry)
        /\ sizeBytes' = Shrink(sizeBytes, call[t].id) \/ sizeBytes' = sizeBytes
    BY <1>2, Removal DEF TypeOK, HandleOk
  <2>2. sizeBytes' \in 0 .. SizeModulus - 1
    <3>1. sizeBytes \in 0 .. SizeModulus - 1 /\ sizeBytes \in Int
      BY DEF TypeOK
    <3>2. Shrink(sizeBytes, call[t].id) \in 0 .. SizeModulus - 1
      BY <1>1, <3>1, ShrinkType
    <3> QED
      BY <2>1, <3>1, <3>2
  <2>3. freed' \in SUBSET Id
    BY <1>1, <1>2, FreeType DEF HandleOk
  <2> QED
    BY <1>2, <2>1, <2>2, <2>3, ReturnType DEF TypeOK, HandleOk, netVars, stopVars
<1>3. CASE HandleRaces(t)
  BY <1>3, HaltType DEF HandleRaces
<1>4. CASE HandleRefused(t)
  <2> DEFINE id == nextRequestId
  <2>1. id \in Id /\ id + 1 \in 0 .. MaxRequestId
    BY <1>4, SenderAssumption DEF TypeOK, HandleRefused, Id
  <2>2. requests' \in [Index -> SlotType] /\ io' \in IoType
    <3>1. CASE UNCHANGED <<requests, io>>
      BY <3>1 DEF TypeOK
    <3>2. ASSUME NEW i \in Index,
                 requests' = [requests EXCEPT
                     ![i] = SetRequestNow(IdStored(Grabbed(@), id), call[t].id)],
                 io' = [io EXCEPT !.ready = @ \ {i}]
          PROVE  requests' \in [Index -> SlotType] /\ io' \in IoType
      <4>1. requests' \in [Index -> SlotType]
        BY <1>1, <2>1, <3>2, SlotOps, PoolUpdate DEF TypeOK
      <4>2. io' \in IoType
        BY <3>2 DEF TypeOK, IoType
      <4> QED
        BY <4>1, <4>2
    <3> QED
      BY <1>4, <3>1, <3>2 DEF HandleRefused
  <2>3. freed' \in SUBSET Id
    BY <1>1, <1>4, FreeType DEF HandleRefused
  <2> QED
    BY <1>4, <2>1, <2>2, <2>3, ReturnType
    DEF TypeOK, HandleRefused, logVars, netVars, stopVars
<1> QED
  BY <1>2, <1>3, <1>4

(* The insertion of an entry, whatever place it gets. *)
LEMMA Insertion ==
    ASSUME NEW STATE log, log \in Seq(Entry), NEW STATE slots, NEW STATE e, e \in Entry,
           \E p \in Places(log, slots, e) : backlog' = InsertAt(log, p, e)
    PROVE  /\ backlog' \in Seq(Entry)
           /\ Len(backlog') = Len(log) + 1
           /\ \A n \in DOMAIN backlog' :
                 backlog'[n] = e \/ \E m \in DOMAIN log : backlog'[n] = log[m]
           /\ \A m \in DOMAIN log : \E n \in DOMAIN backlog' : backlog'[n] = log[m]
           /\ \E n \in DOMAIN backlog' : backlog'[n] = e
<1>1. PICK p \in 1 .. Len(log) + 1 : backlog' = InsertAt(log, p, e)
  BY DEF Places
<1> DEFINE r == InsertAt(log, p, e)
<1>2. /\ r \in Seq(Entry)
      /\ Len(r) = Len(log) + 1
      /\ \A n \in DOMAIN r : r[n] = e \/ \E m \in DOMAIN log : r[n] = log[m]
      /\ \A m \in DOMAIN log : \E n \in DOMAIN r : r[n] = log[m]
      /\ \E n \in DOMAIN r : r[n] = e
  BY InsertAtFacts
<1> HIDE DEF r
<1> QED
  BY <1>1, <1>2 DEF r

LEMMA AsyncWriteType ==
    ASSUME TypeOK, NEW w \in outbox, AsyncWrite(w)
    PROVE  TypeOK'
<1> DEFINE e == [id |-> w.id, index |-> w.index]
<1>1. e \in Entry /\ e.id = w.id /\ e.index = w.index
  BY DEF TypeOK, Entry
<1>2. wire' \subseteq Entry /\ outbox' \subseteq [id : Id, index : Index, resend : BOOLEAN]
  BY <1>1 DEF TypeOK, AsyncWrite, WriteTransport
<1>3. /\ backlog' \in Seq(Entry) /\ sizeBytes' \in 0 .. SizeModulus - 1
      /\ UNCHANGED pruned
      /\ fault' \in {"none", "null", "freed", "race"}
  <2>1. CASE UNCHANGED logVars /\ (fault' = "freed" \/ UNCHANGED fault)
    BY <2>1 DEF TypeOK, logVars
  <2>2. CASE /\ \E p \in Places(backlog, requests, e) : backlog' = InsertAt(backlog, p, e)
             /\ sizeBytes' = (sizeBytes + PayloadSize[e.id]) % SizeModulus
             /\ UNCHANGED <<pruned, fault>>
    <3> HIDE DEF e
    <3>1. backlog' \in Seq(Entry)
      BY <1>1, <2>2, Insertion DEF TypeOK
    <3>2. sizeBytes' \in 0 .. SizeModulus - 1
      <4>1. e.id \in Id
        BY <1>1 DEF Entry
      <4>2. sizeBytes + PayloadSize[e.id] \in Int
        BY <4>1, SenderAssumption DEF TypeOK, Id
      <4> QED
        BY <2>2, <4>2, SenderAssumption, Division
    <3> QED
      BY <2>2, <3>1, <3>2 DEF TypeOK
  <2> QED
    BY <2>1, <2>2 DEF AsyncWrite, OnLoopSend
<1> QED
  BY <1>2, <1>3 DEF TypeOK, AsyncWrite, appVars, stopVars

LEMMA RecvType ==
    ASSUME TypeOK, NEW e \in wire, Recv(e)
    PROVE  TypeOK'
<1>1. e.id \in Id /\ e.index \in Index /\ requests[e.index] \in SlotType
  BY DEF TypeOK, Entry
<1>2. requests' \in [Index -> SlotType]
  BY <1>1, SlotOps, PoolUpdate DEF TypeOK, Recv
<1>3. io' \in IoType
  BY PassType DEF TypeOK, Recv, StartPass
<1> QED
  BY <1>2, <1>3 DEF TypeOK, Recv, appVars, logVars, stopVars

LEMMA DisconnectType ==
    ASSUME TypeOK, Disconnect
    PROVE  TypeOK'
<1>1. ASSUME NEW i \in Index PROVE AbortResponse(requests[i]) \in SlotType
  <2>1. 0 \in Id /\ requests[i] \in SlotType
    BY SenderAssumption DEF Id, TypeOK
  <2> QED
    BY <2>1, SlotOps
<1>2. requests' \in [Index -> SlotType]
  BY <1>1 DEF Disconnect
<1> QED
  BY <1>2 DEF TypeOK, Disconnect, appVars, logVars, stopVars

LEMMA PassGoesOnType ==
    ASSUME TypeOK, NEW slots
    PROVE  PassGoesOn(slots) \in IoType
<1>1. io \in IoType /\ io.at + 1 \in Nat /\ io.next \in {"idle", "prune", "ended"}
  BY SenderAssumption DEF TypeOK, IoType, Index
<1> QED
  BY <1>1, PassType DEF PassGoesOn

(* What processPendingResponses does at one slot. *)
LEMMA PassStepType ==
    ASSUME TypeOK, NEW ok \in BOOLEAN, PassSkip \/ PassArrived(ok) \/ PassExpire \/ Expire
    PROVE  TypeOK'
<1> DEFINE slot == requests[io.at]
           cleared == [requests EXCEPT ![io.at] = ClearResponseTime(slot)]
<1>1. io.at \in Index /\ slot \in SlotType /\ slot.request \in Id \cup {NoId}
  BY DEF TypeOK, IoType, SlotType
<1>2. cleared \in [Index -> SlotType]
  <2>1. 0 \in Id
    BY SenderAssumption DEF Id
  <2>2. ClearResponseTime(slot) \in SlotType
    BY <1>1, <2>1, SlotOps
  <2> QED
    BY <1>1, <2>2, PoolUpdate DEF TypeOK
<1> HIDE DEF cleared
<1>3. CASE PassSkip
  BY <1>3, PassGoesOnType DEF TypeOK, PassSkip, appVars, logVars, netVars, stopVars
<1>4. CASE PassArrived(ok)
  <2>1. CASE Halt("freed") \/ Halt("null")
    BY <2>1, HaltType
  <2>2. CASE ~ (Halt("freed") \/ Halt("null"))
    <3>1. /\ requests' = cleared
          /\ IF ok THEN RemovePendingRequest(cleared, slot.request, sizeBytes)
             ELSE UNCHANGED <<backlog, sizeBytes>>
          /\ Free(slot.request)
          /\ io' = PassGoesOn(cleared)
          /\ UNCHANGED <<appVars, pruned, netVars, timers, stopVars, robbed, fault>>
      BY <1>4, <2>2 DEF PassArrived, cleared
    <3>2. /\ backlog' \in Seq(Entry)
          /\ \/ slot.request \in Id /\ sizeBytes' = Shrink(sizeBytes, slot.request)
             \/ sizeBytes' = sizeBytes
      BY <3>1, Removal DEF TypeOK
    <3>3. sizeBytes' \in 0 .. SizeModulus - 1
      <4>1. sizeBytes \in Int /\ sizeBytes \in 0 .. SizeModulus - 1
        BY DEF TypeOK
      <4> QED
        BY <3>2, <4>1, ShrinkType
    <3>4. freed' \in SUBSET Id
      BY <1>1, <3>1, FreeType
    <3>5. io' \in IoType
      BY <3>1, PassGoesOnType
    <3> QED
      BY <1>2, <3>1, <3>2, <3>3, <3>4, <3>5
      DEF TypeOK, appVars, netVars, stopVars
  <2> QED
    BY <2>1, <2>2
<1>5. CASE PassExpire
  <2>1. io' \in IoType
    BY <1>1, <1>5 DEF PassExpire, TypeOK, IoType, IoPc
  <2> QED
    BY <1>5, <2>1 DEF TypeOK, PassExpire, appVars, logVars, netVars, stopVars
<1>6. CASE Expire
  <2>1. CASE Halt("freed")
    BY <2>1, HaltType
  <2>2. CASE ~ Halt("freed")
    <3> DEFINE fillers == {u \in Threads : pc[u] = "fill" /\ call[u].index = io.at}
    <3>1. /\ requests' = cleared
          /\ Free(io.request)
          /\ robbed' = robbed \cup {call[t].id : t \in fillers}
                              \cup ({slot.request} \ {io.request, NoId})
          /\ io' = PassGoesOn(requests')
          /\ UNCHANGED <<appVars, logVars, netVars, timers, stopVars, fault>>
      BY <1>6, <2>2 DEF Expire, cleared
    <3>2. freed' \in SUBSET Id
      BY <3>1, FreeType DEF TypeOK, IoType
    <3>3. robbed' \subseteq Id
      <4>1. {call[t].id : t \in fillers} \subseteq Id
        BY DEF TypeOK
      <4> QED
        BY <1>1, <3>1, <4>1 DEF TypeOK
    <3>4. io' \in IoType
      BY <3>1, PassGoesOnType
    <3> QED
      BY <1>2, <3>1, <3>2, <3>3, <3>4
      DEF TypeOK, appVars, logVars, netVars, stopVars
  <2> QED
    BY <2>1, <2>2
<1> QED
  BY <1>3, <1>4, <1>5, <1>6

(* onLoopTimer: the pruning and the resending. *)
LEMMA PruneType ==
    ASSUME TypeOK, PruneDone \/ PruneHead
    PROVE  TypeOK'
<1>1. CASE PruneDone
  <2>1. io' \in IoType
    BY <1>1 DEF TypeOK, PruneDone, IoType, IoPc
  <2> QED
    BY <1>1, <2>1 DEF TypeOK, PruneDone, appVars, logVars, netVars, stopVars
<1>2. CASE PruneHead
  <2> DEFINE e == Head(backlog)
             slot == requests[e.index]
             cleared == IF slot.id = e.id
                        THEN [requests EXCEPT ![e.index] = ClearResponseTime(slot)]
                        ELSE requests
  <2>1. e \in Entry
    BY <1>2 DEF TypeOK, PruneHead
  <2>2. e.id \in Id /\ e.index \in Index
    BY <2>1 DEF Entry
  <2> HIDE DEF e
  <2>3. cleared \in [Index -> SlotType]
    <3>1. ClearResponseTime(slot) \in SlotType
      BY <2>2, SlotOps DEF TypeOK
    <3> QED
      BY <2>2, <3>1, PoolUpdate DEF TypeOK
  <2>4. CASE Halt("freed")
    BY <2>4, HaltType
  <2>5. CASE ~ Halt("freed")
    <3>1. /\ requests' = cleared
          /\ RemovePendingRequest(cleared, e.id, Reduced(sizeBytes, e.id))
          /\ pruned' = pruned \cup {e.id}
          /\ UNCHANGED <<appVars, io, netVars, timers, stopVars, freed, robbed, fault>>
      BY <1>2, <2>5 DEF PruneHead, e
    <3> HIDE DEF cleared
    <3> DEFINE size == Reduced(sizeBytes, e.id)
    <3>2. size \in 0 .. SizeModulus - 1 /\ size \in Int
      BY <2>2, ReducedType DEF TypeOK
    <3> HIDE DEF size
    <3>3. backlog' \in Seq(Entry) /\ (sizeBytes' = Shrink(size, e.id) \/ sizeBytes' = size)
      BY <3>1, Removal DEF TypeOK, size
    <3>4. sizeBytes' \in 0 .. SizeModulus - 1
      BY <2>2, <3>2, <3>3, ShrinkType
    <3> QED
      BY <2>2, <2>3, <3>1, <3>3, <3>4 DEF TypeOK, appVars, netVars, stopVars
  <2> QED
    BY <2>4, <2>5
<1> QED
  BY <1>1, <1>2

LEMMA ResendType ==
    ASSUME TypeOK, ResendOk \/ ResendFails \/ ResendFreed
    PROVE  TypeOK'
<1> DEFINE e == Head(backlog)
<1>1. backlog # <<>>
  BY DEF ResendOk, ResendFails, ResendFreed, HeadDue, HasReady
<1>2. e \in Entry /\ Tail(backlog) \in Seq(Entry)
  BY <1>1 DEF TypeOK
<1>3. e.id \in Id /\ e.index \in Index /\ requests[e.index] \in SlotType
  BY <1>2 DEF Entry, TypeOK
<1> HIDE DEF e
<1>4. CASE ResendOk
  <2> DEFINE slots == [requests EXCEPT ![e.index] = UpdateResendTime(SetFlags(@, FALSE))]
  <2>1. CASE Halt("freed")
    BY <2>1, HaltType
  <2>2. CASE ~ Halt("freed")
    <3>1. /\ outbox' = outbox \cup {[FirstWrite(e) EXCEPT !.resend = TRUE]}
          /\ requests' = slots
          /\ io' = [io EXCEPT !.ready = @ \ {e.index}]
          /\ PutBack(slots)
          /\ UNCHANGED <<appVars, sizeBytes, pruned, wire, up, timers, stopVars,
                         freed, robbed, fault>>
      BY <1>4, <2>2 DEF ResendOk, e
    <3>2. slots \in [Index -> SlotType]
      BY <1>3, SlotOps, PoolUpdate DEF TypeOK
    <3> HIDE DEF slots
    <3>3. backlog' \in Seq(Entry)
      BY <1>2, <3>1, Insertion DEF PutBack, e
    <3>4. io' \in IoType
      BY <3>1 DEF TypeOK, IoType
    <3>5. outbox' \subseteq [id : Id, index : Index, resend : BOOLEAN]
      <4>1. [FirstWrite(e) EXCEPT !.resend = TRUE] \in [id : Id, index : Index, resend : BOOLEAN]
        BY <1>3 DEF FirstWrite
      <4> QED
        BY <3>1, <4>1 DEF TypeOK
    <3> QED
      BY <3>1, <3>2, <3>3, <3>4, <3>5 DEF TypeOK, appVars, stopVars
  <2> QED
    BY <2>1, <2>2
<1>5. CASE ResendFails
  <2>1. requests' \in [Index -> SlotType]
    BY <1>3, <1>5, SlotOps, PoolUpdate DEF TypeOK, ResendFails, e
  <2>2. io' \in IoType
    BY <1>5 DEF TypeOK, IoType, ResendFails
  <2> QED
    BY <1>5, <2>1, <2>2
    DEF TypeOK, ResendFails, appVars, logVars, netVars, stopVars
<1>6. CASE ResendFreed
  BY <1>6, HaltType DEF ResendFreed
<1> QED
  BY <1>4, <1>5, <1>6

(* The timers, the interrupt and the end of the loop. *)
LEMMA LoopType ==
    ASSUME TypeOK,
           \/ \E k \in timers : TimerFires(k)
           \/ Rearm \/ OnLoopInterrupt \/ LoopStops
    PROVE  TypeOK'
<1>0. IdleIo \in IoType /\ io.timer \in Timer
  BY SenderAssumption DEF IdleIo, IoType, IoPc, Timer, Index, TypeOK
<1>1. ASSUME NEW k \in timers, TimerFires(k) PROVE TypeOK'
  <2>1. StartPass("prune", requests) \in IoType /\ k \in Timer
    BY PassType DEF TypeOK, StartPass
  <2>2. io' \in IoType
    <3>1. k \in Timer /\ io \in IoType
      BY <1>1 DEF TypeOK
    <3>2. CASE io' = io
      BY <3>1, <3>2
    <3>3. CASE io' = [StartPass("prune", requests) EXCEPT !.timer = k]
      BY <2>1, <3>1, <3>3 DEF IoType
    <3> QED
      BY <1>1, <3>2, <3>3 DEF TimerFires
  <2> QED
    BY <1>1, <2>2 DEF TypeOK, TimerFires, appVars, logVars, netVars, stopVars
<1>2. CASE Rearm
  <2>1. timers' \subseteq Timer
    BY <1>0, <1>2 DEF Rearm, Armed, TypeOK
  <2>2. {interrupt, stopResend, resendDone}' \subseteq BOOLEAN
    BY <1>2 DEF Rearm, TypeOK
  <2> QED
    BY <1>0, <1>2, <2>1, <2>2 DEF TypeOK, Rearm, appVars, logVars, netVars
<1>3. CASE OnLoopInterrupt
  <2>1. timers' \subseteq Timer
    BY <1>3 DEF OnLoopInterrupt, Armed, TypeOK, Timer
  <2>2. deadline' \in 0 .. ShutdownTimeout + 1
    BY <1>3, SenderAssumption DEF OnLoopInterrupt, TypeOK
  <2>3. {interrupt, stopResend, resendDone}' \subseteq BOOLEAN
    BY <1>3 DEF OnLoopInterrupt, TypeOK
  <2> QED
    BY <1>3, <2>1, <2>2, <2>3 DEF TypeOK, OnLoopInterrupt, appVars, logVars, netVars
<1>4. CASE LoopStops
  <2>1. io' \in IoType
    BY <1>4, PassType DEF TypeOK, LoopStops, StartPass
  <2> QED
    BY <1>4, <2>1 DEF TypeOK, LoopStops, appVars, logVars, netVars, stopVars
<1> QED
  BY <1>1, <1>2, <1>3, <1>4

LEMMA StopType ==
    ASSUME TypeOK, StopBegin \/ StopStep
    PROVE  TypeOK'
<1>1. {interrupt, stopResend, resendDone}' \subseteq BOOLEAN
  BY DEF TypeOK, StopBegin, StopStep, WaitBacklogEmpty, Join, InterruptLoop
<1>2. stopper' \in {"run", "waitBacklog", "join", "stopped"}
  BY DEF TypeOK, StopBegin, StopStep, WaitBacklogEmpty, Join
<1> QED
  BY <1>1, <1>2
  DEF TypeOK, StopBegin, StopStep, WaitBacklogEmpty, Join, appVars, logVars, netVars

LEMMA TickType ==
    ASSUME TypeOK, Tick
    PROVE  TypeOK'
<1>1. ASSUME NEW i \in Index
      PROVE  [requests[i] EXCEPT !.requestAge = AgeBy1(@),
                                 !.resendAge = IF @ < ResendPeriod THEN @ + 1 ELSE @]
                \in SlotType
  <2> DEFINE slot == requests[i]
  <2>1. slot \in SlotType
    BY DEF TypeOK
  <2> HIDE DEF slot
  <2>2. AgeBy1(slot.requestAge) \in Age
    BY <2>1, SenderAssumption DEF SlotType, AgeBy1, Age, Zero, AgeCap
  <2>3. (IF slot.resendAge < ResendPeriod THEN slot.resendAge + 1 ELSE slot.resendAge)
           \in 0 .. ResendPeriod
    BY <2>1, SenderAssumption DEF SlotType
  <2>4. [slot EXCEPT !.requestAge = AgeBy1(@),
                     !.resendAge = IF @ < ResendPeriod THEN @ + 1 ELSE @] \in SlotType
    BY <2>1, <2>2, <2>3 DEF SlotType
  <2> QED
    BY <2>4 DEF slot
<1>2. requests' \in [Index -> SlotType]
  BY <1>1 DEF Tick
<1>3. deadline' \in 0 .. ShutdownTimeout + 1 /\ waited' \in 0 .. ShutdownTimeout
  <2>1. deadline \in 0 .. ShutdownTimeout + 1 /\ waited \in 0 .. ShutdownTimeout
    BY DEF TypeOK
  <2>2. deadline' = IF deadline <= ShutdownTimeout THEN deadline + 1 ELSE deadline
    BY DEF Tick
  <2>3. (waited' = waited + 1 /\ waited < ShutdownTimeout) \/ waited' = waited
    BY DEF Tick
  <2>4. deadline' \in 0 .. ShutdownTimeout + 1
    BY <2>1, <2>2, SenderAssumption
  <2>5. waited' \in 0 .. ShutdownTimeout
    BY <2>1, <2>3, SenderAssumption
  <2> QED
    BY <2>4, <2>5
<1> QED
  BY <1>2, <1>3 DEF TypeOK, Tick, appVars, logVars, netVars

LEMMA TypeNext == TypeOK /\ [Next]_vars => TypeOK'
<1> SUFFICES ASSUME TypeOK, [Next]_vars PROVE TypeOK'
  OBVIOUS
<1>1. CASE UNCHANGED vars
  BY <1>1 DEF TypeOK, vars
<1>2. CASE Step
  <2>1. CASE \E t \in Threads : Begin(t) \/ ThreadStep(t)
    BY <2>1, BeginType, GrabType, FillType, WaitType, HandleType DEF ThreadStep
  <2>2. CASE IoStep
    BY <2>2, AsyncWriteType, PassStepType, PruneType, ResendType, LoopType DEF IoStep
  <2>3. CASE \/ \E e \in wire : Recv(e)
             \/ Disconnect \/ StopBegin \/ StopStep \/ Tick
    BY <2>3, RecvType, DisconnectType, StopType, TickType
  <2> QED
    BY <1>2, <2>1, <2>2, <2>3 DEF Step
<1> QED
  BY <1>1, <1>2 DEF Next

(* Type correctness of the sender: slots, ages, counters and the places of *)
(* the threads stay in their ranges; in particular the unsigned size       *)
(* counter of the backlog never leaves 0 .. SizeModulus - 1, and a pass    *)
(* over the pool never leaves the pool.                                    *)
THEOREM TypeCorrect == Spec => []TypeOK
  BY TypeInit, TypeNext, PTL DEF Spec

-------------------------------------------------------------------------------
(* An accepted message is kept.  The invariant has to survive some thirty  *)
(* actions, so the proof goes by way of what all of them have in common.   *)

GhostsGrow ==
    freed \subseteq freed' /\ pruned \subseteq pruned' /\ robbed \subseteq robbed'

(* An id is fresh when a call takes it, and stays with that call. *)
ThreadsCalm ==
    /\ nextRequestId' \in {nextRequestId, nextRequestId + 1}
    /\ accepted \subseteq accepted' /\ accepted' \subseteq Issued
    /\ \A u \in Threads : pc'[u] \in {"grab", "fill"} =>
          \/ /\ pc[u] \in {"grab", "fill"}
             /\ call'[u].id = call[u].id /\ call[u].id \notin accepted'
          \/ /\ call'[u].id = nextRequestId /\ nextRequestId' = nextRequestId + 1
             /\ \A v \in Threads : v # u => pc'[v] = pc[v] /\ call'[v] = call[v]
    /\ \A u \in Threads : pc'[u] = "wait" => call'[u].id \in accepted'

(* A thread that is about to fill a slot has just taken it or was about to *)
(* fill it before.                                                         *)
FillersCalm ==
    \A u \in Threads : pc'[u] = "fill" =>
        \/ pc[u] = "fill" /\ call'[u] = call[u]
        \/ /\ requests'[call'[u].index].id = call'[u].id
           /\ Unanswered(requests'[call'[u].index])

(* A slot without an answer goes on as it is: its message can be replaced  *)
(* when it is in the backlog or robbed, and the slot can be given up when  *)
(* its answer is on the wire, its message is pruned, or both its message   *)
(* and the calls that are about to fill it are gone.                       *)
SlotCalm(i) ==
    Unanswered(requests[i]) =>
        \/ /\ requests'[i].id = requests[i].id
           /\ Unanswered(requests'[i])
           /\ \/ requests'[i].request = requests[i].request
              \/ InBacklog(backlog, requests[i].id)
              \/ requests[i].request \notin accepted \ robbed'
        \/ \E e \in wire : e.id = requests[i].id
        \/ requests[i].id \in accepted /\ requests[i].id \in pruned'
        \/ /\ requests[i].request \notin accepted \ Gone'
           /\ \A u \in Threads :
                 pc[u] = "fill" /\ call[u].index = i => call[u].id \in robbed'

SlotsCalm == \A i \in Index : SlotCalm(i)

(* Datagrams and entries come from writes, writes from entries or calls. *)
TrafficCalm ==
    /\ \A e \in wire' : e \in wire \/ \E v \in outbox \ outbox' : v.id = e.id
    /\ \A n \in DOMAIN backlog' :
          \/ \E m \in DOMAIN backlog : backlog'[n] = backlog[m]
          \/ \E v \in outbox \ outbox' : v.id = backlog'[n].id
    /\ \A v \in outbox' :
          \/ v \in outbox
          \/ v.resend /\ InBacklog(backlog, v.id)
          \/ /\ v.id \in accepted' \ accepted
             /\ v.id \notin robbed' => HeldSlot(v)'
             /\ outbox' = outbox \cup {v} /\ UNCHANGED <<wire, backlog>>

(* Entries and first writes do not vanish unexplained. *)
NothingLost ==
    /\ \A m \in DOMAIN backlog :
          \/ backlog[m].id \in Gone'
          \/ \E n \in DOMAIN backlog' : backlog'[n] = backlog[m]
    /\ \A v \in outbox : ~ v.resend =>
          v \in outbox' \/ v.id \in Gone' \/ InBacklog(backlog', v.id) \/ fault' # "none"
    /\ \A id \in accepted' \ accepted : \E v \in outbox' : v.id = id /\ ~ v.resend

Calm == GhostsGrow /\ ThreadsCalm /\ FillersCalm /\ SlotsCalm /\ TrafficCalm /\ NothingLost

(* What a calm step keeps. *)
LEMMA CalmIds ==
    ASSUME TypeOK, TypeOK', IdsInv, Calm
    PROVE  IdsInv'
<1>1. /\ accepted \subseteq accepted' /\ accepted' \subseteq Issued
      /\ Issued \subseteq Issued' /\ nextRequestId \notin Issued
      /\ nextRequestId' = nextRequestId + 1 => nextRequestId \in Issued'
  <2>1. nextRequestId \in Int /\ nextRequestId >= 0
    BY DEF TypeOK
  <2>2. nextRequestId' = nextRequestId \/ nextRequestId' = nextRequestId + 1
    BY DEF Calm, ThreadsCalm
  <2>3. Issued \subseteq Issued' /\ nextRequestId \notin Issued
    BY <2>1, <2>2 DEF Issued
  <2>4. nextRequestId' = nextRequestId + 1 => nextRequestId \in Issued'
    BY <2>1 DEF Issued
  <2> QED
    BY <2>3, <2>4 DEF Calm, ThreadsCalm
<1>2. ASSUME NEW t \in Threads, pc'[t] \in {"grab", "fill"}
      PROVE  call'[t].id \in Issued' \ accepted'
  BY <1>1, <1>2 DEF Calm, ThreadsCalm, IdsInv
<1>3. ASSUME NEW t \in Threads, NEW u \in Threads,
             pc'[t] \in {"grab", "fill"}, pc'[u] \in {"grab", "fill"},
             call'[t].id = call'[u].id
      PROVE  t = u
  <2> SUFFICES ASSUME t # u PROVE FALSE
    OBVIOUS
  <2>1. CASE call'[t].id = nextRequestId /\ pc'[u] = pc[u] /\ call'[u] = call[u]
    BY <1>1, <1>3, <2>1 DEF IdsInv
  <2>2. CASE call'[u].id = nextRequestId /\ pc'[t] = pc[t] /\ call'[t] = call[t]
    BY <1>1, <1>3, <2>2 DEF IdsInv
  <2>3. CASE /\ pc[t] \in {"grab", "fill"} /\ call'[t].id = call[t].id
             /\ pc[u] \in {"grab", "fill"} /\ call'[u].id = call[u].id
    BY <1>3, <2>3 DEF IdsInv
  <2> QED
    BY <1>3, <2>1, <2>2, <2>3 DEF Calm, ThreadsCalm
<1>4. \A t \in Threads : pc'[t] = "wait" => call'[t].id \in accepted'
  BY DEF Calm, ThreadsCalm
<1>5. \A v \in outbox' : v.id \in accepted'
  BY <1>1 DEF Calm, TrafficCalm, IdsInv, InBacklog
<1>6. \A e \in wire' : e.id \in accepted'
  BY <1>1 DEF Calm, TrafficCalm, IdsInv
<1>7. \A n \in DOMAIN backlog' : backlog'[n].id \in accepted'
  BY <1>1 DEF Calm, TrafficCalm, IdsInv
<1> QED
  BY <1>1, <1>2, <1>3, <1>4, <1>5, <1>6, <1>7 DEF IdsInv

LEMMA CalmFillers ==
    ASSUME TypeOK, IdsInv, FillersHaveSlots, Calm
    PROVE  FillersHaveSlots'
<1> SUFFICES ASSUME NEW t \in Threads, pc'[t] = "fill", call'[t].id \notin robbed'
             PROVE  /\ requests'[call'[t].index].id = call'[t].id
                    /\ Unanswered(requests'[call'[t].index])
  BY DEF FillersHaveSlots, Slot
<1>1. CASE pc[t] = "fill" /\ call'[t] = call[t]
  <2> DEFINE i == call[t].index
  <2>1. call[t].id \notin robbed' /\ call[t].id \notin robbed
    BY <1>1 DEF Calm, GhostsGrow
  <2>2. i \in Index /\ requests[i].id = call[t].id /\ Unanswered(requests[i])
    BY <1>1, <2>1 DEF FillersHaveSlots, Slot, TypeOK
  <2>3. call[t].id \notin accepted
    BY <1>1 DEF IdsInv
  <2>4. ~ \E e \in wire : e.id = requests[i].id
    BY <2>2, <2>3 DEF IdsInv
  <2>5. SlotCalm(i)
    BY <2>2 DEF Calm, SlotsCalm
  <2>6. requests'[i].id = requests[i].id /\ Unanswered(requests'[i])
    BY <1>1, <2>1, <2>2, <2>3, <2>4, <2>5 DEF SlotCalm
  <2> QED
    BY <1>1, <2>2, <2>6
<1> QED
  BY <1>1 DEF Calm, FillersCalm

LEMMA CalmWrites ==
    ASSUME TypeOK, IdsInv, WritesHaveSlots, Calm
    PROVE  WritesHaveSlots'
<1> SUFFICES ASSUME NEW w \in outbox', ~ w.resend, w.id \notin Gone'
             PROVE  HeldForWrite(w)'
  BY DEF WritesHaveSlots
<1>1. w.id \notin Gone /\ w.id \notin robbed' /\ w.id \notin pruned'
  BY DEF Calm, GhostsGrow, Gone
<1>2. CASE w \in outbox
  <2> DEFINE i == w.index
  <2>1. HeldForWrite(w) /\ w.id \in accepted /\ i \in Index
    BY <1>1, <1>2 DEF WritesHaveSlots, IdsInv, TypeOK
  <2>2. SlotCalm(i)
    BY <2>1 DEF Calm, SlotsCalm
  <2>3. HeldSlot(w)'
    BY <1>1, <2>1, <2>2 DEF HeldForWrite, HeldSlot, SlotCalm
  <2>4. \A v \in outbox \ outbox' : v.id # w.id
    BY <2>1 DEF HeldForWrite
  <2>5. \A e \in wire' : e.id # w.id
    BY <2>1, <2>4 DEF Calm, TrafficCalm, HeldForWrite
  <2>6. ~ InBacklog(backlog', w.id)
    BY <2>1, <2>4 DEF Calm, TrafficCalm, HeldForWrite, InBacklog
  <2>7. \A v \in outbox' : v.id = w.id => v = w
    BY <2>1 DEF Calm, TrafficCalm, HeldForWrite
  <2> QED
    BY <2>3, <2>5, <2>6, <2>7 DEF HeldForWrite
<1>3. CASE w \notin outbox
  <2>1. /\ w.id \in accepted' \ accepted /\ HeldSlot(w)'
        /\ outbox' = outbox \cup {w} /\ UNCHANGED <<wire, backlog>>
    BY <1>1, <1>3 DEF Calm, TrafficCalm
  <2>2. /\ \A e \in wire' : e.id # w.id
        /\ \A v \in outbox' : v.id = w.id => v = w
    BY <2>1 DEF IdsInv
  <2>3. ~ InBacklog(backlog', w.id)
    BY <2>1 DEF IdsInv, InBacklog
  <2> QED
    BY <2>1, <2>2, <2>3 DEF HeldForWrite
<1> QED
  BY <1>2, <1>3

LEMMA CalmKept ==
    ASSUME UnansweredIsKept, fault = "none", Calm
    PROVE  UnansweredIsKept'
<1> SUFFICES ASSUME fault' = "none", NEW id \in accepted' \ Gone'
             PROVE  InBacklog(backlog', id) \/ \E w \in outbox' : w.id = id /\ ~ w.resend
  BY DEF UnansweredIsKept, Gone
<1>1. CASE id \in accepted
  <2>1. id \notin Gone
    BY DEF Calm, GhostsGrow, Gone
  <2>2. InBacklog(backlog, id) \/ \E w \in outbox : w.id = id /\ ~ w.resend
    BY <1>1, <2>1 DEF UnansweredIsKept, Gone
  <2>3. CASE InBacklog(backlog, id)
    BY <2>3 DEF InBacklog, Calm, NothingLost
  <2>4. CASE \E w \in outbox : w.id = id /\ ~ w.resend
    BY <2>4 DEF Calm, NothingLost
  <2> QED
    BY <2>2, <2>3, <2>4
<1>2. CASE id \notin accepted
  BY <1>2 DEF Calm, NothingLost
<1> QED
  BY <1>1, <1>2

(* The parts of a step that change nothing. *)
LEMMA CalmApp ==
    ASSUME IdsInv, UNCHANGED appVars
    PROVE  ThreadsCalm /\ FillersCalm
<1> USE DEF appVars
<1>1. ThreadsCalm
  BY DEF ThreadsCalm, IdsInv
<1>2. FillersCalm
  BY DEF FillersCalm
<1> QED
  BY <1>1, <1>2

LEMMA CalmSlots ==
    ASSUME UNCHANGED requests
    PROVE  SlotsCalm
  BY DEF SlotsCalm, SlotCalm

LEMMA CalmTraffic ==
    ASSUME UNCHANGED <<backlog, outbox, wire, accepted>>
    PROVE  TrafficCalm /\ NothingLost
  BY DEF TrafficCalm, NothingLost

(* A call returns, or goes on to a label other than grab and fill. *)
LEMMA CalmReturn ==
    ASSUME TypeOK, IdsInv, NEW t \in Threads, UNCHANGED accepted,
           nextRequestId' \in {nextRequestId, nextRequestId + 1},
           Return(t) \/ (Goto(t, "handle") /\ UNCHANGED call)
    PROVE  ThreadsCalm /\ FillersCalm
<1>1. pc'[t] \in {"ready", "handle"}
  BY DEF TypeOK, Return, Goto
<1>2. \A u \in Threads : u # t => pc'[u] = pc[u] /\ call'[u] = call[u]
  BY DEF TypeOK, Return, Goto
<1>3. ThreadsCalm
  BY <1>1, <1>2 DEF ThreadsCalm, IdsInv
<1>4. FillersCalm
  BY <1>1, <1>2 DEF FillersCalm
<1> QED
  BY <1>3, <1>4

LEMMA CalmBegin ==
    ASSUME TypeOK, IdsInv, NEW t \in Threads, Begin(t)
    PROVE  Calm
<1>1. pc'[t] = "grab" /\ call'[t].id = nextRequestId
  BY DEF TypeOK, Begin, Goto
<1>2. \A u \in Threads : u # t => pc'[u] = pc[u] /\ call'[u] = call[u]
  BY DEF TypeOK, Begin, Goto
<1>3. nextRequestId' = nextRequestId + 1 /\ UNCHANGED accepted
  BY DEF Begin
<1>4. ThreadsCalm
  BY <1>1, <1>2, <1>3 DEF ThreadsCalm, IdsInv
<1>5. FillersCalm
  BY <1>1, <1>2 DEF FillersCalm
<1> QED
  BY <1>4, <1>5, CalmSlots, CalmTraffic
  DEF Calm, Begin, GhostsGrow, logVars, netVars

LEMMA CalmGrab ==
    ASSUME TypeOK, IdsInv, NEW t \in Threads, Grab(t)
    PROVE  Calm
<1>1. PICK i \in Index :
         /\ IsVacant(requests[i])
         /\ requests' = [requests EXCEPT ![i] = IdStored(Grabbed(@), call[t].id)]
         /\ call' = [call EXCEPT ![t].index = i]
  BY DEF Grab, Vacant
<1>2. pc'[t] = "fill" /\ pc[t] = "grab" /\ call'[t].id = call[t].id /\ call'[t].index = i
  BY <1>1 DEF TypeOK, Grab, Goto
<1>3. \A u \in Threads : u # t => pc'[u] = pc[u] /\ call'[u] = call[u]
  BY <1>1 DEF TypeOK, Grab, Goto
<1>4. UNCHANGED <<nextRequestId, accepted>>
  BY DEF Grab
<1>5. ThreadsCalm
  BY <1>2, <1>3, <1>4 DEF ThreadsCalm, IdsInv
<1>6. requests'[i].id = call[t].id /\ requests'[i].status = "RS_PENDING"
  BY <1>1 DEF TypeOK, SlotType, IdStored, Grabbed
<1>7. FillersCalm
  BY <1>2, <1>3, <1>6 DEF FillersCalm, Unanswered
<1>8. SlotsCalm
  <2>1. ~ Unanswered(requests[i])
    BY <1>1 DEF IsVacant, Unanswered
  <2>2. \A j \in Index : j # i => requests'[j] = requests[j]
    BY <1>1 DEF TypeOK
  <2> QED
    BY <2>1, <2>2 DEF SlotsCalm, SlotCalm
<1> QED
  BY <1>5, <1>7, <1>8, CalmTraffic
  DEF Calm, Grab, GhostsGrow, logVars, netVars

(* Filling a slot keeps its owner and its state. *)
LEMMA FilledFacts ==
    ASSUME TypeOK, NEW t \in Threads
    PROVE  /\ Filled(t).id = Slot(t).id /\ Filled(t).status = Slot(t).status
           /\ Filled(t).request = call[t].id
           /\ ClearRequestTime(Filled(t)).id = Slot(t).id
           /\ ClearRequestTime(Filled(t)).status = Slot(t).status
<1>1. Slot(t) \in SlotType
  BY DEF TypeOK, Slot
<1>2. /\ Filled(t).id = Slot(t).id /\ Filled(t).status = Slot(t).status
      /\ Filled(t).request = call[t].id
  BY <1>1 DEF Filled, SetRequestNow, SetRequest, SetFlags, SlotType
<1>3. Filled(t) \in SlotType
  BY FilledType
<1> QED
  BY <1>2, <1>3 DEF ClearRequestTime, ClearRequest, SlotType

(* A slot that is filled, by a call that still has it or by one that has   *)
(* lost it, robs the message that was in it.                               *)
LEMMA FillSlots ==
    ASSUME TypeOK, IdsInv, NEW t \in Threads, pc[t] = "fill",
           robbed' = robbed \cup Displaced(t),
           WriteSlot(t, Filled(t)) \/ WriteSlot(t, ClearRequestTime(Filled(t)))
    PROVE  SlotsCalm
<1> DEFINE i == call[t].index
<1>1. i \in Index /\ Slot(t) = requests[i]
  BY DEF TypeOK, Slot
<1>2. \A j \in Index : j # i => requests'[j] = requests[j]
  BY DEF TypeOK, WriteSlot
<1>3. requests'[i] = Filled(t) \/ requests'[i] = ClearRequestTime(Filled(t))
  BY <1>1 DEF TypeOK, WriteSlot
<1>4. requests'[i].id = requests[i].id /\ requests'[i].status = requests[i].status
  BY <1>1, <1>3, FilledFacts
<1>5. requests[i].request \notin accepted \ robbed'
  <2>1. call[t].id \notin accepted
    BY DEF IdsInv
  <2>2. NoId \notin accepted
    BY DEF NoId, TypeOK, Id
  <2> QED
    BY <1>1, <2>1, <2>2 DEF Displaced
<1>6. SlotCalm(i)
  BY <1>4, <1>5 DEF SlotCalm, Unanswered
<1> QED
  BY <1>2, <1>6 DEF SlotsCalm, SlotCalm

LEMMA CalmFill ==
    ASSUME TypeOK, IdsInv, FillersHaveSlots, NEW t \in Threads, Fill(t) \/ FillFails(t)
    PROVE  Calm
<1>1. pc[t] = "fill"
  BY DEF Fill, FillFails
<1>2. SlotsCalm
  BY <1>1, FillSlots DEF Fill, FillFails
<1>3. GhostsGrow
  BY DEF GhostsGrow, Fill, FillFails, logVars
<1>4. CASE FillFails(t)
  <2>1. ThreadsCalm /\ FillersCalm
    BY <1>4, CalmReturn DEF FillFails
  <2> QED
    BY <1>2, <1>3, <1>4, <2>1, CalmTraffic DEF Calm, FillFails, logVars, netVars
<1>5. CASE Fill(t)
  <2>a. PICK c : c = call[t]
    OBVIOUS
  <2>b. PICK v : v = [id |-> c.id, index |-> c.index, resend |-> FALSE]
    OBVIOUS
  <2>1. /\ outbox' = outbox \cup {v} /\ accepted' = accepted \cup {c.id}
        /\ UNCHANGED <<wire, backlog, nextRequestId>>
    BY <1>5, <2>a, <2>b DEF Fill, logVars
  <2>2. c.id \notin accepted /\ c.id \in Issued
    BY <1>1, <2>a DEF IdsInv
  <2>3. v.id = c.id /\ v.index = c.index /\ v.resend = FALSE
    BY <2>b
  <2>4. \A u \in Threads : u # t => pc'[u] = pc[u] /\ call'[u] = call[u]
    BY <1>5 DEF Fill, Goto, Return, TypeOK
  <2>5. pc'[t] \in {"wait", "ready"} /\ (pc'[t] = "wait" => call'[t] = call[t])
    BY <1>5 DEF Fill, Goto, Return, TypeOK
  <2>6. \A u \in Threads : u # t /\ pc[u] \in {"grab", "fill"} => call[u].id # c.id
    BY <1>1, <2>a DEF IdsInv
  <2>7. c.id \notin robbed' => HeldSlot(v)'
    <3>1. SUFFICES ASSUME c.id \notin robbed' PROVE HeldSlot(v)'
      OBVIOUS
    <3>2. c.id \notin robbed
      BY <3>1, <1>3 DEF GhostsGrow
    <3>3. Slot(t).id = c.id /\ Unanswered(Slot(t))
      BY <1>1, <2>a, <3>2 DEF FillersHaveSlots
    <3>4. requests'[c.index] = Filled(t)
      BY <1>5, <2>a DEF Fill, WriteSlot, TypeOK
    <3>5. /\ requests'[c.index].id = c.id /\ requests'[c.index].request = c.id
          /\ requests'[c.index].status = Slot(t).status
      BY <2>a, <3>3, <3>4, FilledFacts
    <3> QED
      BY <2>3, <3>3, <3>5 DEF HeldSlot, Unanswered
  <2>8. ThreadsCalm
    BY <2>a, <2>1, <2>2, <2>4, <2>5, <2>6 DEF ThreadsCalm, IdsInv
  <2>9. FillersCalm
    BY <2>4, <2>5 DEF FillersCalm
  <2>10. TrafficCalm
    BY <2>1, <2>2, <2>3, <2>7 DEF TrafficCalm
  <2>11. NothingLost
    BY <2>1, <2>3 DEF NothingLost
  <2> QED
    BY <1>2, <1>3, <2>8, <2>9, <2>10, <2>11 DEF Calm
<1> QED
  BY <1>4, <1>5

(* Undefined behaviour. *)
LEMMA CalmHalt ==
    ASSUME IdsInv, NEW kind, Halt(kind)
    PROVE  Calm
<1>1. UNCHANGED <<requests, appVars, logVars, netVars, freed, robbed>>
  BY DEF Halt
<1> QED
  BY <1>1, CalmApp, CalmSlots, CalmTraffic
  DEF Calm, GhostsGrow, appVars, logVars, netVars

(* One slot changes, and either it has got its answer or it keeps owner,   *)
(* state and message.                                                      *)
LEMMA OneSlotCalm ==
    ASSUME TypeOK, NEW i \in Index, \A j \in Index \ {i} : requests'[j] = requests[j],
           \/ ~ Unanswered(requests[i])
           \/ /\ requests'[i].id = requests[i].id
              /\ requests'[i].status = requests[i].status
              /\ requests'[i].request = requests[i].request
    PROVE  SlotsCalm
  BY DEF SlotsCalm, SlotCalm, Unanswered

LEMMA CalmWait ==
    ASSUME TypeOK, IdsInv, NEW t \in Threads, WaitOk(t) \/ WaitFails(t) \/ GrabFails(t)
    PROVE  Calm
<1> DEFINE i == call[t].index
<1>0. i \in Index /\ Slot(t) = requests[i] /\ requests[i] \in SlotType
  BY DEF TypeOK, Slot
<1>1. CASE WaitOk(t)
  <2>1. SlotsCalm
    <3>1. \A j \in Index \ {i} : requests'[j] = requests[j]
      BY <1>1 DEF WaitOk, WriteSlot, TypeOK
    <3>2. ~ Unanswered(requests[i])
      BY <1>0, <1>1 DEF WaitOk, Unanswered
    <3> QED
      BY <1>0, <3>1, <3>2, OneSlotCalm
  <2>2. ThreadsCalm /\ FillersCalm
    BY <1>1, CalmReturn DEF WaitOk
  <2> QED
    BY <1>1, <2>1, <2>2, CalmTraffic
    DEF Calm, WaitOk, GhostsGrow, logVars, netVars
<1>2. CASE WaitFails(t)
  <2>1. CASE Halt("freed") \/ Halt("null")
    BY <2>1, CalmHalt
  <2>2. CASE ~ (Halt("freed") \/ Halt("null"))
    <3>1. /\ WriteSlot(t, SetFlags(Slot(t), FALSE)) /\ Return(t)
          /\ UNCHANGED <<nextRequestId, logVars, netVars, freed, robbed, accepted>>
      BY <1>2, <2>2 DEF WaitFails
    <3>2. SlotsCalm
      <4>1. \A j \in Index \ {i} : requests'[j] = requests[j]
        BY <3>1 DEF WriteSlot, TypeOK
      <4>2. requests'[i] = SetFlags(requests[i], FALSE)
        BY <1>0, <3>1 DEF WriteSlot, TypeOK
      <4>3. /\ requests'[i].id = requests[i].id
            /\ requests'[i].status = requests[i].status
            /\ requests'[i].request = requests[i].request
        BY <1>0, <4>2 DEF SetFlags, SlotType
      <4> QED
        BY <1>0, <4>1, <4>3, OneSlotCalm
    <3>3. ThreadsCalm /\ FillersCalm
      BY <3>1, CalmReturn
    <3> QED
      BY <3>1, <3>2, <3>3, CalmTraffic DEF Calm, GhostsGrow, logVars, netVars
  <2> QED
    BY <2>1, <2>2
<1>3. CASE GrabFails(t)
  <2>1. ThreadsCalm /\ FillersCalm
    BY <1>3, CalmReturn DEF GrabFails
  <2> QED
    BY <1>3, <2>1, CalmSlots, CalmTraffic
    DEF Calm, GrabFails, GhostsGrow, logVars, netVars
<1> QED
  BY <1>1, <1>2, <1>3

(* An entry leaves the backlog and its message is freed or pruned. *)
LEMMA CalmRemoval ==
    ASSUME TypeOK, NEW STATE slots, NEW STATE id, NEW STATE size,
           RemovePendingRequest(slots, id, size), id \in Gone',
           UNCHANGED <<outbox, wire, accepted>>
    PROVE  TrafficCalm /\ NothingLost
<1>1. /\ \A n \in DOMAIN backlog' : \E m \in DOMAIN backlog : backlog'[n] = backlog[m]
      /\ \A m \in DOMAIN backlog :
            backlog[m].id # id => \E n \in DOMAIN backlog' : backlog'[n] = backlog[m]
  BY Removal DEF TypeOK
<1>2. TrafficCalm
  BY <1>1 DEF TrafficCalm
<1>3. NothingLost
  BY <1>1 DEF NothingLost
<1> QED
  BY <1>2, <1>3

LEMMA CalmHandle ==
    ASSUME TypeOK, IdsInv, NEW t \in Threads,
           HandleOk(t) \/ HandleRaces(t) \/ HandleRefused(t)
    PROVE  Calm
<1>0. call[t].id # NoId
  BY DEF TypeOK, Id, NoId
<1>1. CASE HandleOk(t)
  <2>1. freed' = freed \cup {call[t].id} /\ UNCHANGED <<pruned, robbed>>
    BY <1>0, <1>1 DEF HandleOk, Free
  <2>2. TrafficCalm /\ NothingLost
    BY <1>1, <2>1, CalmRemoval DEF HandleOk, netVars, Gone
  <2>3. ThreadsCalm /\ FillersCalm
    BY <1>1, CalmReturn DEF HandleOk
  <2> QED
    BY <1>1, <2>1, <2>2, <2>3, CalmSlots DEF Calm, HandleOk, GhostsGrow
<1>2. CASE HandleRaces(t)
  BY <1>2, CalmHalt DEF HandleRaces
<1>3. CASE HandleRefused(t)
  <2>1. SlotsCalm
    <3>1. CASE UNCHANGED requests
      BY <3>1, CalmSlots
    <3>2. ASSUME NEW i \in Index, Vacant(nextRequestId, i),
                 requests' = [requests EXCEPT
                    ![i] = SetRequestNow(IdStored(Grabbed(@), nextRequestId), call[t].id)]
          PROVE  SlotsCalm
      <4>1. ~ Unanswered(requests[i])
        BY <3>2 DEF Vacant, IsVacant, Unanswered
      <4>2. \A j \in Index \ {i} : requests'[j] = requests[j]
        BY <3>2 DEF TypeOK
      <4> QED
        BY <4>1, <4>2, OneSlotCalm
    <3> QED
      BY <1>3, <3>1, <3>2 DEF HandleRefused
  <2>2. ThreadsCalm /\ FillersCalm
    BY <1>3, CalmReturn DEF HandleRefused
  <2>3. freed \subseteq freed'
    BY <1>3 DEF HandleRefused, Free
  <2> QED
    BY <1>3, <2>1, <2>2, <2>3, CalmTraffic
    DEF Calm, HandleRefused, GhostsGrow, logVars, netVars
<1> QED
  BY <1>1, <1>2, <1>3

(* The first write of a message that is not gone finds its slot, so that   *)
(* onLoopSend adds it to the backlog.                                      *)
LEMMA CalmAsyncWrite ==
    ASSUME TypeOK, IdsInv, WritesHaveSlots, NEW w \in outbox, AsyncWrite(w)
    PROVE  Calm
<1> DEFINE e == [id |-> w.id, index |-> w.index]
<1>1. /\ outbox' = outbox \ {w} /\ wire' \subseteq wire \cup {e}
      /\ UNCHANGED <<requests, appVars, freed, robbed>>
      /\ w.resend \in BOOLEAN
      /\ IF w.resend THEN UNCHANGED <<logVars, fault>> ELSE OnLoopSend(e)
  BY DEF AsyncWrite, WriteTransport, TypeOK
<1>2. e \in Entry /\ e.id = w.id /\ e.index = w.index
  BY DEF TypeOK, Entry
<1> HIDE DEF e
<1>3. ThreadsCalm /\ FillersCalm /\ SlotsCalm
  BY <1>1, CalmApp, CalmSlots
<1>4. UNCHANGED pruned
  BY <1>1 DEF OnLoopSend, logVars
<1>5. GhostsGrow
  BY <1>1, <1>4 DEF GhostsGrow
<1>6. w \in outbox \ outbox' /\ UNCHANGED accepted
  BY <1>1 DEF appVars
<1>7. \A v \in outbox' : v \in outbox
  BY <1>1
<1>8. \A d \in wire' : d \in wire \/ \E v \in outbox \ outbox' : v.id = d.id
  BY <1>1, <1>2, <1>6
<1>9. CASE UNCHANGED backlog
  <2>1. TrafficCalm
    BY <1>7, <1>8, <1>9 DEF TrafficCalm
  <2>2. ~ w.resend => w.id \in Gone' \/ InBacklog(backlog', w.id) \/ fault' # "none"
    <3>1. SUFFICES ASSUME ~ w.resend, w.id \notin Gone', fault' = "none"
                   PROVE  InBacklog(backlog', w.id)
      OBVIOUS
    <3>2. w.id \notin Gone
      BY <3>1, <1>5 DEF Gone, GhostsGrow
    <3>3. HeldForWrite(w)
      BY <3>1, <3>2 DEF WritesHaveSlots
    <3>4. requests[e.index].id = e.id /\ ~ InBacklog(backlog, e.id) /\ e.id \notin freed
      BY <1>2, <3>2, <3>3 DEF HeldForWrite, HeldSlot, Gone
    <3>5. \E p \in Places(backlog, requests, e) : backlog' = InsertAt(backlog, p, e)
      BY <1>1, <3>1, <3>4 DEF OnLoopSend
    <3>6. \E n \in DOMAIN backlog' : backlog'[n] = e
      BY <1>2, <3>5, Insertion DEF TypeOK
    <3> QED
      BY <1>2, <3>6 DEF InBacklog
  <2>3. NothingLost
    BY <1>1, <1>6, <1>9, <2>2 DEF NothingLost
  <2> QED
    BY <1>3, <1>5, <2>1, <2>3 DEF Calm
<1>10. CASE \E p \in Places(backlog, requests, e) : backlog' = InsertAt(backlog, p, e)
  <2>1. /\ \A n \in DOMAIN backlog' :
              backlog'[n] = e \/ \E m \in DOMAIN backlog : backlog'[n] = backlog[m]
        /\ \A m \in DOMAIN backlog : \E n \in DOMAIN backlog' : backlog'[n] = backlog[m]
        /\ \E n \in DOMAIN backlog' : backlog'[n] = e
    BY <1>2, <1>10, Insertion DEF TypeOK
  <2>2. TrafficCalm
    BY <1>2, <1>6, <1>7, <1>8, <2>1 DEF TrafficCalm
  <2>3. InBacklog(backlog', w.id)
    BY <1>2, <2>1 DEF InBacklog
  <2>4. NothingLost
    BY <1>1, <1>6, <2>1, <2>3 DEF NothingLost
  <2> QED
    BY <1>3, <1>5, <2>2, <2>4 DEF Calm
<1> QED
  BY <1>1, <1>9, <1>10 DEF OnLoopSend, logVars

(* An answer is stored in a slot only when the message was on the wire. *)
LEMMA CalmRecv ==
    ASSUME TypeOK, IdsInv, NEW e \in wire, Recv(e)
    PROVE  Calm
<1>1. e.index \in Index
  BY DEF TypeOK, Entry
<1>2. SlotsCalm
  <2>1. \A j \in Index \ {e.index} : requests'[j] = requests[j]
    BY DEF Recv, TypeOK
  <2>2. SlotCalm(e.index)
    <3>1. CASE requests[e.index].id = e.id
      BY <3>1 DEF SlotCalm
    <3>2. CASE requests[e.index].id # e.id
      <4>1. requests'[e.index] = requests[e.index]
        BY <1>1, <3>2 DEF Recv, TypeOK
      <4> QED
        BY <4>1 DEF SlotCalm
    <3> QED
      BY <3>1, <3>2
  <2> QED
    BY <2>1, <2>2 DEF SlotsCalm, SlotCalm
<1>3. TrafficCalm
  BY DEF Recv, TrafficCalm, logVars, appVars
<1>4. NothingLost
  BY DEF Recv, NothingLost, logVars, appVars
<1> QED
  BY <1>2, <1>3, <1>4, CalmApp DEF Calm, Recv, GhostsGrow, logVars

(* An aborted slot is still one without an answer, and has its message. *)
LEMMA CalmDisconnect ==
    ASSUME TypeOK, IdsInv, Disconnect
    PROVE  Calm
<1>1. SlotsCalm
  <2> SUFFICES ASSUME NEW i \in Index, Unanswered(requests[i])
               PROVE  /\ requests'[i].id = requests[i].id
                      /\ Unanswered(requests'[i])
                      /\ requests'[i].request = requests[i].request
    BY DEF SlotsCalm, SlotCalm
  <2>1. requests'[i] = AbortResponse(requests[i]) /\ requests[i] \in SlotType
    BY DEF Disconnect, TypeOK
  <2> QED
    BY <2>1 DEF AbortResponse, Unanswered, SlotType
<1>2. TrafficCalm
  BY DEF Disconnect, TrafficCalm, logVars, appVars
<1>3. NothingLost
  BY DEF Disconnect, NothingLost, logVars, appVars
<1> QED
  BY <1>1, <1>2, <1>3, CalmApp DEF Calm, Disconnect, GhostsGrow, logVars

(* What the pass does with an answered slot does not matter here; an       *)
(* expiry frees the message or robs whoever has the slot by now.           *)
LEMMA CalmPass ==
    ASSUME TypeOK, IdsInv, NEW ok \in BOOLEAN, PassArrived(ok) \/ Expire
    PROVE  Calm
<1> DEFINE i == io.at
           slot == requests[i]
           cleared == [requests EXCEPT ![i] = ClearResponseTime(slot)]
<1>0. i \in Index /\ slot \in SlotType /\ NoId \notin accepted
  BY DEF TypeOK, IoType, Id, NoId
<1>1. cleared \in [Index -> SlotType] /\ \A j \in Index \ {i} : cleared[j] = requests[j]
  <2>1. 0 \in Id
    BY SenderAssumption DEF Id
  <2>2. ClearResponseTime(slot) \in SlotType
    BY <1>0, <2>1, SlotOps
  <2> QED
    BY <1>0, <2>2, PoolUpdate DEF TypeOK
<1> HIDE DEF cleared
<1>2. CASE PassArrived(ok)
  <2>1. CASE Halt("freed") \/ Halt("null")
    BY <2>1, CalmHalt
  <2>2. CASE ~ (Halt("freed") \/ Halt("null"))
    <3>1. /\ requests' = cleared
          /\ IF ok THEN RemovePendingRequest(cleared, slot.request, sizeBytes)
             ELSE UNCHANGED <<backlog, sizeBytes>>
          /\ ok => slot.request # NoId
          /\ Free(slot.request)
          /\ UNCHANGED <<appVars, pruned, netVars, robbed>>
          /\ slot.status = "RS_ARRIVED"
      BY <1>2, <2>2 DEF PassArrived, cleared
    <3>2. SlotsCalm
      <4>1. ~ Unanswered(requests[i])
        BY <3>1 DEF Unanswered
      <4>2. \A j \in Index \ {i} : requests'[j] = requests[j]
        BY <1>1, <3>1
      <4> QED
        BY <1>0, <4>1, <4>2, OneSlotCalm
    <3>3. GhostsGrow
      BY <3>1 DEF GhostsGrow, Free
    <3>4. UNCHANGED <<outbox, wire, accepted>>
      BY <3>1 DEF netVars, appVars
    <3>5. TrafficCalm /\ NothingLost
      <4>1. CASE ~ ok
        BY <3>1, <3>4, <4>1, CalmTraffic
      <4>2. CASE ok
        <5>1. slot.request \in Gone'
          BY <3>1, <4>2 DEF Free, Gone
        <5>2. RemovePendingRequest(cleared, slot.request, sizeBytes)
          BY <3>1, <4>2
        <5> QED
          BY <3>4, <5>1, <5>2, CalmRemoval
      <4> QED
        BY <4>1, <4>2
    <3> QED
      BY <3>1, <3>2, <3>3, <3>5, CalmApp DEF Calm
  <2> QED
    BY <2>1, <2>2
<1>3. CASE Expire
  <2>1. CASE Halt("freed")
    BY <2>1, CalmHalt
  <2>2. CASE ~ Halt("freed")
    <3> DEFINE fillers == {u \in Threads : pc[u] = "fill" /\ call[u].index = i}
    <3>1. /\ requests' = cleared
          /\ Free(io.request)
          /\ robbed' = robbed \cup {call[t].id : t \in fillers}
                              \cup ({slot.request} \ {io.request, NoId})
          /\ UNCHANGED <<appVars, logVars, netVars>>
      BY <1>3, <2>2 DEF Expire, cleared
    <3>2. \A u \in Threads : pc[u] = "fill" /\ call[u].index = i => call[u].id \in robbed'
      BY <3>1
    <3>3. slot.request \notin accepted \ Gone'
      <4>1. CASE slot.request = NoId
        BY <1>0, <4>1
      <4>2. CASE slot.request = io.request /\ slot.request # NoId
        BY <3>1, <4>2 DEF Free, Gone
      <4>3. CASE slot.request # io.request /\ slot.request # NoId
        BY <3>1, <4>3 DEF Gone
      <4> QED
        BY <4>1, <4>2, <4>3
    <3>4. SlotsCalm
      <4>1. SlotCalm(i)
        BY <3>2, <3>3 DEF SlotCalm
      <4>2. \A j \in Index \ {i} : requests'[j] = requests[j]
        BY <1>1, <3>1
      <4> QED
        BY <4>1, <4>2 DEF SlotsCalm, SlotCalm
    <3>5. GhostsGrow
      BY <3>1 DEF GhostsGrow, Free, logVars
    <3> QED
      BY <3>1, <3>4, <3>5, CalmApp, CalmTraffic DEF Calm, appVars, logVars, netVars
  <2> QED
    BY <2>1, <2>2
<1> QED
  BY <1>2, <1>3

(* A pruned message gives up its slot and its entry. *)
LEMMA CalmPrune ==
    ASSUME TypeOK, IdsInv, PruneHead
    PROVE  Calm
<1> DEFINE e == Head(backlog)
           slot == requests[e.index]
           cleared == IF slot.id = e.id
                      THEN [requests EXCEPT ![e.index] = ClearResponseTime(slot)]
                      ELSE requests
<1>1. e \in Entry /\ \E m \in DOMAIN backlog : e = backlog[m]
  <2>1. backlog # <<>> /\ backlog \in Seq(Entry)
    BY DEF PruneHead, TypeOK
  <2>2. 1 \in DOMAIN backlog /\ e = backlog[1] /\ backlog[1] \in Entry
    BY <2>1
  <2> QED
    BY <2>2
<1>2. e.index \in Index /\ e.id \in accepted
  BY <1>1 DEF Entry, IdsInv
<1> HIDE DEF e
<1>3. CASE Halt("freed")
  BY <1>3, CalmHalt
<1>4. CASE ~ Halt("freed")
  <2>1. /\ requests' = cleared
        /\ RemovePendingRequest(cleared, e.id, Reduced(sizeBytes, e.id))
        /\ pruned' = pruned \cup {e.id}
        /\ UNCHANGED <<appVars, netVars, freed, robbed>>
    BY <1>4 DEF PruneHead, e
  <2>2. SlotsCalm
    <3>1. \A j \in Index : j # e.index => requests'[j] = requests[j]
      BY <1>2, <2>1 DEF TypeOK
    <3>2. SlotCalm(e.index)
      <4>1. CASE slot.id = e.id
        BY <1>2, <2>1, <4>1 DEF SlotCalm
      <4>2. CASE slot.id # e.id
        BY <2>1, <4>2 DEF SlotCalm
      <4> QED
        BY <4>1, <4>2
    <3> QED
      BY <3>1, <3>2 DEF SlotsCalm, SlotCalm
  <2> HIDE DEF cleared
  <2>3. TrafficCalm /\ NothingLost
    <3>1. e.id \in Gone' /\ UNCHANGED <<outbox, wire, accepted>>
      BY <2>1 DEF Gone, netVars, appVars
    <3> QED
      BY <2>1, <3>1, CalmRemoval
  <2> QED
    BY <2>1, <2>2, <2>3, CalmApp DEF Calm, GhostsGrow
<1> QED
  BY <1>3, <1>4

(* A resent message keeps its entry; when the write fails its slot forgets *)
(* it, and the entry stays.                                                *)
LEMMA CalmResend ==
    ASSUME TypeOK, IdsInv, ResendOk \/ ResendFails \/ ResendFreed
    PROVE  Calm
<1> DEFINE e == Head(backlog)
<1>1. /\ e \in Entry /\ Tail(backlog) \in Seq(Entry)
      /\ InBacklog(backlog, e.id)
      /\ \A m \in DOMAIN backlog :
            backlog[m] = e \/ \E n \in DOMAIN Tail(backlog) : Tail(backlog)[n] = backlog[m]
      /\ \A n \in DOMAIN Tail(backlog) : \E m \in DOMAIN backlog : Tail(backlog)[n] = backlog[m]
      /\ \E m \in DOMAIN backlog : e = backlog[m]
  <2>1. backlog # <<>> /\ backlog \in Seq(Entry)
    BY DEF ResendOk, ResendFails, ResendFreed, HeadDue, HasReady, TypeOK
  <2>2. /\ 1 \in DOMAIN backlog /\ e = backlog[1] /\ backlog[1] \in Entry
        /\ Tail(backlog) \in Seq(Entry)
    BY <2>1
  <2>3. ASSUME NEW m \in DOMAIN backlog
        PROVE  backlog[m] = e \/ \E n \in DOMAIN Tail(backlog) : Tail(backlog)[n] = backlog[m]
    <3>1. CASE m = 1
      BY <2>2, <3>1
    <3>2. CASE m # 1
      <4>1. m - 1 \in DOMAIN Tail(backlog) /\ Tail(backlog)[m - 1] = backlog[m]
        BY <2>1, <3>2
      <4> QED
        BY <4>1
    <3> QED
      BY <3>1, <3>2
  <2>4. ASSUME NEW n \in DOMAIN Tail(backlog)
        PROVE  \E m \in DOMAIN backlog : Tail(backlog)[n] = backlog[m]
    <3>1. n + 1 \in DOMAIN backlog /\ Tail(backlog)[n] = backlog[n + 1]
      BY <2>1
    <3> QED
      BY <3>1
  <2> QED
    BY <2>2, <2>3, <2>4 DEF InBacklog
<1>2. e.index \in Index /\ requests[e.index] \in SlotType
  BY <1>1 DEF Entry, TypeOK
<1> HIDE DEF e
<1>3. CASE ResendOk
  <2> DEFINE slots == [requests EXCEPT ![e.index] = UpdateResendTime(SetFlags(@, FALSE))]
             again == [FirstWrite(e) EXCEPT !.resend = TRUE]
             rest == Tail(backlog)
  <2>1. CASE Halt("freed")
    BY <2>1, CalmHalt
  <2>2. CASE ~ Halt("freed")
    <3>1. /\ outbox' = outbox \cup {again}
          /\ requests' = slots
          /\ PutBack(slots)
          /\ UNCHANGED <<appVars, pruned, wire, freed, robbed>>
      BY <1>3, <2>2 DEF ResendOk, e
    <3>2. SlotsCalm
      <4>1. \A j \in Index \ {e.index} : requests'[j] = requests[j]
        BY <1>2, <3>1 DEF TypeOK
      <4>2. requests'[e.index] = UpdateResendTime(SetFlags(requests[e.index], FALSE))
        BY <1>2, <3>1 DEF TypeOK
      <4>3. /\ requests'[e.index].id = requests[e.index].id
            /\ requests'[e.index].status = requests[e.index].status
            /\ requests'[e.index].request = requests[e.index].request
        BY <1>2, <4>2 DEF UpdateResendTime, SetFlags, SlotType
      <4> QED
        BY <1>2, <4>1, <4>3, OneSlotCalm
    <3>3. again.resend = TRUE /\ again.id = e.id
      BY DEF FirstWrite
    <3> HIDE DEF slots, again
    <3>4. /\ \A n \in DOMAIN backlog' :
                backlog'[n] = e \/ \E m \in DOMAIN rest : backlog'[n] = rest[m]
          /\ \A m \in DOMAIN rest : \E n \in DOMAIN backlog' : backlog'[n] = rest[m]
          /\ \E n \in DOMAIN backlog' : backlog'[n] = e
      <4>1. /\ rest \in Seq(Entry)
            /\ \E p \in Places(rest, slots, e) : backlog' = InsertAt(rest, p, e)
        BY <1>1, <3>1 DEF PutBack, e
      <4> HIDE DEF rest
      <4> QED
        BY <1>1, <4>1, Insertion
    <3>5. /\ \A n \in DOMAIN backlog' : \E m \in DOMAIN backlog : backlog'[n] = backlog[m]
          /\ \A m \in DOMAIN backlog : \E n \in DOMAIN backlog' : backlog'[n] = backlog[m]
      BY <1>1, <3>4
    <3>6. TrafficCalm
      BY <1>1, <3>1, <3>3, <3>5 DEF TrafficCalm
    <3>7. NothingLost
      BY <3>1, <3>5 DEF NothingLost, appVars
    <3> QED
      BY <3>1, <3>2, <3>6, <3>7, CalmApp DEF Calm, GhostsGrow
  <2> QED
    BY <2>1, <2>2
<1>4. CASE ResendFails
  <2>1. /\ requests' = [requests EXCEPT
              ![e.index] = UpdateResendTime(ClearRequestTime(SetFlags(@, FALSE)))]
        /\ requests[e.index].id = e.id
        /\ UNCHANGED <<appVars, logVars, netVars, freed, robbed>>
    BY <1>4 DEF ResendFails, HeadDue, e
  <2>2. \A j \in Index : j # e.index => requests'[j] = requests[j]
    BY <1>2, <2>1 DEF TypeOK
  <2>3. requests'[e.index] = UpdateResendTime(ClearRequestTime(SetFlags(requests[e.index], FALSE)))
    BY <1>2, <2>1 DEF TypeOK
  <2>4. /\ requests'[e.index].id = requests[e.index].id
        /\ requests'[e.index].status = requests[e.index].status
    BY <1>2, <2>3 DEF UpdateResendTime, ClearRequestTime, ClearRequest, SetFlags, SlotType
  <2>5. SlotCalm(e.index)
    BY <1>1, <2>1, <2>4 DEF SlotCalm, Unanswered
  <2>6. SlotsCalm
    BY <2>2, <2>5 DEF SlotsCalm, SlotCalm
  <2> QED
    BY <2>1, <2>6, CalmApp, CalmTraffic
    DEF Calm, GhostsGrow, appVars, logVars, netVars
<1>5. CASE ResendFreed
  BY <1>5, CalmHalt DEF ResendFreed
<1> QED
  BY <1>3, <1>4, <1>5

(* Time passes in every slot. *)
LEMMA CalmTick ==
    ASSUME TypeOK, IdsInv, Tick
    PROVE  Calm
<1>1. SlotsCalm
  <2> SUFFICES ASSUME NEW i \in Index
               PROVE  /\ requests'[i].id = requests[i].id
                      /\ requests'[i].status = requests[i].status
                      /\ requests'[i].request = requests[i].request
    BY DEF SlotsCalm, SlotCalm, Unanswered
  <2>1. /\ requests[i] \in SlotType
        /\ requests'[i] = [requests[i] EXCEPT !.requestAge = AgeBy1(@),
                              !.resendAge = IF @ < ResendPeriod THEN @ + 1 ELSE @]
    BY DEF TypeOK, Tick
  <2> QED
    BY <2>1 DEF SlotType
<1>2. UNCHANGED <<appVars, logVars, netVars, freed, robbed>>
  BY DEF Tick
<1> QED
  BY <1>1, <1>2, CalmApp, CalmTraffic
  DEF Calm, GhostsGrow, appVars, logVars, netVars

(* Everything else leaves slots, threads, traffic and backlog alone. *)
LEMMA CalmElsewhere ==
    ASSUME IdsInv, UNCHANGED <<requests, appVars, logVars, freed, robbed, outbox, wire>>
    PROVE  Calm
  BY CalmApp, CalmSlots, CalmTraffic DEF Calm, GhostsGrow, appVars, logVars

LEMMA CalmNext ==
    ASSUME TypeOK, KeptInv, [Next]_vars
    PROVE  Calm
<1> USE DEF KeptInv
<1>1. CASE UNCHANGED vars
  BY <1>1, CalmElsewhere DEF vars, appVars, logVars
<1>2. ASSUME NEW t \in Threads, Begin(t) \/ ThreadStep(t)
      PROVE  Calm
  BY <1>2, CalmBegin, CalmGrab, CalmFill, CalmWait, CalmHandle DEF ThreadStep
<1>3. CASE IoStep
  <2>1. CASE PassSkip \/ PassExpire
    BY <2>1, CalmElsewhere DEF PassSkip, PassExpire, netVars
  <2>2. CASE PruneDone \/ Rearm \/ OnLoopInterrupt \/ LoopStops
    BY <2>2, CalmElsewhere DEF PruneDone, Rearm, OnLoopInterrupt, LoopStops, netVars
  <2>3. CASE \E k \in timers : TimerFires(k)
    BY <2>3, CalmElsewhere DEF TimerFires, netVars
  <2>4. CASE PassArrived(TRUE) \/ PassArrived(FALSE) \/ Expire
    BY <2>4, CalmPass
  <2> QED
    BY <1>3, <2>1, <2>2, <2>3, <2>4, CalmAsyncWrite, CalmPrune, CalmResend DEF IoStep
<1>4. CASE StopBegin \/ StopStep
  BY <1>4, CalmElsewhere DEF StopBegin, StopStep, WaitBacklogEmpty, Join, netVars
<1>5. CASE Disconnect \/ Tick \/ \E e \in wire : Recv(e)
  BY <1>5, CalmDisconnect, CalmTick, CalmRecv
<1> QED
  BY <1>1, <1>2, <1>3, <1>4, <1>5 DEF Next, Step

LEMMA KeptInit == Init => KeptInv
<1> SUFFICES ASSUME Init PROVE KeptInv
  OBVIOUS
<1>1. IdsInv
  BY DEF Init, IdsInv
<1>2. FillersHaveSlots /\ WritesHaveSlots /\ UnansweredIsKept
  BY DEF Init, FillersHaveSlots, WritesHaveSlots, UnansweredIsKept
<1> QED
  BY <1>1, <1>2 DEF KeptInv

LEMMA KeptNext == TypeOK /\ TypeOK' /\ KeptInv /\ [Next]_vars => KeptInv'
<1> SUFFICES ASSUME TypeOK, TypeOK', KeptInv, [Next]_vars
             PROVE  KeptInv'
  OBVIOUS
<1>1. Calm
  BY CalmNext
<1>2. IdsInv' /\ FillersHaveSlots' /\ WritesHaveSlots'
  BY <1>1, CalmIds, CalmFillers, CalmWrites DEF KeptInv
<1>3. UnansweredIsKept'
  <2>1. CASE UNCHANGED vars
    BY <2>1 DEF KeptInv, UnansweredIsKept, InBacklog, vars
  <2>2. CASE Next
    BY <1>1, <2>2, CalmKept DEF KeptInv, Next
  <2> QED
    BY <2>1, <2>2
<1> QED
  BY <1>2, <1>3 DEF KeptInv

(* MsgSender never loses track of a message whose write was accepted:      *)
(* until it is answered, expires or is pruned, or its slot goes to another *)
(* call first, it waits for its first write or is in the backlog.  The     *)
(* argument is that the slot of a message is its own from the moment it is *)
(* taken until onLoopSend looks it up.                                     *)
THEOREM UnansweredAlwaysKept == Spec => []UnansweredIsKept
<1>1. KeptInv => UnansweredIsKept
  BY DEF KeptInv
<1> QED
  BY <1>1, KeptInit, KeptNext, TypeCorrect, PTL DEF Spec
===============================================================================
