--------------------------- MODULE MsgAssembler_proofs ---------------------------
(***************************************************************************)
(* Proofs about MsgAssembler.                                              *)
(*                                                                         *)
(* On a sound connection the inductive invariant SoundInv says where in    *)
(* the stream the assembler is: at the beginning of the message after      *)
(* those delivered, with m_size bytes of it and of what follows in the     *)
(* buffers. It needs nothing about the contents of messages.               *)
(*                                                                         *)
(* On other connections (bytes in front of the first message, a message    *)
(* lost because allocMsg failed, an offset kept by reset()) that place is  *)
(* not known. LooseInv says what is left: the buffers are a part of what   *)
(* was sent, and the place only moves forward. With it, and because the    *)
(* magic word stands only where a message begins (MagicPlaces), a header   *)
(* that passes isValid is the header of a message that comes after those   *)
(* delivered. While no message is lost, the header that onWaitBody reads   *)
(* is the one that onWaitHeader has peeked; after that it may be anything, *)
(* and LooseInv only says that the place still moves forward.              *)
(***************************************************************************)
EXTENDS MsgAssembler, MsgFrame_proofs

(* The messages of a script as they stand on the wire. *)
Texts(s) == [m \in DOMAIN s |-> Text(s, m)]

(* Where message k + 1 begins on the wire. *)
Start(s, k) == Len(Wire(SubSeq(s, 1, k)))

(* The magic word, element by element. *)
LEMMA MagicParts ==
    /\ Len(Magic) = 3 /\ HeaderLength = 4 /\ Magic \in Seq(Int)
    /\ Magic[1] = -1 /\ Magic[2] = -2 /\ Magic[3] = -3
BY DEF Magic, HeaderLength

(* What a script is made of. *)
LEMMA ScriptType ==
    ASSUME NEW s \in Scripts
    PROVE  /\ s \in Seq(App) /\ Len(s) \in Nat /\ DOMAIN s = 1 .. Len(s)
           /\ \A m \in 1 .. Len(s) : s[m] \in App /\ (~ s[m].batch => Len(s[m].buffers) = 1)
<1>1. s \in Seq(App) /\ \A m \in DOMAIN s : ~ s[m].batch => Len(s[m].buffers) = 1
  BY ScriptsAssumption, Zenon DEF App
<1>2. Len(s) \in Nat /\ DOMAIN s = 1 .. Len(s)
  BY <1>1, LenProperties
<1>3. \A m \in 1 .. Len(s) : s[m] \in App
  BY <1>1, ElementOfSeq
<1>4. QED
  BY <1>1, <1>2, <1>3, Zenon

(* The bytes of a message: the magic word, the number, the payload. *)
LEMMA TextParts ==
    ASSUME NEW s \in Scripts, NEW m \in 1 .. Len(s)
    PROVE  /\ FrameOf(s[m]).payload \in Seq(Int)
           /\ Text(s, m) \in Seq(Int)
           /\ Len(Text(s, m)) = 4 + Len(FrameOf(s[m]).payload)
           /\ Len(FrameOf(s[m]).payload) \in Nat
           /\ Text(s, m)[1] = -1 /\ Text(s, m)[2] = -2 /\ Text(s, m)[3] = -3
           /\ Text(s, m)[4] = m
           /\ \A i \in 1 .. Len(FrameOf(s[m]).payload) :
                 Text(s, m)[4 + i] = FrameOf(s[m]).payload[i]
<1> DEFINE p == FrameOf(s[m]).payload
           h == Magic \o <<m>>
<1>1. p \in Seq(Int)
  BY ScriptType, FrameParts
<1>2. m \in Int
  BY ScriptType
<1> HIDE DEF p
<1>3. h \in Seq(Int) /\ Len(h) = 4 /\ h[1] = -1 /\ h[2] = -2 /\ h[3] = -3 /\ h[4] = m
  BY <1>2 DEF Magic
<1>4. Text(s, m) = h \o p
  BY Zenon DEF Text, p
<1> HIDE DEF h
<1>5. Len(p) \in Nat
  BY <1>1
<1>6. h \o p \in Seq(Int) /\ Len(h \o p) = Len(h) + Len(p)
  BY <1>1, <1>3, ConcatProperties
<1>7. \A i \in 1 .. Len(h) + Len(p) : (h \o p)[i] = IF i <= Len(h) THEN h[i] ELSE p[i - Len(h)]
  BY <1>1, <1>3, ConcatProperties
<1>8. (h \o p)[1] = -1 /\ (h \o p)[2] = -2 /\ (h \o p)[3] = -3 /\ (h \o p)[4] = m
  <2>1. ASSUME NEW i \in 1 .. 4 PROVE (h \o p)[i] = h[i]
    <3>1. i \in 1 .. Len(h) + Len(p) /\ i <= Len(h)
      BY <1>3, <1>5
    <3>2. QED
      BY <1>7, <3>1, Zenon
  <2>2. 1 \in 1 .. 4 /\ 2 \in 1 .. 4 /\ 3 \in 1 .. 4 /\ 4 \in 1 .. 4
    OBVIOUS
  <2>3. QED
    BY <1>3, <2>1, <2>2, Zenon
<1>9. ASSUME NEW i \in 1 .. Len(p) PROVE (h \o p)[4 + i] = p[i]
  <2>1. 4 + i \in 1 .. Len(h) + Len(p) /\ ~ (4 + i <= Len(h)) /\ (4 + i) - Len(h) = i
    BY <1>3, <1>5
  <2>2. QED
    BY <1>7, <2>1, Zenon
<1>10. Len(h \o p) = 4 + Len(p)
  BY <1>3, <1>5, <1>6
<1>11. QED
  BY <1>1, <1>4, <1>5, <1>6, <1>8, <1>9, <1>10, Zenon DEF p

(* The wire is the messages put together. *)
LEMMA TextsType ==
    ASSUME NEW s \in Scripts
    PROVE  /\ Texts(s) \in Seq(Seq(Int)) /\ Len(Texts(s)) = Len(s)
           /\ \A m \in 1 .. Len(s) : Texts(s)[m] = Text(s, m)
           /\ Wire(s) = FlattenSeq(Texts(s)) /\ Wire(s) \in Seq(Int)
<1>1. Len(s) \in Nat /\ DOMAIN s = 1 .. Len(s)
  BY ScriptType
<1>2. \A m \in 1 .. Len(s) : Text(s, m) \in Seq(Int)
  BY TextParts
<1>3. Texts(s) = [m \in 1 .. Len(s) |-> Text(s, m)]
  BY <1>1, Zenon DEF Texts
<1>4. Texts(s) \in [1 .. Len(s) -> Seq(Int)]
  BY <1>2, <1>3
<1>5. Texts(s) \in Seq(Seq(Int)) /\ Len(Texts(s)) = Len(s)
  BY <1>1, <1>4
<1>6. Wire(s) = FlattenSeq(Texts(s))
  BY Zenon DEF Wire, Texts
<1>7. Wire(s) \in Seq(Int)
  BY <1>5, <1>6, FlattenType
<1>8. QED
  BY <1>3, <1>5, <1>6, <1>7

(* The begin of a message in terms of the lengths before it. *)
LEMMA StartIsSpan ==
    ASSUME NEW s \in Scripts, NEW k \in 0 .. Len(s)
    PROVE  Start(s, k) = Span(Texts(s), k) /\ Start(s, k) \in Nat
<1> DEFINE t == SubSeq(s, 1, k)
           u == SubSeq(Texts(s), 1, k)
<1>1. Len(s) \in Nat /\ s \in Seq(App) /\ k \in Nat /\ k <= Len(s)
  BY ScriptType
<1>2. t \in Seq(App) /\ Len(t) = k /\ DOMAIN t = 1 .. k /\ \A m \in 1 .. k : t[m] = s[m]
  BY <1>1
<1>3. /\ u \in Seq(Seq(Int)) /\ Len(u) = k /\ DOMAIN u = 1 .. k
      /\ u = [m \in 1 .. k |-> u[m]]
      /\ \A m \in 1 .. k : u[m] = Texts(s)[m]
  BY <1>1, TextsType
<1> HIDE DEF t, u
<1>4. ASSUME NEW m \in 1 .. k PROVE Text(t, m) = u[m]
  <2>1. t[m] = s[m] /\ m \in 1 .. Len(s)
    BY <1>1, <1>2
  <2>2. Text(t, m) = Text(s, m)
    BY <2>1, Zenon DEF Text
  <2>3. QED
    BY <1>3, <2>1, <2>2, TextsType
<1>5. Texts(t) = u
  <2>1. Texts(t) = [m \in 1 .. k |-> Text(t, m)]
    BY <1>2, Zenon DEF Texts
  <2>2. QED
    BY <1>3, <1>4, <2>1
<1>6. Wire(t) = FlattenSeq(u)
  BY <1>5, Zenon DEF Wire, Texts
<1>7. Start(s, k) = Span(Texts(s), k)
  BY <1>6, Zenon DEF Start, Span, t, u
<1>8. k \in 0 .. Len(Texts(s))
  BY TextsType
<1>9. QED
  BY <1>7, <1>8, TextsType, PrefixType

(* A message ends where the next one begins, and has at least a header. *)
LEMMA StartStep ==
    ASSUME NEW s \in Scripts, NEW k \in 0 .. Len(s) - 1
    PROVE  /\ Start(s, k + 1) = Start(s, k) + Len(Text(s, k + 1))
           /\ Len(Text(s, k + 1)) \in Nat /\ Len(Text(s, k + 1)) >= 4
           /\ Start(s, k) \in Nat /\ Start(s, k + 1) \in Nat
<1>1. /\ k \in 0 .. Len(s) /\ k + 1 \in 0 .. Len(s) /\ k + 1 \in 1 .. Len(s)
      /\ k \in 0 .. Len(Texts(s)) - 1
  BY ScriptType, TextsType
<1>2. Span(Texts(s), k + 1) = Span(Texts(s), k) + Len(Texts(s)[k + 1])
  BY <1>1, TextsType, SpanStep
<1>3. Texts(s)[k + 1] = Text(s, k + 1)
  BY <1>1, TextsType
<1>4. Start(s, k + 1) = Start(s, k) + Len(Text(s, k + 1))
  BY <1>1, <1>2, <1>3, StartIsSpan
<1>5. Len(Text(s, k + 1)) \in Nat /\ Len(Text(s, k + 1)) >= 4
  <2>1. /\ Len(Text(s, k + 1)) = 4 + Len(FrameOf(s[k + 1]).payload)
        /\ Len(FrameOf(s[k + 1]).payload) \in Nat
    BY <1>1, TextParts
  <2>2. QED
    BY <2>1
<1>6. QED
  BY <1>1, <1>4, <1>5, StartIsSpan

(* The first message begins the wire, and the last one ends it. *)
LEMMA StartEnds ==
    ASSUME NEW s \in Scripts
    PROVE  Start(s, 0) = 0 /\ Start(s, Len(s)) = Len(Wire(s))
<1>1. Len(s) \in Nat /\ 0 \in 0 .. Len(s) /\ Len(s) \in 0 .. Len(s)
  BY ScriptType
<1>2. Start(s, 0) = Span(Texts(s), 0) /\ Start(s, Len(s)) = Span(Texts(s), Len(s))
  BY <1>1, StartIsSpan
<1>3. QED
  BY <1>2, TextsType, SpanEnds

(* A later message begins behind the end of an earlier one. *)
LEMMA StartMonotone ==
    ASSUME NEW s \in Scripts, NEW i \in 0 .. Len(s), NEW j \in 0 .. Len(s), i < j
    PROVE  Start(s, i) < Start(s, j) /\ Start(s, i + 1) <= Start(s, j)
<1>1. Len(s) \in Nat /\ i \in 0 .. Len(s) - 1 /\ i + 1 \in 0 .. Len(s) /\ i + 1 <= j
  BY ScriptType
<1>2. Span(Texts(s), i + 1) <= Span(Texts(s), j)
  <2>1. i + 1 \in 0 .. Len(Texts(s)) /\ j \in 0 .. Len(Texts(s))
    BY <1>1, TextsType
  <2>2. QED
    BY <1>1, <2>1, TextsType, SpanMonotone
<1>3. Start(s, i + 1) <= Start(s, j)
  BY <1>1, <1>2, StartIsSpan
<1>4. /\ Start(s, i + 1) = Start(s, i) + Len(Text(s, i + 1)) /\ Len(Text(s, i + 1)) >= 4
      /\ Len(Text(s, i + 1)) \in Nat /\ Start(s, i) \in Nat
  BY <1>1, StartStep
<1>5. Start(s, j) \in Nat
  BY StartIsSpan
<1>6. QED
  BY <1>3, <1>4, <1>5

(* Where byte r of message k + 1 stands on the wire. *)
LEMMA WireAt ==
    ASSUME NEW s \in Scripts, NEW k \in 0 .. Len(s) - 1, NEW r \in 1 .. Len(Text(s, k + 1))
    PROVE  /\ Start(s, k) + r \in 1 .. Len(Wire(s))
           /\ Wire(s)[Start(s, k) + r] = Text(s, k + 1)[r]
<1>1. k \in 0 .. Len(Texts(s)) - 1 /\ k + 1 \in 1 .. Len(s) /\ k \in 0 .. Len(s)
  BY ScriptType, TextsType
<1>2. Texts(s)[k + 1] = Text(s, k + 1)
  BY <1>1, TextsType
<1>3. r \in 1 .. Len(Texts(s)[k + 1])
  BY <1>2
<1>4. /\ Span(Texts(s), k) + r \in 1 .. Len(FlattenSeq(Texts(s)))
      /\ FlattenSeq(Texts(s))[Span(Texts(s), k) + r] = Texts(s)[k + 1][r]
  BY <1>1, <1>3, TextsType, FlattenAt
<1>5. Start(s, k) = Span(Texts(s), k) /\ Wire(s) = FlattenSeq(Texts(s))
  BY <1>1, StartIsSpan, TextsType
<1>6. QED
  BY <1>2, <1>4, <1>5, Zenon

(* Every byte of the wire belongs to a message. *)
LEMMA WireLocate ==
    ASSUME NEW s \in Scripts, NEW n \in 1 .. Len(Wire(s))
    PROVE  \E k \in 0 .. Len(s) - 1 : \E r \in 1 .. Len(Text(s, k + 1)) : n = Start(s, k) + r
<1>1. n \in 1 .. Len(FlattenSeq(Texts(s)))
  BY TextsType
<1>2. PICK k \in 0 .. Len(Texts(s)) - 1 : \E r \in 1 .. Len(Texts(s)[k + 1]) :
              n = Span(Texts(s), k) + r
  BY <1>1, TextsType, FlattenLocate
<1>3. k \in 0 .. Len(s) - 1 /\ k + 1 \in 1 .. Len(s) /\ k \in 0 .. Len(s)
  BY ScriptType, TextsType
<1>4. Texts(s)[k + 1] = Text(s, k + 1) /\ Start(s, k) = Span(Texts(s), k)
  BY <1>3, TextsType, StartIsSpan
<1>5. QED
  BY <1>2, <1>3, <1>4, Zenon

-------------------------------------------------------------------------------

(* The magic word at a place, element by element. *)
MagicOn(bytes, p) == bytes[p + 1] = -1 /\ bytes[p + 2] = -2 /\ bytes[p + 3] = -3
(* The magic word stands nowhere. *)
Free(bytes) == \A p \in Nat : p + 3 <= Len(bytes) => ~ MagicOn(bytes, p)

(* The two ways to say that the magic word is at a place agree. *)
LEMMA MagicAtParts ==
    ASSUME NEW bytes \in Seq(Int), NEW p \in Nat, p + 3 <= Len(bytes)
    PROVE  MagicAt(bytes, p) <=> MagicOn(bytes, p)
<1> DEFINE w == SubSeq(bytes, p + 1, p + 3)
<1>1. Len(bytes) \in Nat
  OBVIOUS
<1>2. w \in Seq(Int) /\ Len(w) = 3 /\ w[1] = bytes[p + 1] /\ w[2] = bytes[p + 2] /\ w[3] = bytes[p + 3]
  BY <1>1
<1> HIDE DEF w
<1>3. w = Magic <=> MagicOn(bytes, p)
  <2>1. ASSUME w = Magic PROVE MagicOn(bytes, p)
    BY <1>2, <2>1, MagicParts DEF MagicOn
  <2>2. ASSUME MagicOn(bytes, p) PROVE w = Magic
    <3>1. \A i \in 1 .. Len(w) : w[i] = Magic[i]
      BY <1>2, <2>2, MagicParts DEF MagicOn
    <3>2. QED
      BY <1>2, <3>1, MagicParts, SeqEqual
  <2>3. QED
    BY <2>1, <2>2
<1>4. MagicAt(bytes, p) <=> w = Magic
  BY MagicParts, Zenon DEF MagicAt, w
<1>5. QED
  BY <1>3, <1>4, Zenon

(* And the two ways to say that it is nowhere. *)
LEMMA FreeIsFree ==
    ASSUME NEW bytes \in Seq(Int), FreeOfMagic(bytes)
    PROVE  Free(bytes)
<1> SUFFICES ASSUME NEW p \in Nat, p + 3 <= Len(bytes) PROVE ~ MagicOn(bytes, p)
  BY DEF Free
<1>1. p \in 0 .. Len(bytes) - Len(Magic)
  BY MagicParts
<1>2. ~ MagicAt(bytes, p)
  BY <1>1 DEF FreeOfMagic
<1>3. QED
  BY <1>2, MagicAtParts, Zenon

(* A number in front of bytes without the magic word (a length, a count,   *)
(* the mark of gzip) does not make one.                                    *)
LEMMA InFrontFree ==
    ASSUME NEW x \in Nat, NEW b \in Seq(Int), Free(b)
    PROVE  Free(<<x>> \o b)
<1> DEFINE c == <<x>> \o b
<1>1. /\ Len(b) \in Nat /\ Len(c) = Len(b) + 1 /\ c[1] = x
      /\ \A r \in 1 .. Len(b) : c[r + 1] = b[r]
  BY InFront
<1> HIDE DEF c
<1>2. ASSUME NEW p \in Nat, p + 3 <= Len(c), MagicOn(c, p) PROVE FALSE
  <2>1. p # 0
    <3>1. ASSUME p = 0 PROVE FALSE
      <4>1. p + 1 = 1 /\ x # -1
        BY <3>1
      <4>2. QED
        BY <1>1, <1>2, <4>1, Zenon DEF MagicOn
    <3>2. QED
      BY <3>1
  <2>2. /\ p - 1 \in Nat /\ (p - 1) + 3 <= Len(b)
        /\ p \in 1 .. Len(b) /\ p + 1 \in 1 .. Len(b) /\ p + 2 \in 1 .. Len(b)
        /\ (p - 1) + 1 = p /\ (p - 1) + 2 = p + 1 /\ (p - 1) + 3 = p + 2
        /\ (p + 1) + 1 = p + 2 /\ (p + 2) + 1 = p + 3
    BY <1>1, <1>2, <2>1
  <2>3. b[p] = -1 /\ b[p + 1] = -2 /\ b[p + 2] = -3
    BY <1>1, <1>2, <2>2, Zenon DEF MagicOn
  <2>4. MagicOn(b, p - 1)
    BY <2>2, <2>3, Zenon DEF MagicOn
  <2>5. QED
    BY <2>2, <2>4 DEF Free
<1>3. Free(c)
  BY <1>2 DEF Free
<1>4. QED
  BY <1>3 DEF c

(* Buffers without the magic word do not make one when they are put into a *)
(* batch with their lengths in front.                                      *)
LEMMA ItemsFree ==
    ASSUME NEW buffers \in Seq(Seq(Int)), \A i \in 1 .. Len(buffers) : Free(buffers[i])
    PROVE  Free(FlattenSeq(Items(buffers)))
<1> DEFINE f == FlattenSeq(Items(buffers))
<1>1. f \in Seq(Int) /\ Len(f) \in Nat /\ Items(buffers) \in Seq(Seq(Int)) /\ Len(Items(buffers)) = Len(buffers)
  <2>1. Items(buffers) \in Seq(Seq(Int)) /\ Len(Items(buffers)) = Len(buffers)
    BY ItemsType
  <2>2. f \in Seq(Int)
    BY <2>1, FlattenType
  <2>3. QED
    BY <2>1, <2>2
<1> HIDE DEF f
<1>2. ASSUME NEW p \in Nat, p + 3 <= Len(f), MagicOn(f, p) PROVE FALSE
  <2>1. p + 3 \in 1 .. Len(f)
    BY <1>1, <1>2
  <2>2. PICK j \in 0 .. Len(Items(buffers)) - 1 : \E r \in 1 .. Len(Items(buffers)[j + 1]) :
                p + 3 = Span(Items(buffers), j) + r
    BY <1>1, <2>1, FlattenLocate DEF f
  <2>3. PICK r \in 1 .. Len(Items(buffers)[j + 1]) : p + 3 = Span(Items(buffers), j) + r
    BY <2>2
  <2> DEFINE t == Items(buffers)[j + 1]
             b == buffers[j + 1]
             a == Span(Items(buffers), j)
  <2>4. j + 1 \in 1 .. Len(buffers) /\ j \in 0 .. Len(Items(buffers))
    BY <1>1
  <2>5. a \in Nat
    BY <1>1, <2>4, PrefixType
  <2>6. /\ Len(b) \in Nat /\ Len(t) = Len(b) + 1 /\ t[1] = Len(b)
        /\ \A i \in 1 .. Len(b) : t[i + 1] = b[i]
    BY <2>4, ItemsType
  <2>7. \A i \in 1 .. Len(t) : f[a + i] = t[i]
    BY <1>1, FlattenAt DEF f
  <2>8. Free(b)
    BY <2>4
  <2> HIDE DEF t, b, a
  <2>9. f[p + 1] = -1 /\ f[p + 2] = -2 /\ f[p + 3] = -3
    BY <1>2 DEF MagicOn
  <2>10. r \in 1 .. Len(t) /\ p + 3 = a + r
    BY <2>3 DEF t, a
  <2>11. 1 \in 1 .. Len(t) /\ f[a + 1] = Len(b)
    BY <2>6, <2>7
  <2>12. r # 1 /\ r # 2 /\ r # 3
    <3>1. CASE r = 1
      BY <2>5, <2>6, <2>9, <2>10, <2>11, <3>1
    <3>2. CASE r = 2
      <4>1. p + 2 = a + 1
        BY <2>5, <2>10, <3>2
      <4>2. QED
        BY <2>6, <2>9, <2>11, <4>1
    <3>3. CASE r = 3
      <4>1. p + 1 = a + 1
        BY <2>5, <2>10, <3>3
      <4>2. QED
        BY <2>6, <2>9, <2>11, <4>1
    <3>4. QED
      BY <3>1, <3>2, <3>3
  <2>13. /\ r - 4 \in Nat /\ (r - 4) + 3 <= Len(b)
         /\ r - 3 \in 1 .. Len(b) /\ r - 2 \in 1 .. Len(b) /\ r - 1 \in 1 .. Len(b)
         /\ r - 2 \in 1 .. Len(t) /\ r - 1 \in 1 .. Len(t) /\ r \in 1 .. Len(t)
         /\ (r - 4) + 1 = r - 3 /\ (r - 4) + 2 = r - 2 /\ (r - 4) + 3 = r - 1
         /\ (r - 3) + 1 = r - 2 /\ (r - 2) + 1 = r - 1 /\ (r - 1) + 1 = r
         /\ p + 1 = a + (r - 2) /\ p + 2 = a + (r - 1)
    BY <2>5, <2>6, <2>10, <2>12
  <2>14. t[r - 2] = -1 /\ t[r - 1] = -2 /\ t[r] = -3
    BY <2>7, <2>9, <2>10, <2>13, Zenon
  <2>15. b[r - 3] = -1 /\ b[r - 2] = -2 /\ b[r - 1] = -3
    BY <2>6, <2>13, <2>14, Zenon
  <2>16. MagicOn(b, r - 4)
    BY <2>13, <2>15, Zenon DEF MagicOn
  <2>17. QED
    BY <2>8, <2>13, <2>16 DEF Free
<1>3. Free(f)
  BY <1>2 DEF Free
<1>4. QED
  BY <1>3 DEF f

(* No payload contains the magic word. *)
LEMMA PayloadFree ==
    ASSUME NEW s \in Scripts, NEW m \in 1 .. Len(s)
    PROVE  Free(FrameOf(s[m]).payload)
<1> DEFINE app == s[m]
<1>1. app \in App /\ (~ app.batch => Len(app.buffers) = 1) /\ DOMAIN s = 1 .. Len(s)
  BY ScriptType
<1>2. /\ Plain(app) \in Seq(Int) /\ app.compressed \in BOOLEAN
      /\ app.buffers \in Seq(Seq(Int))
      /\ FrameOf(app).payload = IF app.compressed THEN Compress(Plain(app)) ELSE Plain(app)
  BY <1>1, FrameParts
<1>3. DOMAIN app.buffers = 1 .. Len(app.buffers) /\ Len(app.buffers) \in Nat
  BY <1>2
<1>4. ASSUME NEW i \in 1 .. Len(app.buffers) PROVE app.buffers[i] \in Seq(Int) /\ Free(app.buffers[i])
  <2>1. FreeOfMagic(app.buffers[i])
    BY <1>1, <1>3, MagicAssumption
  <2>2. app.buffers[i] \in Seq(Int)
    BY <1>2, ElementOfSeq
  <2>3. QED
    BY <2>1, <2>2, FreeIsFree
<1> HIDE DEF app
<1>5. Free(Plain(app))
  <2>1. CASE app.batch
    <3>1. Free(FlattenSeq(Items(app.buffers))) /\ FlattenSeq(Items(app.buffers)) \in Seq(Int)
      BY <1>2, <1>4, ItemsFree, WriteBatchParts
    <3>2. Free(<<Len(app.buffers)>> \o FlattenSeq(Items(app.buffers)))
      BY <1>3, <3>1, InFrontFree
    <3>3. Plain(app) = <<Len(app.buffers)>> \o FlattenSeq(Items(app.buffers))
      BY <1>2, <2>1, WriteBatchParts DEF Plain
    <3>4. QED
      BY <3>2, <3>3, Zenon
  <2>2. CASE ~ app.batch
    <3>1. Len(app.buffers) = 1 /\ 1 \in 1 .. 1
      BY <1>1, <2>2 DEF app
    <3>2. Free(app.buffers[1])
      BY <1>4, <3>1, Zenon
    <3>3. QED
      BY <2>2, <3>2, Zenon DEF Plain
  <2>3. QED
    BY <2>1, <2>2
<1>6. GzipMark \in Nat
  BY DEF GzipMark
<1>7. Free(Compress(Plain(app)))
  BY <1>2, <1>5, <1>6, InFrontFree DEF Compress
<1>8. Free(FrameOf(app).payload)
  BY <1>2, <1>5, <1>7, Zenon
<1>9. QED
  BY <1>8 DEF app

(* The bytes a peer sends: what comes before the first message, and the    *)
(* wire.                                                                   *)
LEMMA AllParts ==
    ASSUME NEW s \in Scripts, NEW junk \in Junk
    PROVE  /\ junk \in Seq(Int) /\ Len(junk) \in Nat /\ Len(Wire(s)) \in Nat
           /\ junk \o Wire(s) \in Seq(Int)
           /\ Len(junk \o Wire(s)) = Len(junk) + Len(Wire(s))
           /\ \A i \in 1 .. Len(junk) : (junk \o Wire(s))[i] = junk[i]
           /\ \A i \in 1 .. Len(Wire(s)) : (junk \o Wire(s))[Len(junk) + i] = Wire(s)[i]
<1> DEFINE w == Wire(s)
<1>1. junk \in Seq(Int) /\ w \in Seq(Int)
  BY MagicAssumption, TextsType
<1> HIDE DEF w
<1>2. Len(junk) \in Nat /\ Len(w) \in Nat
  BY <1>1
<1>3. /\ junk \o w \in Seq(Int) /\ Len(junk \o w) = Len(junk) + Len(w)
      /\ \A i \in 1 .. Len(junk) + Len(w) :
            (junk \o w)[i] = IF i <= Len(junk) THEN junk[i] ELSE w[i - Len(junk)]
  BY <1>1, ConcatProperties
<1>4. ASSUME NEW i \in 1 .. Len(junk) PROVE (junk \o w)[i] = junk[i]
  <2>1. i \in 1 .. Len(junk) + Len(w) /\ i <= Len(junk)
    BY <1>2
  <2>2. QED
    BY <1>3, <2>1, Zenon
<1>5. ASSUME NEW i \in 1 .. Len(w) PROVE (junk \o w)[Len(junk) + i] = w[i]
  <2>1. /\ Len(junk) + i \in 1 .. Len(junk) + Len(w) /\ ~ (Len(junk) + i <= Len(junk))
        /\ (Len(junk) + i) - Len(junk) = i
    BY <1>2
  <2>2. QED
    BY <1>3, <2>1, Zenon
<1>6. QED
  BY <1>1, <1>2, <1>3, <1>4, <1>5, Zenon DEF w

(* On the whole stream the magic word stands only where a message begins:  *)
(* not in what comes before, not in a payload, and not across the border   *)
(* of two of them.                                                         *)
LEMMA MagicPlaces ==
    ASSUME NEW s \in Scripts, NEW junk \in Junk, NEW p \in Nat,
           p + 3 <= Len(junk \o Wire(s)), MagicOn(junk \o Wire(s), p)
    PROVE  \E k \in 0 .. Len(s) - 1 : p = Len(junk) + Start(s, k)
<1> DEFINE all == junk \o Wire(s)
           w == Wire(s)
           a == Len(junk)
<1>1. /\ a \in Nat /\ Len(w) \in Nat /\ Len(all) = a + Len(w)
      /\ \A i \in 1 .. a : all[i] = junk[i]
      /\ \A i \in 1 .. Len(w) : all[a + i] = w[i]
  BY AllParts
<1>2. Free(junk)
  BY MagicAssumption, FreeIsFree
<1>3. all[p + 1] = -1 /\ all[p + 2] = -2 /\ all[p + 3] = -3 /\ p + 3 <= Len(all)
  BY DEF MagicOn
<1> HIDE DEF all, w
<1>4. ~ (p + 3 <= a)
  <2>1. ASSUME p + 3 <= a PROVE FALSE
    <3>1. p + 1 \in 1 .. a /\ p + 2 \in 1 .. a /\ p + 3 \in 1 .. a
      BY <1>1, <2>1
    <3>2. junk[p + 1] = -1 /\ junk[p + 2] = -2 /\ junk[p + 3] = -3
      BY <1>1, <1>3, <3>1, Zenon
    <3>3. QED
      BY <1>2, <2>1, <3>2 DEF Free, MagicOn
  <2>2. QED
    BY <2>1
<1>5. (p + 3) - a \in 1 .. Len(w)
  BY <1>1, <1>3, <1>4
<1>6. PICK k \in 0 .. Len(s) - 1 : \E r \in 1 .. Len(Text(s, k + 1)) : (p + 3) - a = Start(s, k) + r
  BY <1>5, WireLocate DEF w
<1>7. PICK r \in 1 .. Len(Text(s, k + 1)) : (p + 3) - a = Start(s, k) + r
  BY <1>6
<1> DEFINE t == Text(s, k + 1)
           y == FrameOf(s[k + 1]).payload
           b == Start(s, k)
<1>8. Len(s) \in Nat /\ k + 1 \in 1 .. Len(s) /\ k \in 0 .. Len(s) /\ k \in Nat
  BY ScriptType
<1>9. b \in Nat
  BY <1>8, StartIsSpan
<1>10. /\ Len(y) \in Nat /\ Len(t) = 4 + Len(y)
       /\ t[1] = -1 /\ t[2] = -2 /\ t[3] = -3 /\ t[4] = k + 1
       /\ \A i \in 1 .. Len(y) : t[4 + i] = y[i]
  BY <1>8, TextParts
<1>11. \A i \in 1 .. Len(t) : b + i \in 1 .. Len(w) /\ w[b + i] = t[i]
  BY WireAt DEF w
<1>12. Free(y)
  BY <1>8, PayloadFree
<1>13. r \in 1 .. Len(t) /\ (p + 3) - a = b + r
  BY <1>7
<1> HIDE DEF t, y, b, a
<1>14. ASSUME NEW i \in 1 .. Len(t) PROVE all[a + (b + i)] = t[i]
  <2>1. b + i \in 1 .. Len(w) /\ w[b + i] = t[i]
    BY <1>11
  <2>2. QED
    BY <1>1, <2>1, Zenon
<1>15. p + 3 = a + (b + r)
  BY <1>1, <1>9, <1>10, <1>13
<1>16. CASE r = 3
  <2>1. p = a + b
    BY <1>1, <1>9, <1>15, <1>16
  <2>2. QED
    BY <2>1 DEF a, b
<1>17. CASE r = 1 \/ r = 2 \/ r = 4
  <2>1. t[r] = -3
    BY <1>3, <1>13, <1>14, <1>15, Zenon
  <2>2. t[1] # -3 /\ t[2] # -3
    BY <1>10
  <2>3. t[4] # -3
    BY <1>8, <1>10
  <2>4. QED
    BY <1>17, <2>1, <2>2, <2>3, Zenon
<1>18. CASE r = 5 \/ r = 6
  <2>1. 4 \in 1 .. Len(t) /\ t[4] = k + 1
    BY <1>10
  <2>2. all[a + (b + 4)] = k + 1
    BY <1>14, <2>1, Zenon
  <2>3. p + 2 = a + (b + 4) \/ p + 1 = a + (b + 4)
    BY <1>1, <1>9, <1>15, <1>18
  <2>4. k + 1 = -2 \/ k + 1 = -1
    BY <1>3, <2>2, <2>3, Zenon
  <2>5. QED
    BY <1>8, <2>4
<1>19. CASE r >= 7
  <2>1. /\ r - 7 \in Nat /\ (r - 7) + 3 <= Len(y)
        /\ r - 6 \in 1 .. Len(y) /\ r - 5 \in 1 .. Len(y) /\ r - 4 \in 1 .. Len(y)
        /\ (r - 7) + 1 = r - 6 /\ (r - 7) + 2 = r - 5 /\ (r - 7) + 3 = r - 4
        /\ 4 + (r - 6) = r - 2 /\ 4 + (r - 5) = r - 1 /\ 4 + (r - 4) = r
        /\ r - 2 \in 1 .. Len(t) /\ r - 1 \in 1 .. Len(t)
        /\ p + 1 = a + (b + (r - 2)) /\ p + 2 = a + (b + (r - 1))
    BY <1>1, <1>9, <1>10, <1>13, <1>15, <1>19
  <2>2. t[r - 2] = -1 /\ t[r - 1] = -2 /\ t[r] = -3
    BY <1>3, <1>13, <1>14, <1>15, <2>1, Zenon
  <2>3. y[r - 6] = -1 /\ y[r - 5] = -2 /\ y[r - 4] = -3
    BY <1>10, <2>1, <2>2, Zenon
  <2>4. MagicOn(y, r - 7)
    BY <2>1, <2>3, Zenon DEF MagicOn
  <2>5. QED
    BY <1>12, <2>1, <2>4 DEF Free
<1>20. QED
  BY <1>10, <1>13, <1>16, <1>17, <1>18, <1>19

-------------------------------------------------------------------------------

(* Lists of buffers with at least a byte each, as a transport delivers. *)
Buffers == Seq(Seq(Int) \ {<<>>})

(* The offset is inside the first buffer (m_offset is smaller than its     *)
(* length), and 0 without one.                                             *)
Tidy(ss, o) == IF ss = <<>> THEN o = 0 ELSE o < Len(ss[1])

(* The buffers and then what has not arrived are the bytes behind place q. *)
StreamAt(ss, in, bytes, q) ==
    /\ q \in Nat
    /\ q + Len(FlattenSeq(ss)) + Len(in) = Len(bytes)
    /\ \A n \in 1 .. Len(FlattenSeq(ss)) : FlattenSeq(ss)[n] = bytes[q + n]
    /\ \A n \in 1 .. Len(in) : in[n] = bytes[q + Len(FlattenSeq(ss)) + n]

(* The types of a list of buffers. *)
LEMMA BuffersAreSeqs ==
    ASSUME NEW ss \in Buffers
    PROVE  /\ ss \in Seq(Seq(Int)) /\ FlattenSeq(ss) \in Seq(Int)
           /\ Len(FlattenSeq(ss)) \in Nat /\ Len(ss) \in Nat
           /\ \A i \in 1 .. Len(ss) : ss[i] \in Seq(Int) /\ ss[i] # <<>> /\ Len(ss[i]) \in Nat \ {0}
           /\ Span(ss, Len(ss)) = Len(FlattenSeq(ss))
<1>1. ss \in Seq(Seq(Int))
  BY SeqMonotonic DEF Buffers
<1>2. FlattenSeq(ss) \in Seq(Int)
  BY <1>1, FlattenType
<1>3. Len(FlattenSeq(ss)) \in Nat /\ Len(ss) \in Nat
  BY <1>1, <1>2
<1>4. ASSUME NEW i \in 1 .. Len(ss)
      PROVE  ss[i] \in Seq(Int) /\ ss[i] # <<>> /\ Len(ss[i]) \in Nat \ {0}
  <2>1. ss[i] \in Seq(Int) \ {<<>>}
    BY ElementOfSeq DEF Buffers
  <2>2. QED
    BY <2>1, EmptySeq
<1>5. QED
  BY <1>1, <1>2, <1>3, <1>4, SpanEnds

(* Taking bytes and removing the buffers used up leaves the offset inside  *)
(* the first one that stays.                                               *)
LEMMA DropMoves ==
    ASSUME NEW ss \in Buffers, NEW o \in Nat, NEW n \in Nat, NEW gone \in 0 .. Len(ss),
           o + n <= Len(FlattenSeq(ss)), Span(ss, gone) <= o + n,
           gone < Len(ss) => Span(ss, gone + 1) > o + n
    PROVE  /\ SubSeq(ss, gone + 1, Len(ss)) \in Buffers
           /\ o + n - Span(ss, gone) \in Nat
           /\ Tidy(SubSeq(ss, gone + 1, Len(ss)), o + n - Span(ss, gone))
           /\ Span(ss, gone) \in Nat
<1> DEFINE t == SubSeq(ss, gone + 1, Len(ss))
<1>1. ss \in Seq(Seq(Int)) /\ Len(ss) \in Nat /\ Span(ss, Len(ss)) = Len(FlattenSeq(ss))
  BY BuffersAreSeqs
<1>2. Span(ss, gone) \in Nat
  BY <1>1, PrefixType
<1>3. t \in Buffers
  BY DEF Buffers
<1>4. CASE gone = Len(ss)
  <2>1. t = <<>>
    BY <1>1, <1>4
  <2>2. o + n - Span(ss, gone) = 0
    BY <1>1, <1>2, <1>4
  <2>3. QED
    BY <1>2, <1>3, <2>1, <2>2 DEF Tidy
<1>5. CASE gone # Len(ss)
  <2>1. gone \in 0 .. Len(ss) - 1 /\ gone + 1 \in 1 .. Len(ss) /\ gone < Len(ss)
    BY <1>1, <1>5
  <2>2. Span(ss, gone + 1) = Span(ss, gone) + Len(ss[gone + 1]) /\ Len(ss[gone + 1]) \in Nat
    BY <1>1, <2>1, SpanStep
  <2>3. t # <<>> /\ t[1] = ss[gone + 1]
    <3>1. Len(t) = Len(ss) - gone /\ \A i \in 1 .. Len(ss) - gone : t[i] = ss[gone + i]
      BY <1>1
    <3>2. 1 \in 1 .. Len(ss) - gone /\ Len(ss) - gone # 0
      BY <1>1, <2>1
    <3>3. t # <<>>
      BY <3>1, <3>2
    <3>4. QED
      BY <3>1, <3>2, <3>3
  <2>4. Span(ss, gone + 1) > o + n
    BY <2>1
  <2>5. o + n - Span(ss, gone) < Len(ss[gone + 1])
    BY <1>2, <2>2, <2>4
  <2>6. Tidy(t, o + n - Span(ss, gone))
    <3> HIDE DEF t
    <3>1. QED
      BY <2>3, <2>5, Zenon DEF Tidy
  <2>7. QED
    BY <1>2, <1>3, <2>6
<1>6. QED
  BY <1>4, <1>5

(* Removing buffers moves the place by the bytes in them. *)
LEMMA StreamDrop ==
    ASSUME NEW ss \in Buffers, NEW in \in Seq(Int), NEW bytes, NEW q,
           StreamAt(ss, in, bytes, q), NEW gone \in 0 .. Len(ss)
    PROVE  /\ StreamAt(SubSeq(ss, gone + 1, Len(ss)), in, bytes, q + Span(ss, gone))
           /\ Len(FlattenSeq(SubSeq(ss, gone + 1, Len(ss)))) = Len(FlattenSeq(ss)) - Span(ss, gone)
<1> DEFINE t == SubSeq(ss, gone + 1, Len(ss))
           f == FlattenSeq(ss)
           g == FlattenSeq(t)
           a == Span(ss, gone)
<1>1. ss \in Seq(Seq(Int)) /\ f \in Seq(Int) /\ Len(f) \in Nat
  BY BuffersAreSeqs
<1>2. a \in Nat
  BY <1>1, PrefixType
<1>3. g \in Seq(Int) /\ Len(f) = a + Len(g) /\ \A i \in 1 .. Len(g) : g[i] = f[a + i]
  BY <1>1, FlattenDrop
<1>4. /\ q \in Nat /\ q + Len(f) + Len(in) = Len(bytes)
      /\ \A n \in 1 .. Len(f) : f[n] = bytes[q + n]
      /\ \A n \in 1 .. Len(in) : in[n] = bytes[q + Len(f) + n]
  BY DEF StreamAt
<1> HIDE DEF f, g, a, t
<1>5. Len(g) \in Nat /\ Len(in) \in Nat
  BY <1>3
<1>6. ASSUME NEW n \in 1 .. Len(g) PROVE g[n] = bytes[q + a + n]
  <2>0. Len(f) = a + Len(g) /\ q \in Nat
    BY <1>3, <1>4, Zenon
  <2>1. a + n \in 1 .. Len(f) /\ q + (a + n) = q + a + n
    BY <1>2, <1>5, <2>0
  <2>2. QED
    BY <1>3, <1>4, <2>1, Zenon
<1>7. ASSUME NEW n \in 1 .. Len(in) PROVE in[n] = bytes[q + a + Len(g) + n]
  <2>1. q + a + Len(g) + n = q + Len(f) + n
    BY <1>2, <1>3, <1>4, <1>5
  <2>2. QED
    BY <1>4, <2>1, Zenon
<1>8. q + a \in Nat /\ q + a + Len(g) + Len(in) = Len(bytes) /\ Len(g) = Len(f) - a
  BY <1>2, <1>3, <1>4, <1>5
<1>9. StreamAt(t, in, bytes, q + a)
  BY <1>6, <1>7, <1>8, Zenon DEF StreamAt, g
<1>10. QED
  BY <1>8, <1>9, Zenon DEF t, a, f, g

(* A buffer that arrives keeps the stream as it is. *)
LEMMA StreamArrive ==
    ASSUME NEW ss \in Buffers, NEW in \in Seq(Int), NEW bytes, NEW q,
           StreamAt(ss, in, bytes, q), NEW n \in 1 .. Len(in)
    PROVE  /\ Append(ss, SubSeq(in, 1, n)) \in Buffers
           /\ SubSeq(in, n + 1, Len(in)) \in Seq(Int)
           /\ Len(SubSeq(in, 1, n)) = n
           /\ StreamAt(Append(ss, SubSeq(in, 1, n)), SubSeq(in, n + 1, Len(in)), bytes, q)
           /\ Len(FlattenSeq(Append(ss, SubSeq(in, 1, n)))) = Len(FlattenSeq(ss)) + n
<1> DEFINE u == SubSeq(in, 1, n)
           v == SubSeq(in, n + 1, Len(in))
           f == FlattenSeq(ss)
           g == FlattenSeq(Append(ss, u))
<1>1. ss \in Seq(Seq(Int)) /\ f \in Seq(Int) /\ Len(f) \in Nat
  BY BuffersAreSeqs
<1>2. /\ Len(in) \in Nat /\ n \in Nat /\ u \in Seq(Int) /\ Len(u) = n
      /\ \A i \in 1 .. n : u[i] = in[i]
  OBVIOUS
<1>3. /\ v \in Seq(Int) /\ Len(v) = Len(in) - n
      /\ \A i \in 1 .. Len(in) - n : v[i] = in[n + i]
  OBVIOUS
<1>4. /\ q \in Nat /\ q + Len(f) + Len(in) = Len(bytes)
      /\ \A i \in 1 .. Len(f) : f[i] = bytes[q + i]
      /\ \A i \in 1 .. Len(in) : in[i] = bytes[q + Len(f) + i]
  BY DEF StreamAt
<1>5. g = f \o u
  BY <1>1, <1>2, FlattenAppend
<1> HIDE DEF u, v, f, g
<1>6. u # <<>> /\ Append(ss, u) \in Buffers
  <2>1. u # <<>>
    BY <1>2
  <2>2. QED
    BY <1>2, <2>1, AppendProperties DEF Buffers
<1>7. /\ Len(f \o u) = Len(f) + Len(u)
      /\ \A i \in 1 .. Len(f) + Len(u) : (f \o u)[i] = IF i <= Len(f) THEN f[i] ELSE u[i - Len(f)]
  BY <1>1, <1>2, ConcatProperties
<1>8. Len(g) = Len(f) + n
  BY <1>2, <1>5, <1>7, Zenon
<1>9. ASSUME NEW i \in 1 .. Len(g) PROVE g[i] = bytes[q + i]
  <2>1. i \in 1 .. Len(f) + Len(u) /\ i \in Nat
    BY <1>1, <1>2, <1>8
  <2>2. g[i] = IF i <= Len(f) THEN f[i] ELSE u[i - Len(f)]
    BY <1>5, <1>7, <2>1, Zenon
  <2>3. CASE i <= Len(f)
    <3>1. i \in 1 .. Len(f)
      BY <1>1, <2>1, <2>3
    <3>2. QED
      BY <1>4, <2>2, <2>3, <3>1, Zenon
  <2>4. CASE ~ (i <= Len(f))
    <3>1. i - Len(f) \in 1 .. n /\ i - Len(f) \in 1 .. Len(in) /\ q + Len(f) + (i - Len(f)) = q + i
      BY <1>1, <1>2, <1>4, <2>1, <2>4
    <3>2. QED
      BY <1>2, <1>4, <2>2, <2>4, <3>1, Zenon
  <2>5. QED
    BY <2>3, <2>4
<1>10. ASSUME NEW i \in 1 .. Len(v) PROVE v[i] = bytes[q + Len(g) + i]
  <2>1. i \in 1 .. Len(in) - n /\ n + i \in 1 .. Len(in) /\ q + Len(f) + (n + i) = q + Len(g) + i
    BY <1>1, <1>2, <1>3, <1>4, <1>8
  <2>2. QED
    BY <1>3, <1>4, <2>1, Zenon
<1>11. q + Len(g) + Len(v) = Len(bytes)
  <2>1. /\ q \in Nat /\ q + Len(f) + Len(in) = Len(bytes)
        /\ Len(v) = Len(in) - n /\ Len(f) \in Nat /\ Len(in) \in Nat /\ n \in Nat
    BY <1>1, <1>2, <1>3, <1>4, Zenon
  <2>2. q + Len(g) + Len(v) = q + Len(f) + Len(in)
    BY <1>8, <2>1
  <2>3. QED
    BY <2>1, <2>2, Zenon
<1>12. StreamAt(Append(ss, u), v, bytes, q)
  BY <1>4, <1>9, <1>10, <1>11, Zenon DEF StreamAt, g
<1>13. QED
  BY <1>2, <1>3, <1>6, <1>8, <1>12, Zenon DEF u, v, f, g

-------------------------------------------------------------------------------

(* The types on a sound connection. *)
SoundTypes ==
    /\ script \in Scripts /\ running \in BOOLEAN /\ input \in Seq(Int)
    /\ segs \in Buffers /\ offset \in Nat /\ size \in Nat
    /\ state \in {"MS_WAITING_HEADER", "MS_WAITING_BODY", "MS_RESYNC"}

(* The listener has the first messages, in order. *)
SoundDelivered ==
    /\ delivered \in Seq(Nat) /\ Len(delivered) \in 0 .. Len(script)
    /\ \A i \in 1 .. Len(delivered) : delivered[i] = i

(* m_head and m_offset are where the next message begins, and m_size       *)
(* counts what is behind.                                                  *)
SoundPlace ==
    /\ Tidy(segs, offset)
    /\ StreamAt(segs, input, Wire(script), Start(script, Len(delivered)) - offset)
    /\ size = Len(FlattenSeq(segs)) - offset

(* No fault; the search of the magic word is only before the first         *)
(* message; and the header that was read is the one of the next message.   *)
SoundState ==
    /\ fault = "none"
    /\ state = "MS_RESYNC" => delivered = <<>>
    /\ state = "MS_WAITING_BODY" => header = Len(delivered) + 1 /\ header \in 1 .. Len(script)

(* Between callbacks nothing waits but a part of a message. *)
SoundRest ==
    ~ running => size = 0 \/ (state = "MS_WAITING_BODY" /\ size < MsgLength(header))

(* The inductive invariant of a sound connection. *)
SoundInv == sound => SoundTypes /\ SoundDelivered /\ SoundPlace /\ SoundState /\ SoundRest

(* What the stream object holds is the wire from the next message on. *)
LEMMA SoundAhead ==
    ASSUME SoundTypes, SoundDelivered, SoundPlace
    PROVE  /\ Len(delivered) \in Nat /\ Start(script, Len(delivered)) \in Nat
           /\ Len(script) \in Nat /\ Len(delivered) <= Len(script)
           /\ Len(FlattenSeq(segs)) = offset + size
           /\ FlattenSeq(segs) \in Seq(Int)
           /\ Len(input) \in Nat /\ Len(Wire(script)) \in Nat
           /\ Start(script, Len(delivered)) + size + Len(input) = Len(Wire(script))
           /\ \A i \in 1 .. size :
                 FlattenSeq(segs)[offset + i] = Wire(script)[Start(script, Len(delivered)) + i]
           /\ size > 0 => Len(delivered) \in 0 .. Len(script) - 1
<1> DEFINE d == Len(delivered)
           a == Start(script, d)
           f == FlattenSeq(segs)
           w == Wire(script)
<1>1. /\ script \in Scripts /\ segs \in Buffers /\ offset \in Nat /\ size \in Nat
      /\ input \in Seq(Int) /\ d \in 0 .. Len(script)
  BY DEF SoundTypes, SoundDelivered
<1>2. a \in Nat /\ Len(script) \in Nat
  BY <1>1, StartIsSpan, ScriptType
<1>3. f \in Seq(Int) /\ Len(f) \in Nat
  BY <1>1, BuffersAreSeqs
<1>4. w \in Seq(Int) /\ Len(w) = Start(script, Len(script))
  BY <1>1, TextsType, StartEnds
<1>5. /\ a - offset \in Nat
      /\ (a - offset) + Len(f) + Len(input) = Len(w)
      /\ \A n \in 1 .. Len(f) : f[n] = w[(a - offset) + n]
      /\ size = Len(f) - offset
  BY DEF SoundPlace, StreamAt
<1> HIDE DEF a, f, w, d
<1>6. Len(input) \in Nat /\ Len(w) \in Nat
  BY <1>1, <1>4
<1>7. a - offset \in Nat /\ (a - offset) + Len(f) + Len(input) = Len(w) /\ size = Len(f) - offset
  BY <1>5, Zenon
<1>8. Len(f) = offset + size /\ a + size + Len(input) = Len(w)
  BY <1>1, <1>2, <1>3, <1>6, <1>7
<1>9. ASSUME NEW i \in 1 .. size PROVE f[offset + i] = w[a + i]
  <2>1. offset + i \in 1 .. Len(f) /\ (a - offset) + (offset + i) = a + i
    BY <1>1, <1>2, <1>8
  <2>2. QED
    BY <1>5, <2>1, Zenon
<1>10. ASSUME size > 0 PROVE d \in 0 .. Len(script) - 1
  <2>1. ASSUME d = Len(script) PROVE FALSE
    <3>1. a = Len(w)
      BY <1>4, <2>1, Zenon DEF a
    <3>2. QED
      BY <1>1, <1>2, <1>6, <1>8, <1>10, <3>1
  <2>2. QED
    BY <1>1, <1>2, <2>1
<1>11. d \in Nat /\ d <= Len(script)
  BY <1>1, <1>2
<1>12. QED
  BY <1>2, <1>3, <1>6, <1>8, <1>9, <1>10, <1>11, Zenon DEF a, d, f, w

(* A tidy offset is one that peekBytes accepts. *)
LEMMA TidyIsInside ==
    ASSUME NEW ss \in Buffers, NEW o \in Nat, Tidy(ss, o), ss # <<>>
    PROVE  o <= Len(ss[1])
<1>1. Len(ss) \in Nat /\ 1 \in 1 .. Len(ss)
  BY EmptySeq DEF Buffers
<1>2. Len(ss[1]) \in Nat
  BY <1>1, BuffersAreSeqs
<1>3. o < Len(ss[1])
  BY DEF Tidy
<1>4. QED
  BY <1>2, <1>3

(* What m_size promises is there to be read. *)
LEMMA SoundBounds ==
    ASSUME SoundTypes, SoundDelivered, SoundPlace, NEW n \in 1 .. size
    PROVE  InBounds(n)
<1>1. segs \in Buffers /\ offset \in Nat /\ size \in Nat /\ Tidy(segs, offset)
  BY DEF SoundTypes, SoundPlace
<1>2. Len(FlattenSeq(segs)) = offset + size
  BY SoundAhead
<1>3. segs # <<>>
  <2>1. ASSUME segs = <<>> PROVE FALSE
    <3>1. Len(FlattenSeq(segs)) = 0
      BY <2>1, FlattenEmpty
    <3>2. QED
      BY <1>1, <1>2, <3>1
  <2>2. QED
    BY <2>1
<1>4. offset <= Len(segs[1])
  BY <1>1, <1>3, TidyIsInside
<1>5. Bytes(Len(segs)) = offset + size
  BY <1>1, <1>2, BuffersAreSeqs DEF Bytes, Span
<1>6. offset + n <= offset + size
  BY <1>1
<1>7. QED
  BY <1>3, <1>4, <1>5, <1>6, Zenon DEF InBounds

(* What peekBytes gives. *)
LEMMA PeekParts ==
    ASSUME segs \in Buffers, offset \in Nat, NEW n \in Nat,
           offset + n <= Len(FlattenSeq(segs))
    PROVE  /\ Peek(n) \in Seq(Int) /\ Len(Peek(n)) = n
           /\ \A i \in 1 .. n : Peek(n)[i] = FlattenSeq(segs)[offset + i]
<1> DEFINE f == FlattenSeq(segs)
<1>1. f \in Seq(Int) /\ Len(f) \in Nat
  BY BuffersAreSeqs
<1>2. offset + n <= Len(f)
  OBVIOUS
<1> HIDE DEF f
<1>3. /\ SubSeq(f, offset + 1, offset + n) \in Seq(Int)
      /\ Len(SubSeq(f, offset + 1, offset + n)) = n
  BY <1>1, <1>2
<1>4. \A i \in 1 .. n : SubSeq(f, offset + 1, offset + n)[i] = f[offset + i]
  BY <1>1, <1>2
<1>5. QED
  BY <1>3, <1>4, Zenon DEF Peek, f

(* What is peeked is the next message. *)
LEMMA SoundPeek ==
    ASSUME SoundTypes, SoundDelivered, SoundPlace, NEW n \in 1 .. size,
           n <= Len(Text(script, Len(delivered) + 1))
    PROVE  /\ Peek(n) \in Seq(Int) /\ Len(Peek(n)) = n
           /\ \A i \in 1 .. n : Peek(n)[i] = Text(script, Len(delivered) + 1)[i]
<1> DEFINE d == Len(delivered)
           a == Start(script, d)
           t == Text(script, d + 1)
<1>1. script \in Scripts /\ segs \in Buffers /\ offset \in Nat /\ size \in Nat
  BY DEF SoundTypes
<1>2. /\ Len(FlattenSeq(segs)) = offset + size
      /\ \A i \in 1 .. size : FlattenSeq(segs)[offset + i] = Wire(script)[a + i]
  BY SoundAhead
<1>3. d \in 0 .. Len(script) - 1
  <2>1. size > 0
    BY <1>1
  <2>2. QED
    BY <2>1, SoundAhead
<1>4. n \in Nat /\ offset + n <= Len(FlattenSeq(segs))
  BY <1>1, <1>2
<1>5. /\ Peek(n) \in Seq(Int) /\ Len(Peek(n)) = n
      /\ \A i \in 1 .. n : Peek(n)[i] = FlattenSeq(segs)[offset + i]
  BY <1>1, <1>4, PeekParts
<1>6. \A r \in 1 .. Len(t) : Wire(script)[a + r] = t[r]
  BY <1>1, <1>3, WireAt
<1>7. Len(t) \in Nat
  BY <1>1, <1>3, StartStep
<1> HIDE DEF d, a, t
<1>8. ASSUME NEW i \in 1 .. n PROVE Peek(n)[i] = t[i]
  <2>1. n <= Len(t)
    BY DEF t, d
  <2>2. i \in 1 .. size /\ i \in 1 .. Len(t)
    BY <1>1, <1>4, <1>7, <2>1
  <2>3. QED
    BY <1>2, <1>5, <1>6, <2>2, Zenon
<1>9. QED
  BY <1>5, <1>8, Zenon DEF t, d

(* The empty stream is at the beginning. *)
LEMMA FreshStream ==
    ASSUME NEW bytes \in Seq(Int)
    PROVE  /\ StreamAt(<<>>, bytes, bytes, 0)
           /\ Tidy(<<>>, 0) /\ <<>> \in Buffers /\ Len(FlattenSeq(<<>>)) = 0
<1>1. Len(FlattenSeq(<<>>)) = 0 /\ <<>> \in Buffers
  BY FlattenEmpty DEF Buffers
<1>2. Len(bytes) \in Nat
  OBVIOUS
<1>3. 0 \in Nat /\ 0 + 0 + Len(bytes) = Len(bytes)
  BY <1>2
<1>4. \A n \in 1 .. Len(bytes) : bytes[n] = bytes[0 + 0 + n]
  BY <1>2
<1>5. \A n \in 1 .. 0 : FlattenSeq(<<>>)[n] = bytes[0 + n]
  OBVIOUS
<1>6. StreamAt(<<>>, bytes, bytes, 0)
  BY <1>1, <1>3, <1>4, <1>5, Zenon DEF StreamAt
<1>7. QED
  BY <1>1, <1>6 DEF Tidy

(* A new connection without anything before the first message is a sound   *)
(* one.                                                                    *)
LEMMA FreshSound ==
    ASSUME NEW s \in Scripts
    PROVE  /\ Wire(s) \in Seq(Int)
           /\ StreamAt(<<>>, Wire(s), Wire(s), Start(s, Len(<<>>)) - 0)
           /\ Tidy(<<>>, 0) /\ <<>> \in Buffers /\ 0 = Len(FlattenSeq(<<>>)) - 0
           /\ <<>> \in Seq(Nat) /\ Len(<<>>) \in 0 .. Len(s) /\ Len(<<>>) = 0
<1>1. Wire(s) \in Seq(Int) /\ Start(s, 0) = 0 /\ Len(s) \in Nat
  BY TextsType, StartEnds, ScriptType
<1>2. Len(<<>>) = 0 /\ <<>> \in Seq(Nat)
  OBVIOUS
<1>3. Start(s, Len(<<>>)) - 0 = 0
  BY <1>1, <1>2
<1>4. StreamAt(<<>>, Wire(s), Wire(s), Start(s, Len(<<>>)) - 0)
  BY <1>1, <1>3, FreshStream
<1>5. QED
  BY <1>1, <1>2, <1>4, FreshStream

(* The first connection. *)
LEMMA SoundAtInit == Init => SoundInv
<1> SUFFICES ASSUME Init, sound
             PROVE  SoundTypes /\ SoundDelivered /\ SoundPlace /\ SoundState /\ SoundRest
  BY DEF SoundInv
<1>1. script \in Scripts
  BY DEF Init
<1>2. input = Wire(script)
  <2>1. PICK junk \in Junk : input = junk \o Wire(script) /\ sound = (junk = <<>>)
    BY DEF Init
  <2>2. junk = <<>>
    BY <2>1
  <2>3. QED
    BY <1>1, <2>1, <2>2, TextsType, ConcatEmptySeq
<1>3. /\ segs = <<>> /\ offset = 0 /\ size = 0 /\ state = "MS_RESYNC" /\ running = FALSE
      /\ delivered = <<>> /\ fault = "none"
  BY DEF Init
<1>4. SoundTypes
  BY <1>1, <1>2, <1>3, FreshSound DEF SoundTypes
<1>5. SoundDelivered
  BY <1>1, <1>3, FreshSound DEF SoundDelivered
<1>6. SoundPlace
  BY <1>1, <1>2, <1>3, FreshSound, Zenon DEF SoundPlace
<1>7. SoundState /\ SoundRest
  BY <1>3 DEF SoundState, SoundRest
<1>8. QED
  BY <1>4, <1>5, <1>6, <1>7

(* A buffer at the end of the list leaves the offset inside the first one. *)
LEMMA TidyAppend ==
    ASSUME NEW ss \in Buffers, NEW o \in Nat, Tidy(ss, o), NEW b \in Seq(Int), b # <<>>
    PROVE  Tidy(Append(ss, b), o)
<1>1. b \in Seq(Int) \ {<<>>} /\ Len(b) \in Nat /\ Len(b) # 0
  BY EmptySeq
<1>2. /\ Append(ss, b) # <<>>
      /\ \A i \in 1 .. Len(ss) : Append(ss, b)[i] = ss[i]
      /\ Append(ss, b)[Len(ss) + 1] = b
  <2>1. ss \in Seq(Seq(Int)) /\ b \in Seq(Int)
    BY BuffersAreSeqs
  <2>2. Len(Append(ss, b)) = Len(ss) + 1 /\ Len(ss) \in Nat
    BY <2>1
  <2>3. Append(ss, b) # <<>>
    BY <2>2
  <2>4. \A i \in 1 .. Len(ss) : Append(ss, b)[i] = ss[i]
    BY <2>1
  <2>5. Append(ss, b)[Len(ss) + 1] = b
    BY <2>1
  <2>6. QED
    BY <2>3, <2>4, <2>5
<1>3. CASE ss = <<>>
  <2>1. Len(ss) + 1 = 1 /\ o = 0
    BY <1>3 DEF Tidy
  <2>2. Append(ss, b)[1] = b /\ 0 < Len(b)
    BY <1>1, <1>2, <2>1
  <2>3. QED
    BY <1>2, <2>1, <2>2, Zenon DEF Tidy
<1>4. CASE ss # <<>>
  <2>1. 1 \in 1 .. Len(ss)
    BY <1>4, EmptySeq DEF Buffers
  <2>2. Append(ss, b)[1] = ss[1]
    BY <1>2, <2>1
  <2>3. QED
    BY <1>2, <1>4, <2>2, Zenon DEF Tidy
<1>5. QED
  BY <1>3, <1>4

(* Arrive keeps the invariant. *)
LEMMA SoundArrive ==
    ASSUME SoundInv, fault = "none", NEW n \in 1 .. Len(input), Arrive(n)
    PROVE  SoundInv'
<1> SUFFICES ASSUME sound'
             PROVE  SoundTypes' /\ SoundDelivered' /\ SoundPlace' /\ SoundState' /\ SoundRest'
  BY DEF SoundInv
<1>1. SoundTypes /\ SoundDelivered /\ SoundPlace /\ SoundState
  BY DEF SoundInv, Arrive, peerVars
<1>2. /\ segs' = Append(segs, SubSeq(input, 1, n))
      /\ input' = SubSeq(input, n + 1, Len(input))
      /\ size' = size + Len(SubSeq(input, 1, n)) /\ offset' = offset /\ running' = TRUE
      /\ script' = script /\ delivered' = delivered /\ state' = state /\ header' = header
      /\ fault' = fault
  BY DEF Arrive, AppendBuffer, peerVars
<1>3. /\ segs \in Buffers /\ input \in Seq(Int) /\ offset \in Nat /\ size \in Nat
      /\ script \in Scripts
      /\ Tidy(segs, offset) /\ size = Len(FlattenSeq(segs)) - offset
      /\ StreamAt(segs, input, Wire(script), Start(script, Len(delivered)) - offset)
  BY <1>1 DEF SoundTypes, SoundPlace
<1>4. /\ segs' \in Buffers /\ input' \in Seq(Int) /\ Len(SubSeq(input, 1, n)) = n
      /\ StreamAt(segs', input', Wire(script), Start(script, Len(delivered)) - offset)
      /\ Len(FlattenSeq(segs')) = Len(FlattenSeq(segs)) + n
  BY <1>2, <1>3, StreamArrive
<1>5. n \in Nat /\ n >= 1 /\ Len(FlattenSeq(segs)) \in Nat
  BY <1>3, BuffersAreSeqs
<1>6. size' \in Nat /\ size' = Len(FlattenSeq(segs')) - offset
  BY <1>2, <1>3, <1>4, <1>5
<1>7. SoundTypes'
  BY <1>1, <1>2, <1>3, <1>4, <1>6 DEF SoundTypes
<1>8. SoundDelivered'
  BY <1>1, <1>2, Zenon DEF SoundDelivered
<1>9. Tidy(segs', offset')
  <2>1. SubSeq(input, 1, n) \in Seq(Int)
    BY <1>3
  <2>2. SubSeq(input, 1, n) # <<>>
    BY <1>4, <1>5
  <2>3. QED
    BY <1>2, <1>3, <2>1, <2>2, TidyAppend
<1>10. SoundPlace'
  BY <1>2, <1>4, <1>6, <1>9, Zenon DEF SoundPlace
<1>11. SoundState' /\ SoundRest'
  BY <1>1, <1>2 DEF SoundState, SoundRest
<1>12. QED
  BY <1>7, <1>8, <1>10, <1>11

(* Reconnect keeps it: only the offset of the old connection could be      *)
(* wrong, and then the new one is not sound.                               *)
LEMMA SoundReconnect ==
    ASSUME SoundInv, fault = "none", Reconnect
    PROVE  SoundInv'
<1> SUFFICES ASSUME sound'
             PROVE  SoundTypes' /\ SoundDelivered' /\ SoundPlace' /\ SoundState' /\ SoundRest'
  BY DEF SoundInv
<1>1. script' \in Scripts
  BY DEF Reconnect
<1>2. PICK junk \in Junk : input' = junk \o Wire(script') /\ sound' = (junk = <<>> /\ offset = 0)
  BY DEF Reconnect
<1>3. junk = <<>> /\ offset = 0
  BY <1>2
<1>4. input' = Wire(script')
  BY <1>1, <1>2, <1>3, TextsType, ConcatEmptySeq
<1>5. /\ segs' = <<>> /\ offset' = 0 /\ size' = 0 /\ state' = "MS_RESYNC" /\ running' = FALSE
      /\ delivered' = <<>> /\ fault' = "none"
  BY <1>3 DEF Reconnect, Reset
<1>6. SoundTypes'
  BY <1>1, <1>4, <1>5, FreshSound DEF SoundTypes
<1>7. SoundDelivered'
  BY <1>1, <1>5, FreshSound DEF SoundDelivered
<1>8. SoundPlace'
  BY <1>1, <1>4, <1>5, FreshSound, Zenon DEF SoundPlace
<1>9. SoundState' /\ SoundRest'
  BY <1>5 DEF SoundState, SoundRest
<1>10. QED
  BY <1>6, <1>7, <1>8, <1>9

(* The two ways a callback ends keep it. *)
LEMMA SoundLoopEnds ==
    ASSUME SoundInv, fault = "none", LoopEnds \/ WaitForBody
    PROVE  SoundInv'
<1> SUFFICES ASSUME sound'
             PROVE  SoundTypes' /\ SoundDelivered' /\ SoundPlace' /\ SoundState' /\ SoundRest'
  BY DEF SoundInv
<1>1. /\ segs' = segs /\ offset' = offset /\ size' = size /\ input' = input /\ script' = script
      /\ sound' = sound /\ delivered' = delivered /\ state' = state /\ header' = header
      /\ fault' = fault /\ running' = FALSE
      /\ size = 0 \/ (state = "MS_WAITING_BODY" /\ size < MsgLength(header))
  BY DEF LoopEnds, WaitForBody, peerVars, streamVars
<1>2. SoundTypes /\ SoundDelivered /\ SoundPlace /\ SoundState
  BY <1>1 DEF SoundInv
<1>3. SoundTypes' /\ SoundRest'
  BY <1>1, <1>2, Zenon DEF SoundTypes, SoundRest, MsgLength
<1>4. SoundDelivered' /\ SoundPlace' /\ SoundState'
  BY <1>1, <1>2, Zenon DEF SoundDelivered, SoundPlace, SoundState
<1>5. QED
  BY <1>3, <1>4

(* OnWaitHeader keeps it: the header is in the buffers, and it is the one  *)
(* of the next message.                                                    *)
LEMMA SoundOnWaitHeader ==
    ASSUME SoundInv, fault = "none", OnWaitHeader
    PROVE  SoundInv'
<1> SUFFICES ASSUME sound'
             PROVE  SoundTypes' /\ SoundDelivered' /\ SoundPlace' /\ SoundState' /\ SoundRest'
  BY DEF SoundInv
<1> DEFINE d == Len(delivered)
           t == Text(script, d + 1)
<1>1. /\ input' = input /\ script' = script /\ sound' = sound /\ delivered' = delivered
      /\ running' = running /\ running /\ size > 0 /\ size >= HeaderLength
      /\ state = "MS_WAITING_HEADER"
  BY DEF OnWaitHeader, peerVars
<1>2. SoundTypes /\ SoundDelivered /\ SoundPlace /\ SoundState
  BY <1>1 DEF SoundInv
<1>3. script \in Scripts /\ size \in Nat
  BY <1>2 DEF SoundTypes
<1>4. d \in 0 .. Len(script) - 1 /\ Len(script) \in Nat
  BY <1>1, <1>2, SoundAhead
<1>5. d + 1 \in 1 .. Len(script) /\ 4 \in 1 .. size /\ HeaderLength = 4
  BY <1>1, <1>3, <1>4, MagicParts
<1>6. Len(t) \in Nat /\ 4 <= Len(t)
  BY <1>3, <1>4, StartStep
<1>7. InBounds(HeaderLength)
  BY <1>2, <1>5, SoundBounds
<1>8. /\ Peek(4) \in Seq(Int) /\ Len(Peek(4)) = 4 /\ \A i \in 1 .. 4 : Peek(4)[i] = t[i]
  BY <1>2, <1>5, <1>6, SoundPeek
<1>9. t[1] = -1 /\ t[2] = -2 /\ t[3] = -3 /\ t[4] = d + 1
  BY <1>3, <1>5, TextParts
<1> HIDE DEF t, d
<1>10. Peek(4)[1] = -1 /\ Peek(4)[2] = -2 /\ Peek(4)[3] = -3 /\ Peek(4)[4] = d + 1
  BY <1>8, <1>9
<1>11. IsValid(Peek(HeaderLength))
  <2>1. MagicOn(Peek(4), 0) /\ 0 \in Nat /\ 0 + 3 <= Len(Peek(4))
    BY <1>8, <1>10 DEF MagicOn
  <2>2. MagicAt(Peek(4), 0)
    BY <1>8, <2>1, MagicAtParts
  <2>3. QED
    BY <1>5, <2>2, Zenon DEF IsValid
<1>12. /\ state' = "MS_WAITING_BODY" /\ header' = Peek(HeaderLength)[HeaderLength]
       /\ segs' = segs /\ offset' = offset /\ size' = size /\ fault' = fault
  BY <1>7, <1>11 DEF OnWaitHeader, streamVars
<1>13. header' = d + 1
  BY <1>5, <1>10, <1>12, Zenon
<1>14. SoundTypes' /\ SoundDelivered' /\ SoundPlace'
  <2>1. SoundTypes'
    BY <1>1, <1>2, <1>12 DEF SoundTypes
  <2>2. QED
    BY <1>1, <1>2, <1>12, <2>1, Zenon DEF SoundDelivered, SoundPlace
<1>15. SoundState'
  BY <1>1, <1>2, <1>5, <1>12, <1>13 DEF SoundState, d
<1>16. SoundRest'
  BY <1>1 DEF SoundRest
<1>17. QED
  BY <1>14, <1>15, <1>16

(* What Take does to a stream in bounds. *)
LEMMA TakeParts ==
    ASSUME segs \in Buffers, offset \in Nat, NEW n \in Nat, InBounds(n), Take(n)
    PROVE  \E gone \in 0 .. Len(segs) :
              /\ segs' = SubSeq(segs, gone + 1, Len(segs))
              /\ offset' = offset + n - Span(segs, gone)
              /\ size' = size - n
              /\ segs' \in Buffers /\ offset' \in Nat /\ Tidy(segs', offset')
              /\ Span(segs, gone) \in Nat
<1>1. PICK gone \in 0 .. Len(segs) :
        /\ UsedUp(n, gone)
        /\ segs' = SubSeq(segs, gone + 1, Len(segs))
        /\ offset' = offset + n - Bytes(gone)
        /\ size' = size - n
  BY DEF Take
<1>2. \A j : Bytes(j) = Span(segs, j)
  BY DEF Bytes, Span
<1>3. Span(segs, gone) <= offset + n /\ (gone < Len(segs) => Span(segs, gone + 1) > offset + n)
  BY <1>1, <1>2 DEF UsedUp
<1>4. offset + n <= Len(FlattenSeq(segs))
  <2>1. offset + n <= Span(segs, Len(segs))
    BY <1>2 DEF InBounds
  <2>2. Span(segs, Len(segs)) = Len(FlattenSeq(segs))
    BY BuffersAreSeqs
  <2>3. QED
    BY <2>1, <2>2, Zenon
<1>5. /\ SubSeq(segs, gone + 1, Len(segs)) \in Buffers
      /\ offset + n - Span(segs, gone) \in Nat
      /\ Tidy(SubSeq(segs, gone + 1, Len(segs)), offset + n - Span(segs, gone))
      /\ Span(segs, gone) \in Nat
  BY <1>3, <1>4, DropMoves
<1>6. QED
  BY <1>1, <1>2, <1>5, Zenon

(* OnWaitBody keeps it: the message is delivered, and the stream is at the *)
(* next one.                                                               *)
LEMMA SoundOnWaitBody ==
    ASSUME SoundInv, fault = "none", OnWaitBody
    PROVE  SoundInv'
<1> SUFFICES ASSUME sound'
             PROVE  SoundTypes' /\ SoundDelivered' /\ SoundPlace' /\ SoundState' /\ SoundRest'
  BY DEF SoundInv
<1> DEFINE d == Len(delivered)
           t == Text(script, d + 1)
           n == Len(t)
<1>1. /\ input' = input /\ script' = script /\ sound' = sound /\ header' = header
      /\ running' = running /\ running /\ size > 0 /\ size >= MsgLength(header)
      /\ state = "MS_WAITING_BODY"
  BY DEF OnWaitBody, peerVars
<1>2. SoundTypes /\ SoundDelivered /\ SoundPlace /\ SoundState
  BY <1>1 DEF SoundInv
<1>3. /\ script \in Scripts /\ size \in Nat /\ segs \in Buffers /\ offset \in Nat
      /\ input \in Seq(Int)
  BY <1>2 DEF SoundTypes
<1>4. d \in 0 .. Len(script) - 1 /\ Len(script) \in Nat /\ header = d + 1
  BY <1>1, <1>2, SoundAhead DEF SoundState
<1>5. n \in Nat /\ 4 <= n /\ MsgLength(header) = n
  BY <1>3, <1>4, StartStep DEF MsgLength
<1>6. /\ d + 1 \in 1 .. Len(script) /\ 4 \in 1 .. size /\ HeaderLength = 4
      /\ n \in 1 .. size
  BY <1>1, <1>3, <1>4, <1>5, MagicParts
<1>7. InBounds(HeaderLength) /\ InBounds(n)
  BY <1>2, <1>6, SoundBounds
<1>8. /\ Peek(4) \in Seq(Int) /\ Len(Peek(4)) = 4 /\ \A i \in 1 .. 4 : Peek(4)[i] = t[i]
  BY <1>2, <1>5, <1>6, SoundPeek
<1>9. t[1] = -1 /\ t[2] = -2 /\ t[3] = -3 /\ t[4] = d + 1
  BY <1>3, <1>6, TextParts
<1> HIDE DEF t, d, n
<1>10. Peek(4)[1] = -1 /\ Peek(4)[2] = -2 /\ Peek(4)[3] = -3 /\ Peek(4)[4] = d + 1
  BY <1>8, <1>9
<1>11. IsValid(Peek(HeaderLength)) /\ Peek(HeaderLength)[HeaderLength] = d + 1
  <2>1. MagicOn(Peek(4), 0) /\ 0 \in Nat /\ 0 + 3 <= Len(Peek(4))
    BY <1>8, <1>10 DEF MagicOn
  <2>2. MagicAt(Peek(4), 0)
    BY <1>8, <2>1, MagicAtParts
  <2>3. QED
    BY <1>6, <1>10, <2>2, Zenon DEF IsValid
<1>12. ~ (n > n)
  BY <1>5
<1>13. /\ Take(n) /\ delivered' = Append(delivered, d + 1) /\ state' = "MS_WAITING_HEADER"
       /\ fault' = fault
  <2>1. MsgLength(d + 1) = n
    BY <1>4, <1>5, Zenon
  <2>2. QED
    <3>1. Least(size, n) = n
      BY <1>3, <1>5, <1>6 DEF Least
    <3>2. Reads(Peek(HeaderLength)) = {n} /\ MsgRead(Peek(HeaderLength)) = d + 1
      BY <1>11, <2>1, <3>1, Zenon DEF Reads, MsgRead
    <3>3. QED
      BY <1>5, <1>7, <1>12, <3>2, Zenon DEF OnWaitBody
<1>14. PICK gone \in 0 .. Len(segs) :
              /\ segs' = SubSeq(segs, gone + 1, Len(segs))
              /\ offset' = offset + n - Span(segs, gone)
              /\ size' = size - n
              /\ segs' \in Buffers /\ offset' \in Nat /\ Tidy(segs', offset')
              /\ Span(segs, gone) \in Nat
  BY <1>3, <1>5, <1>7, <1>13, TakeParts
<1>15. SoundTypes'
  <2>1. size' \in Nat
    BY <1>3, <1>6, <1>14
  <2>2. QED
    BY <1>1, <1>2, <1>13, <1>14, <2>1 DEF SoundTypes
<1>16. SoundDelivered' /\ Len(delivered') = d + 1
  <2>1. delivered \in Seq(Nat) /\ d \in Nat /\ d + 1 \in Nat /\ \A i \in 1 .. d : delivered[i] = i
    BY <1>2, <1>4 DEF SoundDelivered, d
  <2>2. /\ delivered' \in Seq(Nat) /\ Len(delivered') = d + 1 /\ delivered'[d + 1] = d + 1
        /\ \A i \in 1 .. d : delivered'[i] = delivered[i]
    BY <1>13, <2>1, AppendProperties DEF d
  <2>3. \A i \in 1 .. d + 1 : delivered'[i] = i
    BY <2>1, <2>2
  <2>4. d + 1 \in 0 .. Len(script)
    BY <1>4
  <2>5. QED
    BY <1>1, <2>2, <2>3, <2>4, Zenon DEF SoundDelivered
<1>17. SoundPlace'
  <2> DEFINE a == Start(script, d)
             w == Wire(script)
  <2>1. StreamAt(segs, input, w, a - offset) /\ size = Len(FlattenSeq(segs)) - offset
    BY <1>2 DEF SoundPlace, d
  <2>2. /\ StreamAt(segs', input, w, (a - offset) + Span(segs, gone))
        /\ Len(FlattenSeq(segs')) = Len(FlattenSeq(segs)) - Span(segs, gone)
    BY <1>3, <1>14, <2>1, StreamDrop
  <2>3. Start(script, d + 1) = a + n /\ a \in Nat
    BY <1>3, <1>4, StartStep DEF n, t
  <2> HIDE DEF a, w
  <2>4. Len(FlattenSeq(segs)) \in Nat
    BY <1>3, BuffersAreSeqs
  <2>5. (a - offset) + Span(segs, gone) = Start(script, d + 1) - offset'
    BY <1>3, <1>5, <1>14, <2>3
  <2>6. size' = Len(FlattenSeq(segs')) - offset'
    <3>1. /\ offset' = offset + n - Span(segs, gone) /\ size' = size - n
          /\ Span(segs, gone) \in Nat /\ size = Len(FlattenSeq(segs)) - offset
          /\ Len(FlattenSeq(segs')) = Len(FlattenSeq(segs)) - Span(segs, gone)
      BY <1>14, <2>1, <2>2, Zenon
    <3> DEFINE x == Len(FlattenSeq(segs))
               y == Span(segs, gone)
               z == Len(FlattenSeq(segs'))
    <3>2. /\ x \in Nat /\ y \in Nat /\ z = x - y /\ size = x - offset
          /\ offset' = offset + n - y /\ size' = size - n
      BY <2>4, <3>1, Zenon
    <3>3. offset \in Nat /\ n \in Nat
      BY <1>3, <1>5, Zenon
    <3> HIDE DEF x, y, z
    <3>4. size' = z - offset'
      BY <3>2, <3>3
    <3>5. QED
      BY <3>4, Zenon DEF z
  <2>7. StreamAt(segs', input', Wire(script'), Start(script', Len(delivered')) - offset')
    BY <1>1, <1>16, <2>2, <2>5, Zenon DEF w
  <2>8. QED
    BY <1>14, <2>6, <2>7, Zenon DEF SoundPlace
<1>18. SoundState'
  BY <1>2, <1>13 DEF SoundState
<1>19. SoundRest'
  BY <1>1 DEF SoundRest
<1>20. QED
  BY <1>15, <1>16, <1>17, <1>18, <1>19

(* The search of a sound connection finds the magic word at once. *)
LEMMA SoundSearch ==
    ASSUME SoundTypes, SoundDelivered, SoundPlace, SoundState, Searching
    PROVE  0 \in Found(segs[1])
<1> DEFINE b == segs[1]
           f == FlattenSeq(segs)
           w == Wire(script)
           t == Text(script, 1)
<1>1. /\ script \in Scripts /\ segs \in Buffers /\ offset \in Nat /\ size \in Nat
      /\ delivered = <<>> /\ Len(delivered) = 0 /\ size >= 3 /\ segs # <<>> /\ Len(b) >= 3
  BY MagicParts DEF SoundTypes, SoundState, Searching
<1>2. Start(script, 0) = 0 /\ Start(script, Len(delivered)) = 0
  BY <1>1, StartEnds
<1>3. offset = 0
  <2>1. Start(script, Len(delivered)) - offset \in Nat
    BY DEF SoundPlace, StreamAt
  <2>2. QED
    BY <1>1, <1>2, <2>1
<1>4. /\ \A i \in 1 .. size : f[offset + i] = w[Start(script, Len(delivered)) + i]
      /\ size > 0 => Len(delivered) \in 0 .. Len(script) - 1
  BY SoundAhead
<1>5. 0 \in 0 .. Len(script) - 1 /\ Len(script) \in Nat /\ 1 \in 1 .. Len(script)
  BY <1>1, <1>4, ScriptType
<1>6. Len(t) \in Nat /\ Len(t) >= 4 /\ t[1] = -1 /\ t[2] = -2 /\ t[3] = -3
  <2>1. /\ Len(t) = 4 + Len(FrameOf(script[1]).payload) /\ Len(FrameOf(script[1]).payload) \in Nat
        /\ t[1] = -1 /\ t[2] = -2 /\ t[3] = -3
    BY <1>1, <1>5, TextParts
  <2>2. QED
    BY <2>1
<1>7. \A r \in 1 .. Len(t) : w[Start(script, 0) + r] = t[r]
  <2>1. 0 + 1 = 1
    OBVIOUS
  <2>2. \A r \in 1 .. Len(Text(script, 0 + 1)) : w[Start(script, 0) + r] = Text(script, 0 + 1)[r]
    BY <1>1, <1>5, WireAt
  <2>3. QED
    BY <2>1, <2>2, Zenon
<1>8. /\ segs \in Seq(Seq(Int)) /\ Len(segs) \in Nat /\ 1 \in 1 .. Len(segs)
      /\ b \in Seq(Int) /\ Len(b) \in Nat
  <2>1. segs \in Seq(Seq(Int)) /\ Len(segs) \in Nat
    BY <1>1, BuffersAreSeqs
  <2>2. 1 \in 1 .. Len(segs)
    BY <1>1, <2>1, EmptySeq
  <2>3. QED
    BY <1>1, <2>1, <2>2, BuffersAreSeqs
<1>9. \A r \in 1 .. Len(b) : f[r] = b[r]
  <2>1. 0 \in 0 .. Len(segs) - 1 /\ 0 + 1 = 1
    BY <1>8
  <2>2. Span(segs, 0) = 0
    BY <1>8, SpanEnds
  <2>3. \A r \in 1 .. Len(segs[0 + 1]) : f[Span(segs, 0) + r] = segs[0 + 1][r]
    BY <1>8, <2>1, FlattenAt
  <2>4. \A r \in 1 .. Len(b) : f[0 + r] = b[r]
    BY <2>1, <2>2, <2>3, Zenon
  <2>5. \A r \in 1 .. Len(b) : 0 + r = r
    BY <1>8
  <2>6. QED
    BY <2>4, <2>5, Zenon
<1> HIDE DEF b, f, w, t
<1>10. ASSUME NEW r \in 1 .. 3 PROVE b[r] = t[r]
  <2>1. r \in 1 .. Len(b) /\ r \in 1 .. Len(t) /\ r \in 1 .. size /\ 0 + r = r
    BY <1>1, <1>6, <1>8
  <2>2. QED
    BY <1>2, <1>3, <1>4, <1>7, <1>9, <2>1, Zenon
<1>11. b[1] = -1 /\ b[2] = -2 /\ b[3] = -3
  <2>1. 1 \in 1 .. 3 /\ 2 \in 1 .. 3 /\ 3 \in 1 .. 3
    OBVIOUS
  <2>2. QED
    BY <1>6, <1>10, <2>1, Zenon
<1>12. MagicAt(b, 0)
  <2>1. MagicOn(b, 0) /\ 0 \in Nat /\ 0 + 3 <= Len(b)
    BY <1>1, <1>8, <1>11 DEF MagicOn
  <2>2. QED
    BY <1>8, <2>1, MagicAtParts
<1>13. 0 \in 0 .. Len(b) - Len(Magic) /\ \A q \in 1 .. 0 : ~ HasNul(b[q])
  BY <1>1, <1>8, MagicParts
<1>14. QED
  BY <1>12, <1>13 DEF Found, b

(* The search keeps the invariant: nothing is skipped. *)
LEMMA SoundResync ==
    ASSUME SoundInv, fault = "none",
           ResyncFound \/ ResyncLast \/ ResyncBorder \/ ResyncNextBuffer
    PROVE  SoundInv'
<1> SUFFICES ASSUME sound'
             PROVE  SoundTypes' /\ SoundDelivered' /\ SoundPlace' /\ SoundState' /\ SoundRest'
  BY DEF SoundInv
<1>1. /\ input' = input /\ script' = script /\ sound' = sound /\ delivered' = delivered
      /\ running' = running /\ running /\ header' = header /\ Searching
  BY DEF ResyncFound, ResyncLast, ResyncBorder, ResyncNextBuffer, peerVars, Searching
<1>2. SoundTypes /\ SoundDelivered /\ SoundPlace /\ SoundState
  BY <1>1 DEF SoundInv
<1>3. 0 \in Found(segs[1])
  BY <1>1, <1>2, SoundSearch
<1>4. ResyncFound
  BY <1>3 DEF ResyncLast, ResyncBorder, ResyncNextBuffer
<1>5. PICK p \in Found(segs[1]) :
        /\ \A q \in Found(segs[1]) : p <= q
        /\ IF p = 0 THEN UNCHANGED <<streamVars, fault>> ELSE Skip(p)
  BY <1>4 DEF ResyncFound
<1>6. p = 0
  <2>1. p \in Nat /\ p <= 0
    BY <1>3, <1>5 DEF Found
  <2>2. QED
    BY <2>1
<1>7. segs' = segs /\ offset' = offset /\ size' = size /\ fault' = fault
  BY <1>5, <1>6 DEF streamVars
<1>8. state' = "MS_WAITING_HEADER"
  BY <1>4 DEF ResyncFound
<1>9. SoundTypes' /\ SoundDelivered' /\ SoundPlace'
  <2>1. SoundTypes'
    BY <1>1, <1>2, <1>7, <1>8 DEF SoundTypes
  <2>2. QED
    BY <1>1, <1>2, <1>7, <2>1, Zenon DEF SoundDelivered, SoundPlace
<1>10. SoundState' /\ SoundRest'
  BY <1>1, <1>2, <1>7, <1>8 DEF SoundState, SoundRest
<1>11. QED
  BY <1>9, <1>10

(* Every step keeps it. *)
LEMMA SoundNext == SoundInv /\ [Next]_vars => SoundInv'
<1> SUFFICES ASSUME SoundInv, [Next]_vars PROVE SoundInv'
  OBVIOUS
<1>1. CASE UNCHANGED vars
  <2>1. /\ segs' = segs /\ offset' = offset /\ size' = size /\ input' = input /\ script' = script
        /\ sound' = sound /\ delivered' = delivered /\ state' = state /\ header' = header
        /\ fault' = fault /\ running' = running
    BY <1>1 DEF vars
  <2>2. QED
    BY <2>1, Zenon DEF SoundInv, SoundTypes, SoundDelivered, SoundPlace, SoundState, SoundRest,
                       MsgLength
<1>2. CASE Next
  <2>1. fault = "none"
    BY <1>2 DEF Next
  <2>2. CASE \E n \in 1 .. Len(input) : Arrive(n)
    BY <2>1, <2>2, SoundArrive
  <2>3. CASE Reconnect
    BY <2>1, <2>3, SoundReconnect
  <2>4. CASE LoopEnds \/ WaitForBody
    BY <2>1, <2>4, SoundLoopEnds
  <2>5. CASE OnWaitHeader
    BY <2>1, <2>5, SoundOnWaitHeader
  <2>6. CASE OnWaitBody
    BY <2>1, <2>6, SoundOnWaitBody
  <2>7. CASE AllocFails
    BY <2>7 DEF AllocFails, SoundInv
  <2>8. CASE ResyncFound \/ ResyncLast \/ ResyncBorder \/ ResyncNextBuffer
    BY <2>1, <2>8, SoundResync
  <2>9. QED
    BY <1>2, <2>2, <2>3, <2>4, <2>5, <2>6, <2>7, <2>8 DEF Next, Iteration
<1>3. QED
  BY <1>1, <1>2

(* Assembly on a sound connection, whatever the buffers, and across all    *)
(* the connections that use the index.                                     *)
THEOREM AssemblerSoundInv == Spec => []SoundInv
BY SoundAtInit, SoundNext, PTL DEF Spec

(* On a sound connection no read of MsgAssembler leaves the buffers and no *)
(* payload is longer than the message allocated for it.                    *)
THEOREM AssemblerSoundIsInBounds == Spec => []SoundIsInBounds
<1>1. SoundInv => SoundIsInBounds
  BY DEF SoundInv, SoundState, SoundIsInBounds
<1>2. QED
  BY <1>1, AssemblerSoundInv, PTL

(* Between callbacks the messages delivered are just those that have       *)
(* arrived in full: the next one ends behind the last byte that is there.  *)
LEMMA SoundComplete ==
    ASSUME SoundInv, sound, ~ running
    PROVE  Len(delivered) = Complete
<1> DEFINE d == Len(delivered)
           N == Len(script)
           a == Start(script, d)
           c == {m \in DOMAIN script : Len(Wire(SubSeq(script, 1, m))) <= Len(Wire(script)) - Len(input)}
<1>1. SoundTypes /\ SoundDelivered /\ SoundPlace /\ SoundState /\ SoundRest
  BY DEF SoundInv
<1>2. script \in Scripts /\ size \in Nat /\ N \in Nat /\ DOMAIN script = 1 .. N
  BY <1>1, ScriptType DEF SoundTypes
<1>3. /\ d \in Nat /\ d <= N /\ a \in Nat /\ Len(input) \in Nat /\ Len(Wire(script)) \in Nat
      /\ a + size + Len(input) = Len(Wire(script))
      /\ size > 0 => d \in 0 .. N - 1
  BY <1>1, SoundAhead
<1>4. size > 0 => d + 1 \in 1 .. N /\ size < Len(Text(script, d + 1))
  <2>1. size > 0 => state = "MS_WAITING_BODY" /\ size < MsgLength(header)
    BY <1>1, <1>2 DEF SoundRest
  <2>2. state = "MS_WAITING_BODY" => header = d + 1 /\ header \in 1 .. N
    BY <1>1 DEF SoundState
  <2>3. QED
    BY <2>1, <2>2, Zenon DEF MsgLength
<1>5. Len(Wire(script)) - Len(input) = a + size
  BY <1>2, <1>3
<1> HIDE DEF a
<1>6. ASSUME NEW m \in 1 .. N PROVE Start(script, m) <= a + size <=> m \in 1 .. d
  <2>1. m \in 0 .. N /\ d \in 0 .. N /\ m \in Nat
    BY <1>2, <1>3
  <2>2. Start(script, m) \in Nat
    BY <1>2, <2>1, StartIsSpan
  <2>3. CASE m <= d
    <3>1. Start(script, m) <= a
      <4>1. CASE m = d
        BY <1>3, <2>2, <4>1 DEF a
      <4>2. CASE m < d
        <5>1. Start(script, m) < Start(script, d)
          BY <1>2, <2>1, <4>2, StartMonotone
        <5>2. QED
          BY <1>3, <2>2, <5>1 DEF a
      <4>3. QED
        BY <1>3, <2>1, <2>3, <4>1, <4>2
    <3>2. m \in 1 .. d
      BY <1>3, <2>3
    <3>3. QED
      BY <1>2, <1>3, <2>2, <3>1, <3>2
  <2>4. CASE d < m
    <3>1. d \in 0 .. N - 1 /\ d + 1 \in 0 .. N
      BY <1>2, <1>3, <2>1, <2>4
    <3>2. /\ Start(script, d + 1) = a + Len(Text(script, d + 1))
          /\ Len(Text(script, d + 1)) \in Nat /\ Len(Text(script, d + 1)) >= 4
      BY <1>2, <3>1, StartStep DEF a
    <3>3. Start(script, d + 1) <= Start(script, m)
      BY <1>2, <2>1, <2>4, StartMonotone
    <3>4. size < Len(Text(script, d + 1))
      BY <1>2, <1>4, <3>2
    <3>5. ~ (Start(script, m) <= a + size)
      BY <1>2, <1>3, <2>2, <3>2, <3>3, <3>4
    <3>6. QED
      BY <1>3, <2>1, <2>4, <3>5
  <2>5. QED
    BY <1>3, <2>1, <2>3, <2>4
<1>7. c = 1 .. d
  <2>1. \A m : m \in c <=> m \in 1 .. N /\ Start(script, m) <= a + size
    BY <1>2, <1>5, Zenon DEF Start
  <2>2. \A m : m \in 1 .. d => m \in 1 .. N
    BY <1>2, <1>3
  <2> HIDE DEF c
  <2>3. \A m : m \in c <=> m \in 1 .. d
    BY <1>6, <2>1, <2>2, Zenon
  <2>4. QED
    BY <2>3, Zenon
<1>8. Cardinality(1 .. d) = d
  <2>1. 1 \in Int /\ d \in Int
    BY <1>3
  <2>2. Cardinality(1 .. d) = IF 1 > d THEN 0 ELSE d - 1 + 1
    BY <2>1, FS_Interval, Zenon
  <2>3. QED
    BY <1>3, <2>2
<1>9. Complete = Cardinality(c)
  BY Zenon DEF Complete
<1>10. QED
  BY <1>7, <1>8, <1>9, Zenon

(* On a sound connection every message that has arrived in full is with    *)
(* the listener when onBytesReceived returns, however the stream was cut   *)
(* into buffers.                                                           *)
THEOREM AssemblerSoundIsDelivered == Spec => []SoundIsDelivered
<1>1. SoundInv => SoundIsDelivered
  BY SoundComplete DEF SoundIsDelivered
<1>2. QED
  BY <1>1, AssemblerSoundInv, PTL

-------------------------------------------------------------------------------

(* On any connection: the buffers are the part behind place q of what the  *)
(* peer sent; the stream is past the beginning of every message of the     *)
(* peer that was delivered; and as long as no message was lost, a header   *)
(* that was peeked is still where the stream is.                           *)
PlacedAt(junk, q) ==
    /\ StreamAt(segs, input, junk \o Wire(script), q)
    /\ delivered # <<>> => Tidy(segs, offset)
    /\ \A i \in 1 .. Len(delivered) :
          delivered[i] # 0 => Len(junk) + Start(script, delivered[i] - 1) < q + offset
    /\ intact /\ state = "MS_WAITING_BODY" =>
          q + offset = Len(junk) + Start(script, header - 1)

Placed == \E junk \in Junk, q \in Nat : PlacedAt(junk, q)

(* A header that was found is the header of a message. *)
HeaderIsMessage == state = "MS_WAITING_BODY" => header \in 1 .. Len(script)

(* As long as no message was lost, what was delivered is what was sent. *)
PayloadsAreSent ==
    /\ payloads \in Seq(Seq(Int))
    /\ intact => \A i \in 1 .. Len(delivered) :
                    /\ delivered[i] \in 1 .. Len(script)
                    /\ payloads[i] = FrameOf(script[delivered[i]]).payload

(* The inductive invariant of every connection, sound or not. *)
LooseInv == TypeOK /\ HeaderIsMessage /\ PayloadsAreSent /\ Placed

(* Take goes forward in what the peer sent. *)
LEMMA TakeMoves ==
    ASSUME segs \in Buffers, offset \in Nat, input \in Seq(Int), NEW bytes, NEW q,
           StreamAt(segs, input, bytes, q), NEW n \in Nat, InBounds(n), Take(n)
    PROVE  /\ segs' \in Buffers /\ offset' \in Nat /\ Tidy(segs', offset')
           /\ size' = size - n
           /\ \E r \in Nat : StreamAt(segs', input, bytes, r) /\ r + offset' = q + offset + n
<1>1. PICK gone \in 0 .. Len(segs) :
              /\ segs' = SubSeq(segs, gone + 1, Len(segs))
              /\ offset' = offset + n - Span(segs, gone)
              /\ size' = size - n
              /\ segs' \in Buffers /\ offset' \in Nat /\ Tidy(segs', offset')
              /\ Span(segs, gone) \in Nat
  BY TakeParts
<1>2. StreamAt(segs', input, bytes, q + Span(segs, gone))
  BY <1>1, StreamDrop
<1>3. q \in Nat
  BY DEF StreamAt
<1>4. Span(segs, gone) \in Nat /\ offset' = offset + n - Span(segs, gone)
  BY <1>1
<1> DEFINE y == Span(segs, gone)
<1> HIDE DEF y
<1>5. y \in Nat /\ offset' = offset + n - y
  BY <1>4 DEF y
<1>6. q + y \in Nat /\ (q + y) + offset' = q + offset + n
  BY <1>3, <1>5
<1>7. StreamAt(segs', input, bytes, q + y)
  BY <1>2 DEF y
<1>8. QED
  BY <1>1, <1>6, <1>7, Zenon

(* A step that goes forward in the stream, or stays. *)
Moves ==
    /\ segs' \in Buffers /\ offset' \in Nat /\ size' \in Nat
    /\ fault' \in {"none", "bounds", "overflow"}
    /\ Placed'

(* What was delivered, by number. *)
LEMMA DeliveredNumbers ==
    ASSUME TypeOK, NEW i \in 1 .. Len(delivered)
    PROVE  /\ delivered[i] \in 0 .. Len(script)
           /\ delivered[i] # 0 => /\ delivered[i] - 1 \in 0 .. Len(script)
                                 /\ delivered[i] - 1 \in 0 .. Len(script) - 1
                                 /\ Start(script, delivered[i] - 1) \in Nat
<1>1. script \in Scripts /\ delivered \in Seq(0 .. Len(script))
  BY DEF TypeOK
<1>2. Len(script) \in Nat
  BY <1>1, ScriptType
<1>3. delivered[i] \in 0 .. Len(script)
  BY <1>1, ElementOfSeq
<1>4. ASSUME delivered[i] # 0
      PROVE  /\ delivered[i] - 1 \in 0 .. Len(script)
             /\ delivered[i] - 1 \in 0 .. Len(script) - 1
  BY <1>2, <1>3, <1>4
<1>5. QED
  BY <1>1, <1>3, <1>4, StartIsSpan

(* Going forward keeps the place behind what was delivered. *)
LEMMA MovesOn ==
    ASSUME TypeOK, NEW junk \in Junk, NEW q \in Nat, PlacedAt(junk, q),
           script' = script, input' = input, delivered' = delivered,
           NEW r \in Nat, StreamAt(segs', input, junk \o Wire(script), r),
           offset' \in Nat, q + offset <= r + offset',
           delivered # <<>> => Tidy(segs', offset'),
           ~ (intact' /\ state' = "MS_WAITING_BODY")
    PROVE  Placed'
<1>1. StreamAt(segs', input', junk \o Wire(script'), r)
  BY Zenon
<1>2. delivered' # <<>> => Tidy(segs', offset')
  BY Zenon
<1>3. ASSUME NEW i \in 1 .. Len(delivered), delivered[i] # 0
      PROVE  Len(junk) + Start(script, delivered[i] - 1) < r + offset'
  <2> DEFINE a == Start(script, delivered[i] - 1)
             x == Len(junk) + a
             y == q + offset
             z == r + offset'
  <2>1. a \in Nat
    BY <1>3, DeliveredNumbers
  <2>2. Len(junk) \in Nat /\ offset \in Nat
    BY AllParts DEF TypeOK
  <2>3. x \in Int /\ y \in Int /\ z \in Int
    BY <2>1, <2>2
  <2>4. x < y
    BY <1>3, Zenon DEF PlacedAt
  <2>5. y <= z
    OBVIOUS
  <2> HIDE DEF x, y, z
  <2>6. x < z
    BY <2>3, <2>4, <2>5
  <2>7. QED
    BY <2>6 DEF x, z
<1>4. \A i \in 1 .. Len(delivered') :
          delivered'[i] # 0 => Len(junk) + Start(script', delivered'[i] - 1) < r + offset'
  BY <1>3, Zenon
<1>5. PlacedAt(junk, r)'
  BY <1>1, <1>2, <1>4, Zenon DEF PlacedAt
<1>6. QED
  BY <1>5 DEF Placed

(* The types, in the form that the lemmas need. *)
LEMMA TypeParts ==
    ASSUME TypeOK
    PROVE  /\ script \in Scripts /\ segs \in Buffers /\ input \in Seq(Int)
           /\ offset \in Nat /\ size \in Nat
           /\ fault \in {"none", "bounds", "overflow"}
           /\ Len(script) \in Nat /\ DOMAIN script = 1 .. Len(script)
           /\ delivered \in Seq(0 .. Len(script)) /\ header \in 0 .. Len(script)
           /\ Len(delivered) \in Nat
<1>1. /\ script \in Scripts /\ segs \in Buffers /\ input \in Seq(Int)
      /\ offset \in Nat /\ size \in Nat
      /\ fault \in {"none", "bounds", "overflow"}
      /\ delivered \in Seq(0 .. Len(script)) /\ header \in 0 .. Len(script)
  BY DEF TypeOK, Buffers
<1>2. Len(script) \in Nat /\ DOMAIN script = 1 .. Len(script)
  BY <1>1, ScriptType
<1>3. Len(delivered) \in Nat
  BY <1>1
<1>4. QED
  BY <1>1, <1>2, <1>3, Zenon

(* A step that leaves the stream alone. *)
LEMMA StayMoves ==
    ASSUME TypeOK, Placed, script' = script, input' = input, delivered' = delivered,
           UNCHANGED streamVars, fault' \in {"none", "bounds", "overflow"},
           intact' /\ state' = "MS_WAITING_BODY" =>
              intact /\ state = "MS_WAITING_BODY" /\ header' = header
    PROVE  Moves
<1>1. segs' = segs /\ offset' = offset /\ size' = size
  BY DEF streamVars
<1>2. Placed'
  <2>1. PICK junk \in Junk, q \in Nat : PlacedAt(junk, q)
    BY DEF Placed
  <2>2. PlacedAt(junk, q)'
    BY <1>1, <2>1, Zenon DEF PlacedAt
  <2>3. QED
    BY <2>2 DEF Placed
<1>3. QED
  BY <1>1, <1>2, TypeParts DEF Moves

(* skipBytes goes forward, whatever the number of bytes. *)
LEMMA SkipMoves ==
    ASSUME TypeOK, Placed, NEW n \in Nat, Skip(n),
           script' = script, input' = input, delivered' = delivered,
           ~ (intact' /\ state' = "MS_WAITING_BODY")
    PROVE  Moves
<1> DEFINE m == Least(size, n)
<1>1. /\ script \in Scripts /\ segs \in Buffers /\ input \in Seq(Int)
      /\ offset \in Nat /\ size \in Nat
      /\ fault \in {"none", "bounds", "overflow"}
  BY TypeParts
<1>2. m \in Nat /\ m <= size
  BY <1>1 DEF Least
<1>3. IF InBounds(m) THEN Take(m) /\ UNCHANGED fault
      ELSE fault' = "bounds" /\ UNCHANGED streamVars
  BY DEF Skip
<1> HIDE DEF m
<1>4. CASE ~ InBounds(m)
  <2>1. fault' = "bounds" /\ UNCHANGED streamVars
    BY <1>3, <1>4
  <2>2. fault' \in {"none", "bounds", "overflow"}
    BY <2>1
  <2>3. QED
    BY <2>1, <2>2, StayMoves
<1>5. CASE InBounds(m)
  <2>1. Take(m) /\ fault' = fault
    BY <1>3, <1>5
  <2>2. PICK junk \in Junk, q \in Nat : PlacedAt(junk, q)
    BY DEF Placed
  <2>3. StreamAt(segs, input, junk \o Wire(script), q)
    BY <2>2 DEF PlacedAt
  <2>4. /\ segs' \in Buffers /\ offset' \in Nat /\ Tidy(segs', offset') /\ size' = size - m
        /\ \E r \in Nat : StreamAt(segs', input, junk \o Wire(script), r)
                          /\ r + offset' = q + offset + m
    BY <1>1, <1>2, <1>5, <2>1, <2>3, TakeMoves
  <2>5. PICK r \in Nat : StreamAt(segs', input, junk \o Wire(script), r)
                          /\ r + offset' = q + offset + m
    BY <2>4
  <2>6. q + offset <= r + offset'
    <3>1. r + offset' = q + offset + m
      BY <2>5
    <3>2. q + offset <= q + offset + m
      BY <1>1, <1>2
    <3>3. QED
      BY <3>1, <3>2, Zenon
  <2>7. Placed'
    BY <2>2, <2>4, <2>5, <2>6, MovesOn
  <2>8. size' \in Nat
    BY <1>1, <1>2, <2>4
  <2>9. QED
    BY <1>1, <2>1, <2>4, <2>7, <2>8 DEF Moves
<1>6. QED
  BY <1>4, <1>5

(* Removing the first buffer in searchBytes goes forward, although m_size  *)
(* stays.                                                                  *)
LEMMA NextBufferMoves ==
    ASSUME TypeOK, Placed, script' = script, input' = input, delivered' = delivered,
           ResyncNextBuffer
    PROVE  Moves
<1>1. /\ script \in Scripts /\ segs \in Buffers /\ input \in Seq(Int)
      /\ offset \in Nat /\ size \in Nat
      /\ fault \in {"none", "bounds", "overflow"}
  BY TypeParts
<1>2. /\ segs # <<>> /\ Len(segs) > 1 /\ segs' = Tail(segs) /\ offset' = 0
      /\ size' = size /\ fault' = fault
  BY DEF ResyncNextBuffer, Searching
<1>3. Len(segs) \in Nat /\ segs \in Seq(Seq(Int))
  BY <1>1, BuffersAreSeqs
<1>4. /\ 1 \in 0 .. Len(segs) /\ 1 + 1 = 2 /\ 1 \in 1 .. Len(segs)
      /\ 0 \in 0 .. Len(segs) - 1 /\ 0 + 1 = 1
  BY <1>2, <1>3
<1>5. segs' = SubSeq(segs, 1 + 1, Len(segs))
  <2>1. Tail(segs) = SubSeq(segs, 2, Len(segs))
    BY <1>2, <1>3, TailIsSubSeq
  <2>2. QED
    BY <1>2, <1>4, <2>1, Zenon
<1>6. Span(segs, 1) = Len(segs[1]) /\ Len(segs[1]) \in Nat
  <2>1. Span(segs, 0 + 1) = Span(segs, 0) + Len(segs[0 + 1]) /\ Len(segs[0 + 1]) \in Nat
    BY <1>3, <1>4, SpanStep
  <2>2. Span(segs, 0) = 0
    BY <1>3, SpanEnds
  <2>3. Span(segs, 1) = 0 + Len(segs[1]) /\ Len(segs[1]) \in Nat
    BY <1>4, <2>1, <2>2, Zenon
  <2>4. QED
    BY <2>3
<1>7. segs' \in Buffers
  <2>1. SubSeq(segs, 2, Len(segs)) \in Seq(Seq(Int) \ {<<>>})
    BY <1>1, <1>3 DEF Buffers
  <2>2. QED
    BY <1>4, <1>5, <2>1, Zenon DEF Buffers
<1>8. Tidy(segs', offset')
  <2>1. CASE segs' = <<>>
    BY <1>2, <2>1, Zenon DEF Tidy
  <2>2. CASE segs' # <<>>
    <3>1. 1 \in 1 .. Len(segs')
      BY <1>7, <2>2, EmptySeq DEF Buffers
    <3>2. Len(segs'[1]) \in Nat \ {0}
      BY <1>7, <3>1, BuffersAreSeqs
    <3>3. 0 < Len(segs'[1])
      BY <3>2
    <3>4. QED
      BY <1>2, <2>2, <3>3, Zenon DEF Tidy
  <2>3. QED
    BY <2>1, <2>2
<1>9. PICK junk \in Junk, q \in Nat : PlacedAt(junk, q)
  BY DEF Placed
<1>10. /\ StreamAt(segs, input, junk \o Wire(script), q)
       /\ delivered # <<>> => Tidy(segs, offset)
  BY <1>9 DEF PlacedAt
<1>11. StreamAt(segs', input, junk \o Wire(script), q + Len(segs[1]))
  <2>1. StreamAt(SubSeq(segs, 1 + 1, Len(segs)), input, junk \o Wire(script), q + Span(segs, 1))
    BY <1>1, <1>4, <1>10, StreamDrop
  <2>2. QED
    BY <1>5, <1>6, <2>1, Zenon
<1>12. Placed'
  <2>1. CASE delivered = <<>>
    <3>1. q + Len(segs[1]) \in Nat /\ delivered' = <<>> /\ Len(delivered') = 0
      BY <1>6, <2>1
    <3>2. StreamAt(segs', input', junk \o Wire(script'), q + Len(segs[1]))
      BY <1>11, Zenon
    <3>3. 1 .. Len(delivered') = {}
      BY <3>1
    <3>4. state' # "MS_WAITING_BODY"
      BY DEF ResyncNextBuffer, Searching
    <3>5. PICK r \in Nat : r = q + Len(segs[1])
      BY <3>1
    <3>6. PlacedAt(junk, r)'
      BY <3>1, <3>2, <3>3, <3>4, <3>5, Zenon DEF PlacedAt
    <3>7. QED
      BY <3>6 DEF Placed
  <2>2. CASE delivered # <<>>
    <3>1. offset <= Len(segs[1])
      BY <1>1, <1>2, <1>10, <2>2, TidyIsInside
    <3>2. q + Len(segs[1]) \in Nat /\ offset' \in Nat /\ q + offset <= (q + Len(segs[1])) + offset'
      BY <1>1, <1>2, <1>6, <3>1
    <3>3. ~ (intact' /\ state' = "MS_WAITING_BODY")
      BY DEF ResyncNextBuffer, Searching
    <3>4. QED
      BY <1>8, <1>9, <1>11, <3>2, <3>3, MovesOn
  <2>3. QED
    BY <2>1, <2>2
<1>13. QED
  BY <1>1, <1>2, <1>7, <1>12 DEF Moves

(* What is in bounds is in the buffers. *)
LEMMA InBoundsParts ==
    ASSUME segs \in Buffers, offset \in Nat, NEW n \in Nat, InBounds(n)
    PROVE  offset + n <= Len(FlattenSeq(segs))
<1>1. Span(segs, Len(segs)) = Len(FlattenSeq(segs))
  BY BuffersAreSeqs
<1>2. offset + n <= Span(segs, Len(segs))
  BY DEF InBounds, Bytes, Span
<1>3. QED
  BY <1>1, <1>2, Zenon

(* What is peeked is what the peer sent, at the place of the stream. *)
LEMMA PeekIsSent ==
    ASSUME script \in Scripts, segs \in Buffers, offset \in Nat, input \in Seq(Int),
           NEW junk \in Junk, NEW q \in Nat,
           StreamAt(segs, input, junk \o Wire(script), q),
           NEW n \in Nat, InBounds(n)
    PROVE  /\ Peek(n) \in Seq(Int) /\ Len(Peek(n)) = n
           /\ q + offset + n <= Len(junk \o Wire(script))
           /\ \A i \in 1 .. n : Peek(n)[i] = (junk \o Wire(script))[q + offset + i]
<1> DEFINE f == FlattenSeq(segs)
           all == junk \o Wire(script)
<1>1. offset + n <= Len(f) /\ Len(f) \in Nat
  BY InBoundsParts, BuffersAreSeqs
<1>2. /\ Peek(n) \in Seq(Int) /\ Len(Peek(n)) = n
      /\ \A i \in 1 .. n : Peek(n)[i] = f[offset + i]
  BY <1>1, PeekParts
<1>3. /\ q + Len(f) + Len(input) = Len(all)
      /\ \A i \in 1 .. Len(f) : f[i] = all[q + i]
  BY DEF StreamAt
<1>4. Len(input) \in Nat /\ Len(all) \in Nat
  BY AllParts
<1> HIDE DEF f, all
<1>5. q + Len(f) + Len(input) = Len(all)
  BY <1>3, Zenon
<1>6. q + offset + n <= Len(all)
  BY <1>1, <1>4, <1>5
<1>7. ASSUME NEW i \in 1 .. n PROVE Peek(n)[i] = all[q + offset + i]
  <2>1. offset + i \in 1 .. Len(f) /\ q + (offset + i) = q + offset + i
    BY <1>1
  <2>2. QED
    BY <1>2, <1>3, <2>1, Zenon
<1>8. QED
  BY <1>2, <1>6, <1>7, Zenon DEF all

(* A header with the magic word is the header of a message, and the stream *)
(* is at the beginning of that message.                                    *)
LEMMA ValidHeader ==
    ASSUME script \in Scripts, segs \in Buffers, offset \in Nat, input \in Seq(Int),
           NEW junk \in Junk, NEW q \in Nat,
           StreamAt(segs, input, junk \o Wire(script), q),
           InBounds(HeaderLength), IsValid(Peek(HeaderLength))
    PROVE  \E k \in 0 .. Len(script) - 1 :
              /\ q + offset = Len(junk) + Start(script, k)
              /\ Peek(HeaderLength)[HeaderLength] = k + 1
<1> DEFINE all == junk \o Wire(script)
           w == Wire(script)
           b == Peek(4)
           p == q + offset
<1>1. HeaderLength = 4 /\ InBounds(4) /\ MagicAt(b, 0)
  <2>1. HeaderLength = 4
    BY MagicParts
  <2>2. QED
    BY <2>1, Zenon DEF IsValid
<1>2. /\ b \in Seq(Int) /\ Len(b) = 4 /\ p + 4 <= Len(all)
      /\ \A i \in 1 .. 4 : b[i] = all[p + i]
  <2>1. 4 \in Nat
    OBVIOUS
  <2>2. QED
    BY <1>1, <2>1, PeekIsSent, Zenon
<1>3. /\ Len(junk) \in Nat /\ Len(w) \in Nat /\ all \in Seq(Int) /\ Len(all) \in Nat
      /\ \A i \in 1 .. Len(w) : all[Len(junk) + i] = w[i]
  BY AllParts
<1> HIDE DEF all, w, b
<1>4. b[1] = -1 /\ b[2] = -2 /\ b[3] = -3
  <2>1. 0 \in Nat /\ 0 + 3 <= Len(b)
    BY <1>2
  <2>2. MagicOn(b, 0)
    BY <1>1, <1>2, <2>1, MagicAtParts
  <2>3. 0 + 1 = 1 /\ 0 + 2 = 2 /\ 0 + 3 = 3
    OBVIOUS
  <2>4. QED
    BY <2>2, <2>3, Zenon DEF MagicOn
<1>5. 1 \in 1 .. 4 /\ 2 \in 1 .. 4 /\ 3 \in 1 .. 4 /\ 4 \in 1 .. 4
  OBVIOUS
<1>6. MagicOn(all, p)
  BY <1>2, <1>4, <1>5, Zenon DEF MagicOn
<1>7. p \in Nat /\ p + 3 <= Len(all)
  <2>1. p + 4 <= Len(all) /\ p \in Nat
    BY <1>2
  <2> HIDE DEF p
  <2>2. QED
    BY <1>3, <2>1
<1> HIDE DEF p
<1>8. PICK k \in 0 .. Len(script) - 1 : p = Len(junk) + Start(script, k)
  BY <1>6, <1>7, MagicPlaces DEF all
<1> DEFINE t == Text(script, k + 1)
           a == Start(script, k)
<1>9. k + 1 \in 1 .. Len(script)
  BY ScriptType
<1>10. a \in Nat /\ Len(t) \in Nat /\ Len(t) >= 4
  BY StartStep
<1>11. t[4] = k + 1
  BY <1>9, TextParts
<1>12. a + 4 \in 1 .. Len(w) /\ w[a + 4] = t[4]
  <2>1. 4 \in 1 .. Len(t)
    BY <1>10
  <2>2. QED
    BY <2>1, WireAt DEF w
<1> HIDE DEF a, t
<1>13. p + 4 = Len(junk) + (a + 4)
  <2>1. p = Len(junk) + a
    BY <1>8 DEF a
  <2>2. QED
    BY <1>3, <1>10, <2>1
<1>14. b[4] = k + 1
  BY <1>2, <1>3, <1>5, <1>11, <1>12, <1>13, Zenon
<1>15. QED
  BY <1>1, <1>8, <1>14, Zenon DEF b, p

(* Where a message begins, a header with the magic word stands. *)
LEMMA HeaderIsThere ==
    ASSUME script \in Scripts, segs \in Buffers, offset \in Nat, input \in Seq(Int),
           NEW junk \in Junk, NEW q \in Nat,
           StreamAt(segs, input, junk \o Wire(script), q),
           header \in 1 .. Len(script),
           q + offset = Len(junk) + Start(script, header - 1),
           InBounds(HeaderLength)
    PROVE  IsValid(Peek(HeaderLength))
<1> DEFINE all == junk \o Wire(script)
           w == Wire(script)
           b == Peek(4)
           t == Text(script, header)
           a == Start(script, header - 1)
           c == Len(junk)
<1>1. HeaderLength = 4 /\ 4 \in Nat /\ InBounds(4)
  <2>1. HeaderLength = 4
    BY MagicParts
  <2>2. QED
    BY <2>1
<1>2. /\ b \in Seq(Int) /\ Len(b) = 4
      /\ \A i \in 1 .. 4 : b[i] = all[q + offset + i]
  BY <1>1, PeekIsSent
<1>3. header - 1 \in 0 .. Len(script) - 1 /\ (header - 1) + 1 = header
  BY ScriptType
<1>4. /\ c \in Nat /\ Len(w) \in Nat
      /\ \A i \in 1 .. Len(w) : all[c + i] = w[i]
  BY AllParts
<1>5. a \in Nat /\ Len(t) \in Nat /\ Len(t) >= 4
  BY <1>3, StartStep
<1>6. \A r \in 1 .. Len(t) : a + r \in 1 .. Len(w) /\ w[a + r] = t[r]
  BY <1>3, WireAt
<1>7. t[1] = -1 /\ t[2] = -2 /\ t[3] = -3
  BY TextParts
<1>8. q + offset = c + a
  OBVIOUS
<1> HIDE DEF all, w, b, t, a, c
<1>9. ASSUME NEW i \in 1 .. 3 PROVE b[i] = t[i]
  <2>1. i \in 1 .. 4 /\ i \in 1 .. Len(t) /\ q + offset + i = c + (a + i)
    <3>1. i \in 1 .. 4 /\ i \in 1 .. Len(t)
      BY <1>5
    <3>2. c \in Nat /\ a \in Nat
      BY <1>4, <1>5, Zenon
    <3>3. (c + a) + i = c + (a + i)
      BY <3>2
    <3>4. QED
      BY <1>8, <3>1, <3>3, Zenon
  <2>2. b[i] = all[c + (a + i)] /\ w[a + i] = t[i] /\ a + i \in 1 .. Len(w)
    BY <1>2, <1>6, <2>1
  <2>3. QED
    BY <1>4, <2>2, Zenon
<1>10. b[1] = -1 /\ b[2] = -2 /\ b[3] = -3
  BY <1>7, <1>9
<1>11. MagicAt(b, 0)
  <2>1. MagicOn(b, 0) /\ 0 \in Nat /\ 0 + 3 <= Len(b)
    BY <1>2, <1>10 DEF MagicOn
  <2>2. QED
    BY <1>2, <2>1, MagicAtParts
<1>12. QED
  BY <1>1, <1>11, Zenon DEF IsValid, b

(* And then what is read behind it is the payload of that message. *)
LEMMA ValidPayload ==
    ASSUME script \in Scripts, segs \in Buffers, offset \in Nat, input \in Seq(Int),
           NEW junk \in Junk, NEW q \in Nat,
           StreamAt(segs, input, junk \o Wire(script), q),
           NEW k \in 0 .. Len(script) - 1,
           q + offset = Len(junk) + Start(script, k),
           InBounds(MsgLength(k + 1))
    PROVE  Payload(MsgLength(k + 1)) = FrameOf(script[k + 1]).payload
<1> DEFINE all == junk \o Wire(script)
           w == Wire(script)
           n == MsgLength(k + 1)
           b == Peek(n)
           t == Text(script, k + 1)
           a == Start(script, k)
           y == FrameOf(script[k + 1]).payload
           c == Len(junk)
<1>1. k + 1 \in 1 .. Len(script)
  BY ScriptType
<1>2. /\ y \in Seq(Int) /\ Len(t) = 4 + Len(y) /\ Len(y) \in Nat
      /\ \A i \in 1 .. Len(y) : t[4 + i] = y[i]
  BY <1>1, TextParts
<1>3. n = Len(t) /\ n \in Nat /\ n = 4 + Len(y)
  BY <1>2 DEF MsgLength
<1>4. /\ b \in Seq(Int) /\ Len(b) = n
      /\ \A i \in 1 .. n : b[i] = all[q + offset + i]
  BY <1>3, PeekIsSent
<1>5. /\ c \in Nat /\ Len(w) \in Nat
      /\ \A i \in 1 .. Len(w) : all[c + i] = w[i]
  BY AllParts
<1>6. \A r \in 1 .. Len(t) : a + r \in 1 .. Len(w) /\ w[a + r] = t[r]
  BY WireAt
<1>7. a \in Nat /\ q + offset = c + a
  BY StartStep
<1>8. Payload(n) = SubSeq(b, 5, n)
  <2>1. HeaderLength + 1 = 5
    BY MagicParts
  <2>2. QED
    BY <2>1, Zenon DEF Payload
<1> HIDE DEF all, w, n, b, t, a, y, c
<1>9. /\ SubSeq(b, 5, n) \in Seq(Int) /\ Len(SubSeq(b, 5, n)) = Len(y)
      /\ \A i \in 1 .. Len(y) : SubSeq(b, 5, n)[i] = b[4 + i]
  BY <1>2, <1>3, <1>4
<1>10. ASSUME NEW i \in 1 .. Len(y) PROVE SubSeq(b, 5, n)[i] = y[i]
  <2>1. 4 + i \in 1 .. n
    BY <1>2, <1>3
  <2>2. b[4 + i] = all[q + offset + (4 + i)]
    BY <1>4, <2>1
  <2>3. w[a + (4 + i)] = t[4 + i] /\ a + (4 + i) \in 1 .. Len(w)
    BY <1>3, <1>6, <2>1
  <2>4. q + offset + (4 + i) = c + (a + (4 + i))
    <3>1. (c + a) + (4 + i) = c + (a + (4 + i))
      BY <1>2, <1>5, <1>7
    <3>2. QED
      BY <1>7, <3>1, Zenon
  <2>5. QED
    BY <1>2, <1>5, <1>9, <2>2, <2>3, <2>4, Zenon
<1>11. SubSeq(b, 5, n) = y
  BY <1>2, <1>9, <1>10, SeqEqual
<1>12. QED
  BY <1>8, <1>11, Zenon DEF y, n

(* The first connection. *)
LEMMA LooseAtInit == Init => LooseInv
<1> SUFFICES ASSUME Init PROVE LooseInv
  OBVIOUS
<1>1. script \in Scripts /\ Len(script) \in Nat /\ Wire(script) \in Seq(Int)
  BY ScriptType, TextsType DEF Init
<1>2. PICK junk \in Junk : input = junk \o Wire(script) /\ sound = (junk = <<>>)
  BY DEF Init
<1>3. /\ segs = <<>> /\ offset = 0 /\ size = 0 /\ state = "MS_RESYNC" /\ header = 0
      /\ running = FALSE /\ delivered = <<>> /\ payloads = <<>> /\ intact = TRUE
      /\ connections = 1 /\ allocFailures = 0 /\ fault = "none"
  BY DEF Init
<1>4. input \in Seq(Int)
  BY <1>1, <1>2, AllParts
<1>5. TypeOK
  <2>1. sound \in BOOLEAN
    BY <1>2, Zenon
  <2>2. /\ segs \in Seq(Seq(Int) \ {<<>>}) /\ delivered \in Seq(0 .. Len(script))
        /\ Len(payloads) = Len(delivered) /\ intact \in BOOLEAN
    BY <1>3
  <2>3. /\ offset \in Nat /\ size \in Nat /\ header \in 0 .. Len(script)
        /\ connections \in 1 .. MaxConnections /\ allocFailures \in 0 .. MaxAllocFailures
    BY <1>1, <1>3, AssemblerAssumption
  <2>4. QED
    BY <1>1, <1>3, <1>4, <2>1, <2>2, <2>3 DEF TypeOK
<1>6. Placed
  <2>1. 0 \in Nat /\ StreamAt(segs, input, junk \o Wire(script), 0)
    BY <1>2, <1>3, <1>4, FreshStream
  <2>2. 1 .. Len(delivered) = {} /\ state # "MS_WAITING_BODY"
    BY <1>3
  <2>3. PlacedAt(junk, 0)
    BY <1>3, <2>1, <2>2, Zenon DEF PlacedAt
  <2>4. QED
    BY <2>1, <2>3, Zenon DEF Placed
<1>7. HeaderIsMessage /\ PayloadsAreSent
  <2>1. payloads \in Seq(Seq(Int)) /\ Len(delivered) = 0
    BY <1>3
  <2>2. QED
    BY <1>3, <2>1 DEF HeaderIsMessage, PayloadsAreSent
<1>8. QED
  BY <1>5, <1>6, <1>7 DEF LooseInv

(* Arrive keeps the invariant. *)
LEMMA LooseArrive ==
    ASSUME LooseInv, NEW n \in 1 .. Len(input), Arrive(n)
    PROVE  LooseInv'
<1> DEFINE u == SubSeq(input, 1, n)
<1>1. TypeOK /\ HeaderIsMessage /\ PayloadsAreSent /\ Placed
  BY DEF LooseInv
<1>2. /\ script' = script /\ sound' = sound /\ connections' = connections /\ intact' = intact
      /\ state' = state /\ header' = header /\ delivered' = delivered
      /\ payloads' = payloads /\ allocFailures' = allocFailures /\ fault' = fault
      /\ segs' = Append(segs, u) /\ size' = size + Len(u) /\ offset' = offset
      /\ input' = SubSeq(input, n + 1, Len(input)) /\ running' = TRUE
  BY DEF Arrive, AppendBuffer, peerVars
<1>3. segs \in Buffers /\ input \in Seq(Int) /\ offset \in Nat /\ size \in Nat
  BY <1>1, TypeParts
<1>4. PICK junk \in Junk, q \in Nat : PlacedAt(junk, q)
  BY <1>1 DEF Placed
<1>5. /\ segs' \in Buffers /\ input' \in Seq(Int) /\ Len(u) = n
      /\ StreamAt(segs', input', junk \o Wire(script), q)
  <2>1. StreamAt(segs, input, junk \o Wire(script), q)
    BY <1>4 DEF PlacedAt
  <2>2. QED
    BY <1>2, <1>3, <2>1, StreamArrive
<1>6. u \in Seq(Int) /\ u # <<>> /\ n \in Nat
  BY <1>3
<1>7. Tidy(segs, offset) => Tidy(segs', offset')
  BY <1>2, <1>3, <1>6, TidyAppend
<1>8. size' \in Nat
  BY <1>2, <1>3, <1>5, <1>6
<1> HIDE DEF u
<1>9. Placed'
  <2>1. PlacedAt(junk, q)'
    BY <1>2, <1>4, <1>5, <1>7, Zenon DEF PlacedAt
  <2>2. QED
    BY <2>1 DEF Placed
<1>10. TypeOK'
  BY <1>1, <1>2, <1>5, <1>8 DEF TypeOK, Buffers
<1>11. HeaderIsMessage' /\ PayloadsAreSent'
  BY <1>1, <1>2, Zenon DEF HeaderIsMessage, PayloadsAreSent
<1>12. QED
  BY <1>9, <1>10, <1>11 DEF LooseInv

(* Reconnect keeps it, with whatever offset is left over. *)
LEMMA LooseReconnect ==
    ASSUME LooseInv, Reconnect
    PROVE  LooseInv'
<1>1. TypeOK
  BY DEF LooseInv
<1>2. script' \in Scripts /\ Len(script') \in Nat
  BY ScriptType DEF Reconnect
<1>3. PICK junk \in Junk : input' = junk \o Wire(script') /\ sound' = (junk = <<>> /\ offset = 0)
  BY DEF Reconnect
<1>4. /\ segs' = <<>> /\ offset' = offset /\ size' = 0 /\ state' = "MS_RESYNC" /\ header' = 0
      /\ running' = running /\ delivered' = <<>> /\ payloads' = <<>> /\ intact' = TRUE
      /\ connections' = connections + 1 /\ connections < MaxConnections
      /\ allocFailures' = allocFailures /\ fault' = fault
  BY DEF Reconnect, Reset
<1>5. input' \in Seq(Int)
  BY <1>2, <1>3, AllParts
<1>6. TypeOK'
  <2>1. sound' \in BOOLEAN
    BY <1>3, Zenon
  <2>2. /\ segs' \in Seq(Seq(Int) \ {<<>>}) /\ delivered' \in Seq(0 .. Len(script'))
        /\ Len(payloads') = Len(delivered') /\ intact' \in BOOLEAN
    BY <1>4
  <2>3. /\ offset' \in Nat /\ size' \in Nat /\ header' \in 0 .. Len(script')
        /\ connections' \in 1 .. MaxConnections
    BY <1>1, <1>2, <1>4, AssemblerAssumption DEF TypeOK
  <2>4. QED
    BY <1>1, <1>2, <1>4, <1>5, <2>1, <2>2, <2>3 DEF TypeOK
<1>7. Placed'
  <2>1. 0 \in Nat /\ StreamAt(segs', input', junk \o Wire(script'), 0)
    BY <1>3, <1>4, <1>5, FreshStream
  <2>2. 1 .. Len(delivered') = {} /\ state' # "MS_WAITING_BODY"
    BY <1>4
  <2>3. PICK r \in Nat : r = 0
    BY <2>1
  <2>4. PlacedAt(junk, r)'
    BY <1>4, <2>1, <2>2, <2>3, Zenon DEF PlacedAt
  <2>5. QED
    BY <2>4 DEF Placed
<1>8. HeaderIsMessage' /\ PayloadsAreSent'
  <2>1. payloads' \in Seq(Seq(Int)) /\ Len(delivered') = 0
    BY <1>4
  <2>2. QED
    BY <1>4, <2>1 DEF HeaderIsMessage, PayloadsAreSent
<1>9. QED
  BY <1>6, <1>7, <1>8 DEF LooseInv

(* A step of the loop that delivers nothing keeps it. *)
LEMMA LooseStep ==
    ASSUME LooseInv, Moves, script' = script, sound' \in BOOLEAN, running' \in BOOLEAN,
           input' = input, delivered' = delivered, payloads' = payloads,
           connections' = connections, allocFailures' \in 0 .. MaxAllocFailures,
           state' \in {"MS_WAITING_HEADER", "MS_WAITING_BODY", "MS_RESYNC"},
           header' \in 0 .. Len(script), intact' \in BOOLEAN, intact' => intact,
           HeaderIsMessage'
    PROVE  LooseInv'
<1>1. TypeOK /\ PayloadsAreSent
  BY DEF LooseInv
<1>2. /\ segs' \in Buffers /\ offset' \in Nat /\ size' \in Nat
      /\ fault' \in {"none", "bounds", "overflow"} /\ Placed'
  BY DEF Moves
<1>3. /\ script \in Scripts /\ input \in Seq(Int) /\ delivered \in Seq(0 .. Len(script))
      /\ Len(payloads) = Len(delivered) /\ connections \in 1 .. MaxConnections
  BY <1>1 DEF TypeOK
<1>4. TypeOK'
  BY <1>2, <1>3, Zenon DEF TypeOK, Buffers
<1>5. PayloadsAreSent'
  BY <1>1, Zenon DEF PayloadsAreSent
<1>6. QED
  BY <1>2, <1>4, <1>5 DEF LooseInv

(* The two ways a callback ends keep it. *)
LEMMA LooseLoopEnds ==
    ASSUME LooseInv, LoopEnds \/ WaitForBody
    PROVE  LooseInv'
<1>1. TypeOK /\ Placed /\ HeaderIsMessage
  BY DEF LooseInv
<1>2. /\ script' = script /\ sound' = sound /\ connections' = connections /\ intact' = intact
      /\ state' = state /\ header' = header /\ delivered' = delivered /\ input' = input
      /\ payloads' = payloads /\ allocFailures' = allocFailures /\ fault' = fault
      /\ UNCHANGED streamVars /\ running' = FALSE
  BY DEF LoopEnds, WaitForBody, peerVars
<1>3. fault' \in {"none", "bounds", "overflow"}
  BY <1>1, <1>2, TypeParts
<1>4. Moves
  BY <1>1, <1>2, <1>3, StayMoves
<1>5. HeaderIsMessage'
  BY <1>1, <1>2, Zenon DEF HeaderIsMessage
<1>6. /\ sound' \in BOOLEAN /\ running' \in BOOLEAN /\ allocFailures' \in 0 .. MaxAllocFailures
      /\ intact' \in BOOLEAN
      /\ state' \in {"MS_WAITING_HEADER", "MS_WAITING_BODY", "MS_RESYNC"}
      /\ header' \in 0 .. Len(script)
  BY <1>1, <1>2, Zenon DEF TypeOK
<1>7. QED
  BY <1>2, <1>4, <1>5, <1>6, LooseStep

(* OnWaitHeader keeps it, with its three outcomes. *)
LEMMA LooseOnWaitHeader ==
    ASSUME LooseInv, OnWaitHeader
    PROVE  LooseInv'
<1>1. TypeOK /\ Placed /\ HeaderIsMessage
  BY DEF LooseInv
<1>2. /\ script' = script /\ sound' = sound /\ connections' = connections /\ intact' = intact
      /\ delivered' = delivered /\ input' = input /\ running' = running
      /\ payloads' = payloads /\ allocFailures' = allocFailures
      /\ state = "MS_WAITING_HEADER"
  BY DEF OnWaitHeader, peerVars
<1>3. /\ script \in Scripts /\ segs \in Buffers /\ offset \in Nat /\ input \in Seq(Int)
      /\ Len(script) \in Nat /\ HeaderLength \in Nat
  BY <1>1, TypeParts, MagicParts
<1>4. /\ sound' \in BOOLEAN /\ running' \in BOOLEAN /\ allocFailures' \in 0 .. MaxAllocFailures
      /\ intact' \in BOOLEAN
  BY <1>1, <1>2, Zenon DEF TypeOK
<1>5. CASE ~ InBounds(HeaderLength)
  <2>1. fault' = "bounds" /\ UNCHANGED streamVars /\ state' = state /\ header' = header
    BY <1>5 DEF OnWaitHeader
  <2>2. fault' \in {"none", "bounds", "overflow"}
    BY <2>1
  <2>3. Moves
    BY <1>1, <1>2, <2>1, <2>2, StayMoves
  <2>4. HeaderIsMessage'
    BY <1>1, <1>2, <2>1, Zenon DEF HeaderIsMessage
  <2>5. /\ state' \in {"MS_WAITING_HEADER", "MS_WAITING_BODY", "MS_RESYNC"}
        /\ header' \in 0 .. Len(script)
    BY <1>1, <2>1, Zenon DEF TypeOK
  <2>6. QED
    BY <1>2, <1>4, <2>3, <2>4, <2>5, LooseStep
<1>6. CASE InBounds(HeaderLength) /\ IsValid(Peek(HeaderLength))
  <2>1. /\ state' = "MS_WAITING_BODY" /\ header' = Peek(HeaderLength)[HeaderLength]
        /\ UNCHANGED streamVars /\ fault' = fault
    BY <1>6 DEF OnWaitHeader
  <2>2. fault' \in {"none", "bounds", "overflow"}
    BY <1>1, <2>1, TypeParts
  <2>3. PICK junk \in Junk, q \in Nat : PlacedAt(junk, q)
    BY <1>1 DEF Placed
  <2>4. StreamAt(segs, input, junk \o Wire(script), q)
    BY <2>3 DEF PlacedAt
  <2>5. PICK k \in 0 .. Len(script) - 1 :
            /\ q + offset = Len(junk) + Start(script, k)
            /\ Peek(HeaderLength)[HeaderLength] = k + 1
    BY <1>3, <1>6, <2>4, ValidHeader
  <2>6. header' \in 1 .. Len(script) /\ header' \in 0 .. Len(script)
    <3>1. k + 1 \in 1 .. Len(script) /\ k + 1 \in 0 .. Len(script)
      BY <1>3
    <3>2. QED
      BY <2>1, <2>5, <3>1, Zenon
  <2>7. HeaderIsMessage'
    BY <1>2, <2>6, Zenon DEF HeaderIsMessage
  <2>8. state' \in {"MS_WAITING_HEADER", "MS_WAITING_BODY", "MS_RESYNC"}
    BY <2>1
  <2>9. Moves
    <3>1. segs' = segs /\ offset' = offset /\ size' = size
      BY <2>1 DEF streamVars
    <3>2. header' - 1 = k
      BY <1>3, <2>1, <2>5
    <3>3. q + offset' = Len(junk) + Start(script', header' - 1)
      BY <1>2, <2>5, <3>1, <3>2, Zenon
    <3>4. PlacedAt(junk, q)'
      BY <1>2, <2>3, <3>1, <3>3, Zenon DEF PlacedAt
    <3>5. Placed'
      BY <3>4 DEF Placed
    <3>6. QED
      BY <1>1, <2>2, <3>1, <3>5, TypeParts DEF Moves
  <2>10. QED
    BY <1>2, <1>4, <2>6, <2>7, <2>8, <2>9, LooseStep
<1>7. CASE InBounds(HeaderLength) /\ ~ IsValid(Peek(HeaderLength))
  <2>1. Skip(HeaderLength) /\ state' = "MS_RESYNC" /\ header' = header
    BY <1>7 DEF OnWaitHeader
  <2>2. Moves
    BY <1>1, <1>2, <1>3, <2>1, SkipMoves
  <2>3. HeaderIsMessage' /\ header' \in 0 .. Len(script)
    BY <1>1, <2>1, TypeParts DEF HeaderIsMessage
  <2>4. state' \in {"MS_WAITING_HEADER", "MS_WAITING_BODY", "MS_RESYNC"}
    BY <2>1
  <2>5. QED
    BY <1>2, <1>4, <2>2, <2>3, <2>4, LooseStep
<1>8. QED
  BY <1>5, <1>6, <1>7

(* AllocFails keeps it. *)
LEMMA LooseAllocFails ==
    ASSUME LooseInv, AllocFails
    PROVE  LooseInv'
<1>1. TypeOK /\ Placed /\ HeaderIsMessage
  BY DEF LooseInv
<1>2. /\ script' = script /\ sound' = FALSE /\ intact' = FALSE /\ connections' = connections
      /\ delivered' = delivered /\ input' = input /\ running' = FALSE
      /\ payloads' = payloads /\ state' = state /\ header' = header
      /\ allocFailures < MaxAllocFailures /\ allocFailures' = allocFailures + 1
      /\ Skip(MsgLength(header)) /\ state = "MS_WAITING_BODY"
  BY DEF AllocFails
<1>3. script \in Scripts /\ header \in 1 .. Len(script)
  BY <1>1, <1>2, TypeParts DEF HeaderIsMessage
<1>4. MsgLength(header) \in Nat
  <2>1. Text(script, header) \in Seq(Int)
    BY <1>3, TextParts
  <2>2. QED
    BY <2>1 DEF MsgLength
<1>5. Moves
  BY <1>1, <1>2, <1>4, SkipMoves
<1>6. allocFailures' \in 0 .. MaxAllocFailures
  BY <1>1, <1>2, AssemblerAssumption DEF TypeOK
<1>7. HeaderIsMessage'
  BY <1>1, <1>2, Zenon DEF HeaderIsMessage
<1>8. /\ state' \in {"MS_WAITING_HEADER", "MS_WAITING_BODY", "MS_RESYNC"}
      /\ header' \in 0 .. Len(script) /\ sound' \in BOOLEAN /\ running' \in BOOLEAN
      /\ intact' \in BOOLEAN
  BY <1>1, <1>2 DEF TypeOK
<1>9. QED
  BY <1>2, <1>5, <1>6, <1>7, <1>8, LooseStep

(* The places that searchBytes skips to are natural numbers. *)
LEMMA PlacesAreNat ==
    ASSUME segs \in Buffers, Searching
    PROVE  /\ Found(segs[1]) \subseteq Nat
           /\ Suffix(segs[1]) \in Nat
           /\ Len(segs) > 1 => /\ Border(segs[1], segs[2]) \subseteq Nat
                               /\ GivesUp(segs[1], segs[2]) \in Nat
<1> DEFINE b == segs[1]
           P == {p \in Len(b) - Len(Magic) .. Len(b) :
                    SubSeq(b, p + 1, Len(b)) = SubSeq(Magic, 1, Len(b) - p)}
<1>1. Len(segs) \in Nat /\ segs # <<>> /\ Len(b) >= Len(Magic) /\ Len(Magic) = 3
  BY BuffersAreSeqs, MagicParts DEF Searching
<1>2. 1 \in 1 .. Len(segs)
  BY <1>1, EmptySeq DEF Buffers
<1>3. b \in Seq(Int) /\ Len(b) \in Nat
  BY <1>2, BuffersAreSeqs
<1>4. Found(b) \subseteq Nat
  BY <1>1, <1>3 DEF Found
<1>5. P \subseteq Nat
  BY <1>1, <1>3
<1>6. Len(b) \in P
  <2>1. Len(b) \in Len(b) - Len(Magic) .. Len(b) /\ Len(b) - Len(b) = 0
    BY <1>1, <1>3
  <2>2. SubSeq(b, Len(b) + 1, Len(b)) = <<>> /\ SubSeq(Magic, 1, 0) = <<>>
    BY <1>3, SubSeqEmpty
  <2>3. SubSeq(b, Len(b) + 1, Len(b)) = SubSeq(Magic, 1, Len(b) - Len(b))
    BY <2>1, <2>2, Zenon
  <2>4. QED
    BY <2>1, <2>3, Zenon
<1>7. Suffix(b) = CHOOSE p \in P : \A r \in P : p <= r
  BY Zenon DEF Suffix
<1> HIDE DEF P
<1>8. Suffix(b) \in Nat
  <2>1. \E p \in P : \A r \in P : p <= r
    BY <1>5, <1>6, Smallest
  <2>2. Suffix(b) \in P
    BY <1>7, <2>1, Zenon
  <2>3. QED
    BY <1>5, <2>2
<1>9. ASSUME Len(segs) > 1
      PROVE  Border(b, segs[2]) \subseteq Nat /\ GivesUp(b, segs[2]) \in Nat
  <2>1. 2 \in 1 .. Len(segs)
    BY <1>1, <1>9
  <2>2. Len(segs[2]) \in Nat
    BY <2>1, BuffersAreSeqs
  <2> DEFINE c == segs[2]
  <2> HIDE DEF b, c
  <2>3. Border(b, c) \subseteq Nat
    <3>1. Len(b) - Len(Magic) .. Len(b) - 1 \subseteq Nat
      BY <1>1, <1>3
    <3>2. Border(b, c) \subseteq Len(b) - Len(Magic) .. Len(b) - 1
      BY Zenon DEF Border
    <3>3. QED
      BY <3>1, <3>2, Zenon
  <2>4. GivesUp(b, c) \in Nat
    <3>1. Len(c) \in Nat
      BY <2>2 DEF c
    <3>2. Len(b) - Len(Magic) + Len(c) + 1 \in Nat
      BY <1>1, <1>3, <3>1
    <3>3. QED
      BY <3>2, Zenon DEF GivesUp
  <2>5. QED
    BY <2>3, <2>4 DEF c
<1>10. QED
  BY <1>4, <1>8, <1>9

(* The four outcomes of searchBytes keep it. *)
LEMMA LooseResync ==
    ASSUME LooseInv, ResyncFound \/ ResyncLast \/ ResyncBorder \/ ResyncNextBuffer
    PROVE  LooseInv'
<1>1. TypeOK /\ Placed /\ HeaderIsMessage
  BY DEF LooseInv
<1>2. /\ script' = script /\ sound' = sound /\ connections' = connections /\ intact' = intact
      /\ delivered' = delivered /\ input' = input /\ running' = running
      /\ payloads' = payloads /\ allocFailures' = allocFailures /\ header' = header
      /\ Searching /\ state = "MS_RESYNC"
  BY DEF ResyncFound, ResyncLast, ResyncBorder, ResyncNextBuffer, peerVars, Searching
<1>3. state' \in {"MS_WAITING_HEADER", "MS_RESYNC"}
  BY <1>2 DEF ResyncFound, ResyncLast, ResyncBorder, ResyncNextBuffer
<1>4. /\ ~ (intact' /\ state' = "MS_WAITING_BODY")
      /\ segs \in Buffers /\ fault \in {"none", "bounds", "overflow"}
  BY <1>1, <1>3, TypeParts
<1>5. /\ Found(segs[1]) \subseteq Nat /\ Suffix(segs[1]) \in Nat
      /\ Len(segs) > 1 => /\ Border(segs[1], segs[2]) \subseteq Nat
                          /\ GivesUp(segs[1], segs[2]) \in Nat
  BY <1>2, <1>4, PlacesAreNat
<1>6. Moves
  <2>1. CASE ResyncFound
    <3>1. PICK p \in Found(segs[1]) :
              IF p = 0 THEN UNCHANGED <<streamVars, fault>> ELSE Skip(p)
      BY <2>1 DEF ResyncFound
    <3>2. CASE p = 0
      BY <1>1, <1>2, <1>4, <3>1, <3>2, StayMoves
    <3>3. CASE p # 0
      BY <1>1, <1>2, <1>4, <1>5, <3>1, <3>3, SkipMoves
    <3>4. QED
      BY <3>2, <3>3
  <2>2. CASE ResyncLast
    <3>1. Skip(Suffix(segs[1]))
      BY <2>2 DEF ResyncLast
    <3>2. QED
      BY <1>1, <1>2, <1>4, <1>5, <3>1, SkipMoves
  <2>3. CASE ResyncBorder
    <3>1. /\ Len(segs) > 1
          /\ \/ \E p \in Border(segs[1], segs[2]) : Skip(p)
             \/ Skip(GivesUp(segs[1], segs[2]))
      BY <2>3 DEF ResyncBorder
    <3>2. \E n \in Nat : Skip(n)
      BY <1>5, <3>1, Zenon
    <3>3. QED
      BY <1>1, <1>2, <1>4, <3>2, SkipMoves
  <2>4. CASE ResyncNextBuffer
    BY <1>1, <1>2, <2>4, NextBufferMoves
  <2>5. QED
    BY <2>1, <2>2, <2>3, <2>4
<1>7. HeaderIsMessage'
  BY <1>3 DEF HeaderIsMessage
<1>8. /\ state' \in {"MS_WAITING_HEADER", "MS_WAITING_BODY", "MS_RESYNC"}
      /\ header' \in 0 .. Len(script) /\ sound' \in BOOLEAN /\ running' \in BOOLEAN
      /\ allocFailures' \in 0 .. MaxAllocFailures /\ intact' \in BOOLEAN
  <2>1. state' \in {"MS_WAITING_HEADER", "MS_WAITING_BODY", "MS_RESYNC"}
    BY <1>3
  <2>2. QED
    BY <1>1, <1>2, <2>1, Zenon DEF TypeOK
<1>9. QED
  BY <1>2, <1>6, <1>7, <1>8, LooseStep

(* What a delivery is: a message of the peer behind all those delivered    *)
(* before; or, after a message was lost, one that nobody sent.             *)
LEMMA Delivery ==
    ASSUME LooseInv, OnWaitBody, delivered' # delivered
    PROVE  \E m \in 0 .. Len(script), y \in Seq(Int) :
              /\ m # 0 => \A i \in 1 .. Len(delivered) : delivered[i] < m
              /\ intact => m # 0 /\ y = FrameOf(script[m]).payload
              /\ delivered' = Append(delivered, m)
              /\ payloads' = Append(payloads, y)
              /\ state' = "MS_WAITING_HEADER" /\ fault' = fault
              /\ segs' \in Buffers /\ offset' \in Nat /\ size' \in Nat
              /\ Placed'
<1> DEFINE bytes == Peek(HeaderLength)
           m == MsgRead(bytes)
<1>1. TypeOK /\ Placed /\ HeaderIsMessage
  BY DEF LooseInv
<1>2. /\ script \in Scripts /\ segs \in Buffers /\ offset \in Nat /\ size \in Nat
      /\ input \in Seq(Int) /\ Len(script) \in Nat /\ delivered \in Seq(0 .. Len(script))
      /\ Len(delivered) \in Nat
  BY <1>1, TypeParts
<1>3. InBounds(HeaderLength)
  BY DEF OnWaitBody
<1>4. PICK n \in Reads(bytes) :
            /\ ~ (n > MsgLength(header)) /\ InBounds(n) /\ Take(n)
            /\ delivered' = Append(delivered, m)
            /\ payloads' = Append(payloads, Payload(n))
            /\ state' = "MS_WAITING_HEADER"
            /\ fault' = fault
  BY DEF OnWaitBody
<1>5. /\ state = "MS_WAITING_BODY" /\ size >= MsgLength(header)
      /\ script' = script /\ input' = input
  BY DEF OnWaitBody, peerVars
<1>6. header \in 1 .. Len(script) /\ MsgLength(header) \in Nat /\ MsgLength(header) >= 4
  <2>1. header \in 1 .. Len(script)
    BY <1>1, <1>5 DEF HeaderIsMessage
  <2>2. /\ Len(Text(script, header)) = 4 + Len(FrameOf(script[header]).payload)
        /\ Len(FrameOf(script[header]).payload) \in Nat
    BY <1>2, <2>1, TextParts
  <2>3. QED
    BY <2>1, <2>2 DEF MsgLength
<1>7. PICK junk \in Junk, q \in Nat : PlacedAt(junk, q)
  BY <1>1 DEF Placed
<1>8. /\ StreamAt(segs, input, junk \o Wire(script), q)
      /\ \A i \in 1 .. Len(delivered) :
            delivered[i] # 0 => Len(junk) + Start(script, delivered[i] - 1) < q + offset
      /\ intact => q + offset = Len(junk) + Start(script, header - 1)
  BY <1>5, <1>7, Zenon DEF PlacedAt
<1>9. n \in Nat /\ 4 <= n /\ n <= size
  <2>1. CASE IsValid(bytes)
    <3>1. PICK k \in 0 .. Len(script) - 1 : bytes[HeaderLength] = k + 1
      BY <1>2, <1>3, <1>8, <2>1, ValidHeader
    <3>2. n = Least(size, MsgLength(k + 1))
      BY <2>1, <3>1 DEF Reads
    <3>3. MsgLength(k + 1) \in Nat /\ MsgLength(k + 1) >= 4
      BY <1>2, StartStep DEF MsgLength
    <3>4. QED
      BY <1>2, <1>5, <1>6, <3>2, <3>3 DEF Least
  <2>2. CASE ~ IsValid(bytes)
    <3>1. n \in HeaderLength .. size
      BY <1>4, <2>2 DEF Reads
    <3>2. QED
      BY <1>2, <3>1, MagicParts
  <2>3. QED
    BY <2>1, <2>2
<1>10. /\ segs' \in Buffers /\ offset' \in Nat /\ Tidy(segs', offset') /\ size' = size - n
       /\ \E r \in Nat : StreamAt(segs', input, junk \o Wire(script), r)
                         /\ r + offset' = q + offset + n
  BY <1>2, <1>4, <1>8, <1>9, TakeMoves
<1>11. PICK r \in Nat : StreamAt(segs', input, junk \o Wire(script), r)
                         /\ r + offset' = q + offset + n
  BY <1>10
<1>12. size' \in Nat
  BY <1>2, <1>9, <1>10
<1>13. Payload(n) \in Seq(Int)
  <2>1. Peek(n) \in Seq(Int) /\ Len(Peek(n)) = n
    BY <1>2, <1>4, <1>8, <1>9, PeekIsSent
  <2>2. QED
    BY <1>9, <2>1, MagicParts DEF Payload
<1> HIDE DEF bytes, m
<1>14. ASSUME m \in 0 .. Len(script),
              m # 0 => Len(junk) + Start(script, m - 1) = q + offset
       PROVE  Placed'
  <2>1. StreamAt(segs', input', junk \o Wire(script'), r)
    BY <1>5, <1>11, Zenon
  <2>2. /\ Len(delivered') = Len(delivered) + 1 /\ delivered'[Len(delivered) + 1] = m
        /\ \A i \in 1 .. Len(delivered) : delivered'[i] = delivered[i]
    BY <1>2, <1>4, <1>14
  <2>3. q + offset < r + offset' /\ q + offset \in Nat /\ r + offset' \in Nat
    <3>1. offset \in Nat /\ offset' \in Nat /\ n \in Nat /\ 4 <= n
      BY <1>2, <1>9, <1>10, Zenon
    <3>2. r + offset' = q + offset + n
      BY <1>11
    <3> DEFINE o == offset'
    <3>3. o \in Nat
      BY <3>1
    <3> HIDE DEF o
    <3>4. q + offset < q + offset + n /\ q + offset \in Nat /\ r + o \in Nat
      BY <3>1, <3>3
    <3>5. QED
      BY <3>2, <3>4, Zenon DEF o
  <2>4. ASSUME NEW i \in 1 .. Len(delivered'), delivered'[i] # 0
        PROVE  Len(junk) + Start(script', delivered'[i] - 1) < r + offset'
    <3>1. CASE i \in 1 .. Len(delivered)
      <4> DEFINE x == Len(junk) + Start(script, delivered[i] - 1)
      <4>1. delivered[i] # 0 /\ delivered'[i] = delivered[i]
        BY <2>2, <2>4, <3>1
      <4>2. x < q + offset
        BY <1>8, <3>1, <4>1
      <4>3. x \in Nat
        <5>1. Start(script, delivered[i] - 1) \in Nat
          BY <1>1, <3>1, <4>1, DeliveredNumbers
        <5>2. Len(junk) \in Nat
          BY <1>2, AllParts
        <5>3. QED
          BY <5>1, <5>2
      <4> HIDE DEF x
      <4>4. x < r + offset'
        BY <2>3, <4>2, <4>3
      <4>5. QED
        BY <1>5, <4>1, <4>4, Zenon DEF x
    <3>2. CASE i = Len(delivered) + 1
      <4>1. delivered'[i] = m /\ m # 0
        BY <2>2, <2>4, <3>2
      <4>2. Len(junk) + Start(script, m - 1) = q + offset
        BY <1>14, <4>1
      <4>3. QED
        BY <1>5, <2>3, <4>1, <4>2, Zenon
    <3>3. i \in 1 .. Len(delivered) \/ i = Len(delivered) + 1
      BY <1>2, <2>2
    <3>4. QED
      BY <3>1, <3>2, <3>3
  <2>5. PlacedAt(junk, r)'
    <3>1. state' # "MS_WAITING_BODY"
      BY <1>4
    <3>2. QED
      BY <1>10, <2>1, <2>4, <3>1, Zenon DEF PlacedAt
  <2>6. QED
    BY <2>5 DEF Placed
<1>15. CASE IsValid(bytes)
  <2>1. PICK k \in 0 .. Len(script) - 1 :
              /\ q + offset = Len(junk) + Start(script, k)
              /\ bytes[HeaderLength] = k + 1
    BY <1>2, <1>3, <1>8, <1>15, ValidHeader DEF bytes
  <2>2. m = k + 1
    BY <1>15, <2>1 DEF m, MsgRead
  <2>3. m \in 0 .. Len(script) /\ m \in 1 .. Len(script) /\ m # 0 /\ m - 1 = k
    BY <1>2, <2>2
  <2>4. Placed'
    BY <1>14, <2>1, <2>3, Zenon
  <2>5. ASSUME NEW i \in 1 .. Len(delivered) PROVE delivered[i] < m
    <3> DEFINE l == delivered[i]
               c == Len(junk)
    <3>1. l \in 0 .. Len(script)
      BY <1>1, DeliveredNumbers
    <3>2. CASE l = 0
      BY <2>3, <3>2
    <3>3. CASE l # 0
      <4>1. /\ l - 1 \in 0 .. Len(script) /\ Start(script, l - 1) \in Nat
        BY <1>1, <3>3, DeliveredNumbers
      <4>2. c + Start(script, l - 1) < c + Start(script, k)
        BY <1>8, <2>1, <3>3
      <4>3. c \in Nat /\ Start(script, k) \in Nat /\ k \in 0 .. Len(script)
        BY <1>2, AllParts, StartIsSpan
      <4> HIDE DEF l, c
      <4>4. Start(script, l - 1) < Start(script, k)
        BY <4>1, <4>2, <4>3
      <4>5. ~ (k < l - 1)
        <5>1. ASSUME k < l - 1 PROVE FALSE
          <6>1. Start(script, k) < Start(script, l - 1)
            BY <1>2, <4>1, <4>3, <5>1, StartMonotone
          <6>2. QED
            BY <4>1, <4>3, <4>4, <6>1
        <5>2. QED
          BY <5>1
      <4>6. l - 1 # k
        BY <4>3, <4>4
      <4>7. l \in Int
        BY <3>1 DEF l
      <4>8. l < k + 1
        BY <4>1, <4>3, <4>5, <4>6, <4>7
      <4>9. QED
        BY <2>2, <4>8 DEF l
    <3>4. QED
      BY <3>2, <3>3
  <2>6. ASSUME intact PROVE Payload(n) = FrameOf(script[m]).payload
    <3>1. header = k + 1
      <4> DEFINE c == Len(junk)
                 h == header - 1
      <4>1. c + Start(script, h) = c + Start(script, k)
        BY <1>8, <2>1, <2>6
      <4>2. h \in 0 .. Len(script) /\ k \in 0 .. Len(script) /\ header = h + 1
        BY <1>2, <1>6
      <4>3. c \in Nat /\ Start(script, h) \in Nat /\ Start(script, k) \in Nat
        BY <1>2, <4>2, AllParts, StartIsSpan
      <4> HIDE DEF c, h
      <4>4. Start(script, h) = Start(script, k)
        BY <4>1, <4>3
      <4>5. ~ (h < k)
        BY <1>2, <4>2, <4>3, <4>4, StartMonotone
      <4>6. ~ (k < h)
        BY <1>2, <4>2, <4>3, <4>4, StartMonotone
      <4>7. QED
        BY <1>2, <4>2, <4>5, <4>6
    <3>2. n = MsgLength(k + 1)
      <4>1. n = Least(size, MsgLength(k + 1))
        BY <1>4, <1>15, <2>1 DEF Reads
      <4>2. QED
        BY <1>2, <1>5, <1>6, <3>1, <4>1 DEF Least
    <3>3. Payload(MsgLength(k + 1)) = FrameOf(script[k + 1]).payload
      BY <1>2, <1>4, <1>8, <2>1, <3>2, ValidPayload
    <3>4. QED
      BY <2>2, <3>2, <3>3, Zenon
  <2>7. QED
    BY <1>4, <1>10, <1>12, <1>13, <2>3, <2>4, <2>5, <2>6, Zenon
<1>16. CASE ~ IsValid(bytes)
  <2>1. m = 0 /\ m \in 0 .. Len(script)
    BY <1>2, <1>16 DEF m, MsgRead
  <2>2. Placed'
    BY <1>14, <2>1, Zenon
  <2>3. ~ intact
    <3>1. ASSUME intact PROVE FALSE
      <4>1. q + offset = Len(junk) + Start(script, header - 1)
        BY <1>8, <3>1
      <4>2. IsValid(bytes)
        BY <1>2, <1>3, <1>6, <1>8, <4>1, HeaderIsThere DEF bytes
      <4>3. QED
        BY <1>16, <4>2
    <3>2. QED
      BY <3>1
  <2>4. QED
    BY <1>4, <1>10, <1>12, <1>13, <2>1, <2>2, <2>3, Zenon
<1>17. QED
  BY <1>15, <1>16

(* OnWaitBody keeps it, with a delivery or a fault. *)
LEMMA LooseOnWaitBody ==
    ASSUME LooseInv, OnWaitBody
    PROVE  LooseInv'
<1>1. TypeOK /\ Placed /\ HeaderIsMessage /\ PayloadsAreSent
  BY DEF LooseInv
<1>2. /\ script' = script /\ sound' = sound /\ connections' = connections
      /\ input' = input /\ running' = running /\ allocFailures' = allocFailures
      /\ header' = header /\ intact' = intact
  BY DEF OnWaitBody, peerVars
<1>3. /\ script \in Scripts /\ Len(script) \in Nat /\ DOMAIN script = 1 .. Len(script)
      /\ header \in 0 .. Len(script) /\ delivered \in Seq(0 .. Len(script))
      /\ Len(delivered) \in Nat
      /\ fault \in {"none", "bounds", "overflow"}
  BY <1>1, TypeParts
<1>4. CASE delivered' # delivered
  <2>1. PICK m \in 0 .. Len(script), y \in Seq(Int) :
              /\ intact => m # 0 /\ y = FrameOf(script[m]).payload
              /\ delivered' = Append(delivered, m)
              /\ payloads' = Append(payloads, y)
              /\ state' = "MS_WAITING_HEADER" /\ fault' = fault
              /\ segs' \in Buffers /\ offset' \in Nat /\ size' \in Nat
              /\ Placed'
    BY <1>4, Delivery, Zenon
  <2> DEFINE d == Len(delivered)
  <2>2. /\ payloads \in Seq(Seq(Int)) /\ Len(payloads) = d
        /\ intact => \A i \in 1 .. d : /\ delivered[i] \in 1 .. Len(script)
                                      /\ payloads[i] = FrameOf(script[delivered[i]]).payload
    BY <1>1 DEF TypeOK, PayloadsAreSent
  <2>3. /\ payloads' \in Seq(Seq(Int)) /\ Len(payloads') = d + 1 /\ payloads'[d + 1] = y
        /\ \A i \in 1 .. d : payloads'[i] = payloads[i]
    BY <2>1, <2>2
  <2>4. /\ delivered' \in Seq(0 .. Len(script)) /\ Len(delivered') = d + 1
        /\ delivered'[d + 1] = m /\ \A i \in 1 .. d : delivered'[i] = delivered[i]
    BY <1>3, <2>1
  <2>5. PayloadsAreSent'
    <3>1. ASSUME intact', NEW i \in 1 .. d + 1
          PROVE  /\ delivered'[i] \in 1 .. Len(script')
                 /\ payloads'[i] = FrameOf(script'[delivered'[i]]).payload
      <4>1. CASE i \in 1 .. d
        BY <1>2, <2>2, <2>3, <2>4, <3>1, <4>1, Zenon
      <4>2. CASE i = d + 1
        <5>1. m \in 1 .. Len(script)
          BY <1>2, <1>3, <2>1, <3>1
        <5>2. QED
          BY <1>2, <2>1, <2>3, <2>4, <3>1, <4>2, <5>1, Zenon
      <4>3. i \in 1 .. d \/ i = d + 1
        BY <1>3
      <4>4. QED
        BY <4>1, <4>2, <4>3
    <3>2. QED
      BY <2>3, <2>4, <3>1, Zenon DEF PayloadsAreSent
  <2>6. TypeOK'
    <3>1. delivered' \in Seq(0 .. Len(script')) /\ Len(payloads') = Len(delivered')
      BY <1>2, <1>3, <2>3, <2>4, Zenon
    <3>2. /\ script' \in Scripts /\ sound' \in BOOLEAN /\ running' \in BOOLEAN
          /\ input' \in Seq(Int) /\ header' \in 0 .. Len(script') /\ intact' \in BOOLEAN
          /\ connections' \in 1 .. MaxConnections /\ allocFailures' \in 0 .. MaxAllocFailures
      BY <1>1, <1>2, Zenon DEF TypeOK
    <3>3. state' \in {"MS_WAITING_HEADER", "MS_WAITING_BODY", "MS_RESYNC"}
      BY <2>1
    <3>4. fault' \in {"none", "bounds", "overflow"}
      BY <1>3, <2>1
    <3>5. QED
      BY <2>1, <3>1, <3>2, <3>3, <3>4, Zenon DEF TypeOK, Buffers
  <2>7. HeaderIsMessage'
    BY <2>1 DEF HeaderIsMessage
  <2>8. QED
    BY <2>1, <2>5, <2>6, <2>7 DEF LooseInv
<1>5. CASE delivered' = delivered
  <2>1. ASSUME NEW m PROVE Append(delivered, m) # delivered
    <3>1. Len(Append(delivered, m)) = Len(delivered) + 1
      BY <1>3
    <3>2. QED
      BY <1>3, <3>1
  <2>2. /\ UNCHANGED <<streamVars, state, delivered, payloads>>
        /\ fault' \in {"none", "bounds", "overflow"}
    BY <1>5, <2>1 DEF OnWaitBody
  <2>3. Moves
    BY <1>1, <1>2, <2>2, StayMoves
  <2>4. HeaderIsMessage'
    BY <1>1, <1>2, <2>2, Zenon DEF HeaderIsMessage
  <2>5. /\ state' \in {"MS_WAITING_HEADER", "MS_WAITING_BODY", "MS_RESYNC"}
        /\ header' \in 0 .. Len(script) /\ sound' \in BOOLEAN /\ running' \in BOOLEAN
        /\ allocFailures' \in 0 .. MaxAllocFailures /\ intact' \in BOOLEAN
    BY <1>1, <1>2, <2>2, Zenon DEF TypeOK
  <2>6. QED
    BY <1>2, <2>2, <2>3, <2>4, <2>5, LooseStep
<1>6. QED
  BY <1>4, <1>5

(* Every step keeps it. *)
LEMMA LooseNext == LooseInv /\ [Next]_vars => LooseInv'
<1> SUFFICES ASSUME LooseInv, [Next]_vars PROVE LooseInv'
  OBVIOUS
<1>1. CASE UNCHANGED vars
  <2>1. /\ segs' = segs /\ offset' = offset /\ size' = size /\ input' = input /\ script' = script
        /\ sound' = sound /\ delivered' = delivered /\ state' = state /\ header' = header
        /\ fault' = fault /\ running' = running /\ payloads' = payloads
        /\ connections' = connections /\ allocFailures' = allocFailures /\ intact' = intact
    BY <1>1 DEF vars
  <2>2. QED
    BY <2>1, Zenon DEF LooseInv, TypeOK, HeaderIsMessage, PayloadsAreSent, Placed, PlacedAt
<1>2. CASE \E n \in 1 .. Len(input) : Arrive(n)
  BY <1>2, LooseArrive
<1>3. CASE Reconnect
  BY <1>3, LooseReconnect
<1>4. CASE LoopEnds \/ WaitForBody
  BY <1>4, LooseLoopEnds
<1>5. CASE OnWaitHeader
  BY <1>5, LooseOnWaitHeader
<1>6. CASE OnWaitBody
  BY <1>6, LooseOnWaitBody
<1>7. CASE AllocFails
  BY <1>7, LooseAllocFails
<1>8. CASE ResyncFound \/ ResyncLast \/ ResyncBorder \/ ResyncNextBuffer
  BY <1>8, LooseResync
<1>9. QED
  BY <1>1, <1>2, <1>3, <1>4, <1>5, <1>6, <1>7, <1>8 DEF Next, Iteration

(* What holds of assembly on every connection, sound or not: after lost    *)
(* allocations, with bytes in front of the first message, and with an      *)
(* offset left over from another connection.                               *)
THEOREM AssemblerLooseInv == Spec => []LooseInv
BY LooseAtInit, LooseNext, PTL DEF Spec

(* The variables of MsgAssembler and of its SegmentedInputStream keep      *)
(* their types; m_offset and m_size in particular do not wrap below 0.     *)
THEOREM AssemblerTypeOK == Spec => []TypeOK
<1>1. LooseInv => TypeOK
  BY DEF LooseInv
<1>2. QED
  BY <1>1, AssemblerLooseInv, PTL

(* The most messages on a connection. *)
Longest == Max({Len(s) : s \in Scripts})

(* No script is longer. *)
LEMMA LongestBounds ==
    ASSUME NEW s \in Scripts
    PROVE  Longest \in Nat /\ Len(s) <= Longest
<1> DEFINE S == {Len(t) : t \in Scripts}
           D == {MaxInteger - x : x \in S}
<1>1. \A x \in S : x \in Nat /\ x <= MaxInteger
  BY ScriptsAssumption, ScriptType
<1>2. MaxInteger \in Nat
  BY AssemblerAssumption
<1>3. Len(s) \in S
  OBVIOUS
<1> HIDE DEF S
<1>4. D \subseteq Nat /\ D # {}
  BY <1>1, <1>2, <1>3
<1>5. PICK e \in D : \A y \in D : e <= y
  BY <1>4, Smallest
<1>6. PICK x \in S : e = MaxInteger - x
  OBVIOUS
<1>7. ASSUME NEW y \in S PROVE x >= y
  <2>1. MaxInteger - x <= MaxInteger - y
    BY <1>5, <1>6
  <2>2. x \in Nat /\ y \in Nat
    BY <1>1
  <2>3. QED
    BY <1>2, <2>1, <2>2
<1>8. Max(S) \in S /\ \A y \in S : Max(S) >= y
  BY <1>7, Zenon DEF Max
<1>9. Longest = Max(S)
  BY Zenon DEF Longest, S
<1>10. QED
  <2>1. Longest \in S /\ Longest >= Len(s)
    BY <1>3, <1>8, <1>9, Zenon
  <2>2. QED
    BY <1>1, <1>3, <2>1

(* On a sound connection the next message is delivered. *)
LEMMA SoundDelivery ==
    ASSUME SoundInv', sound', NEW m \in 0 .. Len(script), delivered' = Append(delivered, m),
           TypeOK
    PROVE  m = Len(delivered) + 1
<1> DEFINE d == Len(delivered)
<1>1. delivered \in Seq(0 .. Len(script)) /\ d \in Nat
  BY TypeParts
<1>2. \A i \in 1 .. Len(delivered') : delivered'[i] = i
  BY DEF SoundInv, SoundDelivered
<1>3. Len(delivered') = d + 1 /\ delivered'[d + 1] = m
  BY <1>1
<1>4. d + 1 \in 1 .. Len(delivered')
  BY <1>1, <1>3
<1>5. QED
  BY <1>2, <1>3, <1>4, Zenon

(* Every step of the assembler is a step of the channel, or none. *)
LEMMA ChannelStep ==
    ASSUME LooseInv, SoundInv', [Next]_vars
    PROVE  [Channel!Next]_(Channel!vars)
<1>1. TypeOK
  BY DEF LooseInv
<1>2. CASE delivered' = delivered /\ sound' = sound /\ intact' = intact
  BY <1>2 DEF Channel!vars
<1>3. CASE Reconnect
  <2>1. delivered' = <<>> /\ sound' \in BOOLEAN /\ intact' = TRUE
    BY <1>3 DEF Reconnect
  <2>2. Channel!Connect
    BY <2>1 DEF Channel!Connect
  <2>3. QED
    BY <2>2 DEF Channel!Next
<1>4. CASE AllocFails
  <2>1. delivered' = delivered /\ sound' = FALSE /\ intact' = FALSE
    BY <1>4 DEF AllocFails
  <2>2. Channel!Lose
    BY <2>1 DEF Channel!Lose
  <2>3. QED
    BY <2>2 DEF Channel!Next
<1>5. CASE OnWaitBody /\ delivered' # delivered
  <2>1. PICK m \in 0 .. Len(script) :
              /\ m # 0 => \A i \in 1 .. Len(delivered) : delivered[i] < m
              /\ intact => m # 0
              /\ delivered' = Append(delivered, m)
    BY <1>5, Delivery, Zenon
  <2>2. sound' = sound /\ intact' = intact
    BY <1>5 DEF OnWaitBody, peerVars
  <2>3. /\ script \in Scripts /\ Len(script) \in Nat /\ Len(delivered) \in Nat
        /\ delivered \in Seq(0 .. Len(script))
    BY <1>1, TypeParts
  <2>4. CASE m = 0
    <3>1. Channel!Garble
      BY <2>1, <2>2, <2>4 DEF Channel!Garble
    <3>2. QED
      BY <3>1 DEF Channel!Next
  <2>5. CASE m # 0
    <3>1. Longest \in Nat /\ Len(script) <= Longest
      BY <2>3, LongestBounds
    <3>2. m \in 1 .. Longest
      BY <2>3, <2>5, <3>1
    <3>3. sound => m = Len(delivered) + 1
      BY <1>1, <2>1, <2>2, SoundDelivery
    <3>4. \A i \in DOMAIN delivered : delivered[i] < m
      BY <2>1, <2>3, <2>5
    <3>5. Channel!Deliver
      BY <2>1, <2>2, <3>2, <3>3, <3>4, Zenon DEF Channel!Deliver, Longest
    <3>6. QED
      BY <3>5 DEF Channel!Next
  <2>6. QED
    BY <2>4, <2>5
<1>6. CASE /\ ~ Reconnect /\ ~ AllocFails
           /\ ~ (OnWaitBody /\ delivered' # delivered)
  <2>1. CASE UNCHANGED vars
    BY <1>2, <2>1 DEF vars
  <2>2. CASE \E n \in 1 .. Len(input) : Arrive(n)
    BY <1>2, <2>2 DEF Arrive, peerVars
  <2>3. CASE LoopEnds \/ WaitForBody \/ OnWaitHeader \/ OnWaitBody
    BY <1>2, <1>6, <2>3 DEF LoopEnds, WaitForBody, OnWaitHeader, OnWaitBody, peerVars
  <2>4. CASE ResyncFound \/ ResyncLast \/ ResyncBorder \/ ResyncNextBuffer
    BY <1>2, <2>4 DEF ResyncFound, ResyncLast, ResyncBorder, ResyncNextBuffer, peerVars
  <2>5. QED
    BY <1>6, <2>1, <2>2, <2>3, <2>4 DEF Next, Iteration
<1>7. QED
  BY <1>3, <1>4, <1>5, <1>6

(* The assembler implements the channel: on every connection the messages  *)
(* of the peer reach the listener in the order they were sent and at most  *)
(* once, none is left out while the connection is sound, and what nobody   *)
(* sent reaches it only after allocMsg has failed.                         *)
THEOREM AssemblerImplementsChannel == Spec => ImplementsChannel
<1>1. Init => Channel!Init
  BY DEF Init, Channel!Init
<1>2. LooseInv /\ SoundInv' /\ [Next]_vars => [Channel!Next]_(Channel!vars)
  BY ChannelStep
<1>3. QED
  BY <1>1, <1>2, AssemblerLooseInv, AssemblerSoundInv, PTL
     DEF Spec, ImplementsChannel, Channel!Spec

(* A delivered frame is the frame that was sent. *)
LEMMA ReceivedIsSent ==
    ASSUME TypeOK, PayloadsAreSent, intact, NEW i \in DOMAIN delivered
    PROVE  /\ delivered[i] \in DOMAIN script
           /\ script[delivered[i]] \in App
           /\ ~ script[delivered[i]].batch => Len(script[delivered[i]].buffers) = 1
           /\ Received(i) = FrameOf(script[delivered[i]])
<1> DEFINE app == script[delivered[i]]
           frame == FrameOf(app)
<1>1. /\ script \in Scripts /\ delivered \in Seq(0 .. Len(script))
      /\ DOMAIN script = 1 .. Len(script)
  BY TypeParts
<1>2. i \in 1 .. Len(delivered) /\ delivered[i] \in 1 .. Len(script)
  <2>1. i \in 1 .. Len(delivered)
    BY <1>1
  <2>2. QED
    BY <2>1 DEF PayloadsAreSent
<1>3. app \in App /\ (~ app.batch => Len(app.buffers) = 1)
  BY <1>1, <1>2, ScriptType
<1>4. payloads[i] = frame.payload
  BY <1>2 DEF PayloadsAreSent
<1>5. frame = Frame(app.batch, app.compressed, Len(app.buffers), Plain(app))
  BY <1>3, FrameParts
<1>6. Received(i) = [frame EXCEPT !.payload = frame.payload]
  BY <1>4, Zenon DEF Received
<1> HIDE DEF app, frame
<1>7. [frame EXCEPT !.payload = frame.payload] = frame
  BY <1>5 DEF Frame
<1>8. QED
  BY <1>1, <1>2, <1>3, <1>6, <1>7, Zenon DEF app, frame

(* Whatever reaches the listener on a connection that lost no message by   *)
(* allocMsg is read back by MsgFrameReader as MsgFrameWriter was given it. *)
THEOREM AssemblerFramesAreRead == Spec => []FramesAreRead
<1>1. LooseInv => FramesAreRead
  <2> SUFFICES ASSUME LooseInv, intact, NEW i \in DOMAIN delivered,
                      NEW refused \in 0 .. Len(script[delivered[i]].buffers)
               PROVE  ReadsBack(script[delivered[i]], Received(i), refused)
    <3>1. LooseInv /\ intact => \A i \in DOMAIN delivered : delivered[i] \in DOMAIN script
      BY ReceivedIsSent DEF LooseInv
    <3>2. QED
      BY <3>1, Zenon DEF FramesAreRead
  <2>1. /\ delivered[i] \in DOMAIN script
        /\ script[delivered[i]] \in App
        /\ ~ script[delivered[i]].batch => Len(script[delivered[i]].buffers) = 1
        /\ Received(i) = FrameOf(script[delivered[i]])
    BY ReceivedIsSent DEF LooseInv
  <2>2. ReadsBack(script[delivered[i]], FrameOf(script[delivered[i]]), refused)
    BY <2>1, FrameIsReadBack
  <2>3. QED
    BY <2>1, <2>2, Zenon
<1>2. QED
  BY <1>1, AssemblerLooseInv, PTL

===============================================================================
