----------------------------- MODULE MsgFrame_proofs -----------------------------
(***************************************************************************)
(* Proofs about message frames: the payload that MsgFrameWriter puts       *)
(* together for a batch, and that MsgFrameReader gets the same buffers out *)
(* of it.                                                                  *)
(*                                                                         *)
(* FlattenSeq and the loop of the reader are recursive functions. What     *)
(* they compute is proved by Climb, an induction over a set of numbers:    *)
(* the function is shown to exist and to be determined, step by step. The  *)
(* lemmas about FlattenSeq and Span are also what MsgAssembler_proofs      *)
(* needs for the list of buffers of a stream.                              *)
(***************************************************************************)
EXTENDS MsgFrame, SequenceTheorems, FiniteSetTheorems, NaturalsInduction, TLAPS

(* A set of natural numbers that is not empty has a smallest element. *)
LEMMA Smallest ==
    ASSUME NEW S, S \subseteq Nat, S # {}
    PROVE  \E x \in S : \A y \in S : x <= y
<1>1. PICK x \in S : \A y \in S : ~ (<<y, x>> \in OpToRel(<, Nat))
  BY NatLessThanWellFounded, WFMin, Zenon
<1>2. \A y \in S : ~ (y < x)
  BY <1>1 DEF OpToRel
<1>3. QED
  BY <1>2

(* Induction from 0 up to n, over a set in place of a predicate: what 0    *)
(* has, and what every step upward keeps, all of 0 .. n has.               *)
LEMMA Climb ==
    ASSUME NEW G, NEW n \in Nat, 0 \in G, \A i \in 0 .. n - 1 : i \in G => i + 1 \in G
    PROVE  \A i \in 0 .. n : i \in G
<1> DEFINE Bad == {i \in 0 .. n : i \notin G}
<1>1. SUFFICES ASSUME Bad # {} PROVE FALSE
  OBVIOUS
<1>2. Bad \subseteq Nat
  OBVIOUS
<1>3. PICK b \in Bad : \A y \in Bad : b <= y
  BY <1>1, <1>2, Smallest
<1>4. b - 1 \in 0 .. n - 1 /\ b - 1 \notin Bad /\ (b - 1) + 1 = b
  BY <1>3
<1>5. QED
  BY <1>4

(* A function that gives, for each i up to n, the first i elements of s    *)
(* put together.                                                           *)
IsFlat(f, s, n) ==
    /\ f \in [0 .. n -> Seq(Int)]
    /\ f[0] = <<>>
    /\ \A i \in 0 .. n - 1 : f[i + 1] = f[i] \o s[i + 1]

(* Such a function at one step, with the types. *)
LEMMA FlatStep ==
    ASSUME NEW s \in Seq(Seq(Int)), NEW n \in 0 .. Len(s), NEW f, IsFlat(f, s, n),
           NEW i \in 0 .. n - 1
    PROVE  /\ f[i + 1] = f[i] \o s[i + 1]
           /\ f[i] \in Seq(Int) /\ f[i + 1] \in Seq(Int) /\ s[i + 1] \in Seq(Int)
<1>1. i \in 0 .. n /\ i + 1 \in 0 .. n /\ i + 1 \in 1 .. Len(s)
  OBVIOUS
<1>2. s[i + 1] \in Seq(Int)
  BY <1>1, ElementOfSeq
<1>3. QED
  BY <1>1, <1>2 DEF IsFlat

(* Such a function exists for every sequence of sequences. *)
LEMMA FlatExists ==
    ASSUME NEW s \in Seq(Seq(Int)), NEW n \in 0 .. Len(s)
    PROVE  \E f : IsFlat(f, s, n)
<1> DEFINE G == {k \in 0 .. n : \E f : IsFlat(f, s, k)}
<1>1. 0 \in G
  <2> DEFINE f == [i \in 0 .. 0 |-> <<>>]
  <2>1. IsFlat(f, s, 0)
    BY DEF IsFlat
  <2>2. QED
    BY <2>1
<1>2. ASSUME NEW k \in 0 .. n - 1, k \in G PROVE k + 1 \in G
  <2>1. PICK f : IsFlat(f, s, k)
    BY <1>2
  <2>2. k \in 0 .. k /\ k + 1 \in 1 .. Len(s) /\ k + 1 \in 0 .. n
    OBVIOUS
  <2> DEFINE e == f[k] \o s[k + 1]
  <2>3. e \in Seq(Int)
    <3>1. f[k] \in Seq(Int) /\ s[k + 1] \in Seq(Int)
      BY <2>1, <2>2, ElementOfSeq DEF IsFlat
    <3>2. QED
      BY <3>1, ConcatProperties
  <2> HIDE DEF e
  <2> DEFINE g == [i \in 0 .. k + 1 |-> IF i = k + 1 THEN e ELSE f[i]]
  <2>4. IsFlat(g, s, k + 1)
    <3>1. g \in [0 .. k + 1 -> Seq(Int)] /\ g[0] = <<>>
      BY <2>1, <2>3 DEF IsFlat
    <3>2. ASSUME NEW i \in 0 .. k PROVE g[i + 1] = g[i] \o s[i + 1]
      <4>1. g[i] = f[i]
        OBVIOUS
      <4>2. CASE i = k
        <5>1. g[k + 1] = e
          OBVIOUS
        <5>2. QED
          BY <4>1, <4>2, <5>1, Zenon DEF e
      <4>3. CASE i # k
        <5>1. i \in 0 .. k - 1 /\ g[i + 1] = f[i + 1]
          BY <4>3
        <5>2. f[i + 1] = f[i] \o s[i + 1]
          BY <2>1, <5>1 DEF IsFlat
        <5>3. QED
          BY <4>1, <5>1, <5>2, Zenon
      <4>4. QED
        BY <4>2, <4>3
    <3>3. (k + 1) - 1 = k
      OBVIOUS
    <3>4. QED
      BY <3>1, <3>2, <3>3, Zenon DEF IsFlat
  <2>5. QED
    BY <2>2, <2>4
<1>3. \A k \in 0 .. n : k \in G
  <2> HIDE DEF G
  <2>1. n \in Nat
    OBVIOUS
  <2>2. QED
    BY <1>1, <1>2, <2>1, Climb
<1>4. QED
  BY <1>3

(* FlattenSeq of the library, whose definition is recursive, is its last   *)
(* value.                                                                  *)
LEMMA FlattenIsFlat ==
    ASSUME NEW s \in Seq(Seq(Int)), NEW f, IsFlat(f, s, Len(s))
    PROVE  FlattenSeq(s) = f[Len(s)] /\ FlattenSeq(s) \in Seq(Int)
<1>0. Len(s) \in Nat /\ f[Len(s)] \in Seq(Int) /\ f[0] = <<>>
  BY DEF IsFlat
<1>1. CASE Len(s) = 0
  BY <1>0, <1>1 DEF FlattenSeq
<1>2. CASE Len(s) # 0
  <2> DEFINE N == Len(s)
             R(g) == [i \in 1 .. N |-> IF i = 1 THEN s[i] ELSE g[i - 1] \o s[i]]
             c == CHOOSE g : g = R(g)
             h == [i \in 1 .. N |-> f[i]]
  <2>0. /\ N \in Nat /\ N >= 1 /\ 1 \in 1 .. N /\ 0 \in 0 .. N - 1 /\ 0 + 1 = 1
        /\ N \in 0 .. Len(s)
    BY <1>0, <1>2
  <2>1. FlattenSeq(s) = c[N]
    BY <1>2 DEF FlattenSeq
  <2>2. f[1] = s[1]
    <3>1. f[0 + 1] = f[0] \o s[0 + 1] /\ s[0 + 1] \in Seq(Int)
      <4> HIDE DEF c, R, h
      <4>1. QED
        BY <2>0, FlatStep
    <3>2. f[1] = <<>> \o s[1] /\ s[1] \in Seq(Int)
      BY <1>0, <2>0, <3>1, Zenon
    <3>3. QED
      BY <3>2, ConcatEmptySeq
  <2>3. h = R(h)
    <3>1. ASSUME NEW i \in 1 .. N PROVE h[i] = R(h)[i]
      <4>1. CASE i = 1
        BY <2>2, <4>1
      <4>2. CASE i # 1
        <5>1. i - 1 \in 0 .. N - 1 /\ (i - 1) + 1 = i /\ i - 1 \in 1 .. N
          BY <4>2, <1>0
        <5>2. f[(i - 1) + 1] = f[i - 1] \o s[(i - 1) + 1]
          <6> HIDE DEF c, R, h
          <6>1. QED
            BY <5>1, <2>0, FlatStep
        <5>3. h[i] = f[i] /\ h[i - 1] = f[i - 1]
          BY <5>1
        <5>4. R(h)[i] = h[i - 1] \o s[i]
          <6> HIDE DEF h
          <6>1. QED
            BY <4>2
        <5>5. QED
          BY <5>1, <5>2, <5>3, <5>4, Zenon
      <4>3. QED
        BY <4>1, <4>2
    <3>2. h = [i \in 1 .. N |-> h[i]]
      OBVIOUS
    <3>3. R(h) = [i \in 1 .. N |-> R(h)[i]]
      <4> HIDE DEF h
      <4>1. QED
        OBVIOUS
    <3>4. QED
      <4> HIDE DEF h, R
      <4>1. QED
        BY <3>1, <3>2, <3>3
  <2>4. c = R(c)
    <3> HIDE DEF R, h
    <3>1. QED
      BY <2>3
  <2>5. \A i \in 1 .. N : c[i] = IF i = 1 THEN s[i] ELSE c[i - 1] \o s[i]
    <3>1. \A i \in 1 .. N : R(c)[i] = IF i = 1 THEN s[i] ELSE c[i - 1] \o s[i]
      <4> HIDE DEF c
      <4>1. QED
        OBVIOUS
    <3>2. QED
      <4> HIDE DEF c, R
      <4>1. QED
        BY <2>4, <3>1
  <2> HIDE DEF c, R, h
  <2> DEFINE G == {i \in 0 .. N - 1 : c[i + 1] = f[i + 1]}
  <2>6. 0 \in G
    BY <2>0, <2>2, <2>5
  <2>7. ASSUME NEW i \in 0 .. N - 2, i \in G PROVE i + 1 \in G
    <3>1. i + 1 \in 0 .. N - 1 /\ (i + 1) + 1 \in 1 .. N /\ ((i + 1) + 1) - 1 = i + 1
          /\ (i + 1) + 1 # 1
      BY <2>0
    <3>2. c[(i + 1) + 1] = c[i + 1] \o s[(i + 1) + 1]
      BY <2>5, <3>1
    <3>3. f[(i + 1) + 1] = f[i + 1] \o s[(i + 1) + 1]
      BY <2>0, <3>1, FlatStep
    <3>4. c[i + 1] = f[i + 1]
      BY <2>7
    <3>5. c[(i + 1) + 1] = f[(i + 1) + 1]
      BY <3>2, <3>3, <3>4, Zenon
    <3>6. QED
      BY <3>1, <3>5
  <2>8. N - 1 \in Nat /\ N - 2 = (N - 1) - 1 /\ N - 1 \in 0 .. N - 1 /\ (N - 1) + 1 = N
    BY <2>0
  <2>9. \A i \in 0 .. N - 1 : i \in G
    <3> HIDE DEF G
    <3>1. QED
      BY <2>6, <2>7, <2>8, Climb
  <2>10. c[N] = f[N]
    BY <2>8, <2>9
  <2>11. QED
    BY <1>0, <2>1, <2>10, Zenon
<1>3. QED
  BY <1>1, <1>2

(* And FlattenSeq of a beginning of s is its value there. *)
LEMMA FlattenPrefix ==
    ASSUME NEW s \in Seq(Seq(Int)), NEW f, IsFlat(f, s, Len(s)), NEW j \in 0 .. Len(s)
    PROVE  FlattenSeq(SubSeq(s, 1, j)) = f[j]
<1> DEFINE t == SubSeq(s, 1, j)
           g == [i \in 0 .. j |-> f[i]]
<1>1. t \in Seq(Seq(Int)) /\ Len(t) = j /\ \A i \in 1 .. j : t[i] = s[i]
  OBVIOUS
<1> HIDE DEF t
<1>2. g \in [0 .. j -> Seq(Int)] /\ g[0] = <<>> /\ \A i \in 0 .. j : g[i] = f[i]
  <2>1. \A i \in 0 .. j : g[i] = f[i]
    OBVIOUS
  <2>2. ASSUME NEW i \in 0 .. j PROVE f[i] \in Seq(Int)
    <3>1. f \in [0 .. Len(s) -> Seq(Int)] /\ i \in 0 .. Len(s)
      BY DEF IsFlat
    <3>2. QED
      BY <3>1
  <2>3. f[0] = <<>> /\ 0 \in 0 .. j
    BY DEF IsFlat
  <2>4. QED
    BY <2>1, <2>2, <2>3
<1>3. ASSUME NEW i \in 0 .. j - 1 PROVE g[i + 1] = g[i] \o t[i + 1]
  <2>1. /\ i \in 0 .. Len(s) - 1 /\ Len(s) \in 0 .. Len(s) /\ i \in 0 .. j
        /\ i + 1 \in 0 .. j /\ i + 1 \in 1 .. j
    OBVIOUS
  <2>2. f[i + 1] = f[i] \o s[i + 1]
    BY <2>1, FlatStep
  <2>3. g[i + 1] = f[i + 1] /\ g[i] = f[i] /\ t[i + 1] = s[i + 1]
    BY <1>1, <2>1
  <2>4. QED
    BY <2>2, <2>3, Zenon
<1> HIDE DEF g
<1>4. IsFlat(g, t, Len(t))
  BY <1>1, <1>2, <1>3, Zenon DEF IsFlat
<1>5. FlattenSeq(t) = g[Len(t)]
  BY <1>1, <1>4, FlattenIsFlat
<1>6. j \in 0 .. j
  OBVIOUS
<1>7. QED
  BY <1>1, <1>2, <1>5, <1>6 DEF t

(* FlattenSeq of buffers is a sequence of numbers. *)
LEMMA FlattenType ==
    ASSUME NEW s \in Seq(Seq(Int))
    PROVE  FlattenSeq(s) \in Seq(Int)
<1>1. PICK f : IsFlat(f, s, Len(s))
  BY FlatExists
<1>2. QED
  BY <1>1, FlattenIsFlat

(* Nothing flattened is nothing. *)
LEMMA FlattenEmpty == FlattenSeq(<<>>) = <<>>
BY DEF FlattenSeq

(* A buffer at the end of the list comes to stand at the end of the bytes  *)
(* (appendBuffer).                                                         *)
LEMMA FlattenAppend ==
    ASSUME NEW s \in Seq(Seq(Int)), NEW e \in Seq(Int)
    PROVE  FlattenSeq(Append(s, e)) = FlattenSeq(s) \o e
<1> DEFINE N == Len(s)
           t == Append(s, e)
<1>1. /\ t \in Seq(Seq(Int)) /\ Len(t) = N + 1 /\ t[N + 1] = e
      /\ \A i \in 1 .. N : t[i] = s[i]
  OBVIOUS
<1> HIDE DEF t
<1>2. PICK g : IsFlat(g, t, N + 1)
  BY <1>1, FlatExists
<1>3. SubSeq(t, 1, N) = s
  <2>1. SubSeq(t, 1, N) \in Seq(Seq(Int)) /\ Len(SubSeq(t, 1, N)) = N
    BY <1>1
  <2>2. \A i \in 1 .. N : SubSeq(t, 1, N)[i] = s[i]
    BY <1>1
  <2>3. QED
    BY <2>1, <2>2, SeqEqual
<1>4. N \in 0 .. (N + 1) - 1 /\ N \in 0 .. Len(t) /\ N + 1 \in 0 .. Len(t)
  BY <1>1
<1>5. g[N + 1] = g[N] \o t[N + 1]
  BY <1>1, <1>2, <1>4, FlatStep
<1>6. FlattenSeq(t) = g[N + 1]
  BY <1>1, <1>2, FlattenIsFlat
<1>7. FlattenSeq(s) = g[N]
  BY <1>1, <1>2, <1>3, <1>4, FlattenPrefix
<1>9. FlattenSeq(t) = FlattenSeq(s) \o e
  BY <1>1, <1>5, <1>6, <1>7, Zenon
<1>10. QED
  BY <1>9 DEF t

(* Concatenation of sequences of numbers is associative. *)
LEMMA Associative ==
    ASSUME NEW a \in Seq(Int), NEW b \in Seq(Int), NEW c \in Seq(Int)
    PROVE  (a \o b) \o c = a \o (b \o c)
BY ConcatAssociative

(* The bytes of a list are those of its first j elements and those of the  *)
(* others.                                                                 *)
LEMMA FlattenSplit ==
    ASSUME NEW s \in Seq(Seq(Int)), NEW j \in 0 .. Len(s)
    PROVE  FlattenSeq(s) =
             FlattenSeq(SubSeq(s, 1, j)) \o FlattenSeq(SubSeq(s, j + 1, Len(s)))
<1> DEFINE N == Len(s)
           t == SubSeq(s, j + 1, N)
<1>1. /\ t \in Seq(Seq(Int)) /\ Len(t) = N - j /\ N - j \in Nat /\ j \in Nat
      /\ \A i \in 1 .. N - j : t[i] = s[j + i]
      /\ N \in 0 .. N
  <2>1. N \in Nat /\ j \in Nat /\ N - j \in Nat
    OBVIOUS
  <2>2. \A i \in j + 1 .. N : s[i] \in Seq(Int)
    BY <2>1, ElementOfSeq
  <2>3. /\ t \in Seq(Seq(Int))
        /\ Len(t) = IF j + 1 <= N THEN N - (j + 1) + 1 ELSE 0
        /\ \A i \in 1 .. N - (j + 1) + 1 : t[i] = s[j + 1 + i - 1]
    <3> HIDE DEF N
    <3>1. j + 1 \in Int /\ N \in Int
      BY <2>1
    <3>2. QED
      BY <3>1, <2>2, SubSeqProperties
  <2> HIDE DEF N, t
  <2>4. QED
    BY <2>1, <2>3
<1> HIDE DEF t
<1>2. PICK f : IsFlat(f, s, N)
  BY FlatExists
<1>3. PICK g : IsFlat(g, t, Len(t))
  <2>1. Len(t) \in 0 .. Len(t)
    BY <1>1
  <2>2. QED
    BY <1>1, <2>1, FlatExists
<1>4. f[j] \in Seq(Int) /\ g[0] = <<>>
  BY <1>2, <1>3 DEF IsFlat
<1> DEFINE G == {i \in 0 .. N - j : f[j + i] = f[j] \o g[i]}
<1>5. 0 \in G
  <2>1. f[j] \o g[0] = f[j]
    BY <1>4, ConcatEmptySeq
  <2>2. 0 \in 0 .. N - j /\ j + 0 = j
    BY <1>1
  <2>3. QED
    BY <2>1, <2>2
<1>6. ASSUME NEW i \in 0 .. (N - j) - 1, i \in G PROVE i + 1 \in G
  <2>1. /\ i + 1 \in 0 .. N - j /\ i + 1 \in 1 .. N - j /\ j + i \in 0 .. N - 1
        /\ (j + i) + 1 = j + (i + 1) /\ i \in 0 .. Len(t) - 1
    BY <1>1
  <2>2. f[(j + i) + 1] = f[j + i] \o s[(j + i) + 1] /\ s[(j + i) + 1] \in Seq(Int)
    <3> HIDE DEF G
    <3>1. QED
      BY <1>1, <1>2, <2>1, FlatStep
  <2>3. g[i + 1] = g[i] \o t[i + 1] /\ g[i] \in Seq(Int)
    <3> HIDE DEF G, N
    <3>1. Len(t) \in 0 .. Len(t)
      BY <1>1
    <3>2. QED
      BY <1>1, <1>3, <2>1, <3>1, FlatStep
  <2>4. t[i + 1] = s[j + (i + 1)]
    BY <1>1, <2>1
  <2>5. f[j + i] = f[j] \o g[i]
    BY <1>6
  <2>6. (f[j] \o g[i]) \o s[(j + i) + 1] = f[j] \o (g[i] \o s[(j + i) + 1])
    <3> HIDE DEF N, G
    <3>1. QED
      BY <1>4, <2>2, <2>3, Associative
  <2>7. f[j + (i + 1)] = f[j] \o g[i + 1]
    BY <2>1, <2>2, <2>3, <2>4, <2>5, <2>6, Zenon
  <2>8. QED
    BY <2>1, <2>7
<1>7. \A i \in 0 .. N - j : i \in G
  <2> HIDE DEF G
  <2>1. QED
    BY <1>1, <1>5, <1>6, Climb
<1>8. f[N] = f[j] \o g[N - j]
  <2>1. N - j \in 0 .. N - j /\ j + (N - j) = N
    BY <1>1
  <2>2. QED
    BY <1>7, <2>1
<1>9. FlattenSeq(s) = f[N] /\ FlattenSeq(SubSeq(s, 1, j)) = f[j] /\ FlattenSeq(t) = g[N - j]
  BY <1>1, <1>2, <1>3, FlattenIsFlat, FlattenPrefix
<1>10. QED
  BY <1>8, <1>9 DEF t

(* How many numbers the first j elements of s hold. *)
Span(s, j) == Len(FlattenSeq(SubSeq(s, 1, j)))

(* One more element puts its numbers at the end. *)
LEMMA FlattenSnoc ==
    ASSUME NEW s \in Seq(Seq(Int)), NEW j \in 0 .. Len(s) - 1
    PROVE  FlattenSeq(SubSeq(s, 1, j + 1)) = FlattenSeq(SubSeq(s, 1, j)) \o s[j + 1]
<1>1. Len(s) \in 0 .. Len(s) /\ j \in 0 .. Len(s) /\ j + 1 \in 0 .. Len(s)
  OBVIOUS
<1>2. PICK f : IsFlat(f, s, Len(s))
  BY <1>1, FlatExists
<1>3. f[j + 1] = f[j] \o s[j + 1]
  BY <1>1, <1>2, FlatStep
<1>4. FlattenSeq(SubSeq(s, 1, j)) = f[j] /\ FlattenSeq(SubSeq(s, 1, j + 1)) = f[j + 1]
  BY <1>1, <1>2, FlattenPrefix
<1>5. QED
  BY <1>3, <1>4, Zenon

(* The types of a beginning of a list and of its flattening. *)
LEMMA PrefixType ==
    ASSUME NEW s \in Seq(Seq(Int)), NEW j \in 0 .. Len(s)
    PROVE  /\ SubSeq(s, 1, j) \in Seq(Seq(Int))
           /\ FlattenSeq(SubSeq(s, 1, j)) \in Seq(Int)
           /\ Span(s, j) \in Nat
<1>1. SubSeq(s, 1, j) \in Seq(Seq(Int))
  OBVIOUS
<1>2. FlattenSeq(SubSeq(s, 1, j)) \in Seq(Int)
  BY <1>1, FlattenType
<1>3. QED
  BY <1>1, <1>2 DEF Span

(* One more element adds its length. *)
LEMMA SpanStep ==
    ASSUME NEW s \in Seq(Seq(Int)), NEW j \in 0 .. Len(s) - 1
    PROVE  Span(s, j + 1) = Span(s, j) + Len(s[j + 1]) /\ Len(s[j + 1]) \in Nat
<1>1. j \in 0 .. Len(s) /\ j + 1 \in 1 .. Len(s)
  OBVIOUS
<1>2. s[j + 1] \in Seq(Int)
  BY <1>1, ElementOfSeq
<1>3. FlattenSeq(SubSeq(s, 1, j)) \in Seq(Int)
  BY <1>1, PrefixType
<1>4. Len(FlattenSeq(SubSeq(s, 1, j)) \o s[j + 1]) = Span(s, j) + Len(s[j + 1])
  BY <1>2, <1>3, ConcatProperties DEF Span
<1>5. QED
  <2>1. Span(s, j + 1) = Len(FlattenSeq(SubSeq(s, 1, j)) \o s[j + 1])
    BY FlattenSnoc DEF Span
  <2>2. Len(s[j + 1]) \in Nat
    BY <1>2
  <2>3. QED
    BY <1>4, <2>1, <2>2, Zenon

(* Nothing holds nothing, and the whole list holds all. *)
LEMMA SpanEnds ==
    ASSUME NEW s \in Seq(Seq(Int))
    PROVE  Span(s, 0) = 0 /\ Span(s, Len(s)) = Len(FlattenSeq(s))
<1>1. SubSeq(s, 1, 0) = <<>> /\ SubSeq(s, 1, Len(s)) = s
  BY SubSeqFull, SubSeqEmpty
<1>2. Len(<<>>) = 0
  OBVIOUS
<1>3. QED
  BY <1>1, <1>2, FlattenEmpty, Zenon DEF Span

(* More elements do not hold less. *)
LEMMA SpanMonotone ==
    ASSUME NEW s \in Seq(Seq(Int)), NEW i \in 0 .. Len(s), NEW j \in 0 .. Len(s), i <= j
    PROVE  Span(s, i) <= Span(s, j)
<1> DEFINE G == {k \in 0 .. j - i : Span(s, i) <= Span(s, i + k)}
<1>1. j - i \in Nat /\ i \in Nat /\ i + 0 = i /\ i + (j - i) = j /\ j - i \in 0 .. j - i
  OBVIOUS
<1>2. 0 \in G
  <2>1. Span(s, i) \in Nat
    BY PrefixType
  <2>2. QED
    BY <1>1, <2>1
<1>3. ASSUME NEW k \in 0 .. (j - i) - 1, k \in G PROVE k + 1 \in G
  <2>1. /\ i + k \in 0 .. Len(s) - 1 /\ i + k \in 0 .. Len(s) /\ k + 1 \in 0 .. j - i
        /\ (i + k) + 1 = i + (k + 1) /\ (i + k) + 1 \in 0 .. Len(s)
    BY <1>1
  <2>2. Span(s, (i + k) + 1) = Span(s, i + k) + Len(s[(i + k) + 1]) /\ Len(s[(i + k) + 1]) \in Nat
    BY <2>1, SpanStep
  <2>3. Span(s, i) \in Nat /\ Span(s, i + k) \in Nat
    BY <2>1, PrefixType
  <2>4. Span(s, i) <= Span(s, i + k)
    BY <1>3
  <2>5. Span(s, i) <= Span(s, i + (k + 1))
    BY <2>1, <2>2, <2>3, <2>4
  <2>6. QED
    BY <2>1, <2>5
<1>4. \A k \in 0 .. j - i : k \in G
  <2> HIDE DEF G
  <2>1. QED
    BY <1>1, <1>2, <1>3, Climb
<1>5. Span(s, i) <= Span(s, i + (j - i))
  BY <1>1, <1>4
<1>6. QED
  BY <1>1, <1>5

(* Dropping j elements from a list drops just their numbers from the front *)
(* (removeHead).                                                           *)
LEMMA FlattenDrop ==
    ASSUME NEW s \in Seq(Seq(Int)), NEW j \in 0 .. Len(s)
    PROVE  /\ SubSeq(s, j + 1, Len(s)) \in Seq(Seq(Int))
           /\ FlattenSeq(SubSeq(s, j + 1, Len(s))) \in Seq(Int)
           /\ Len(FlattenSeq(s)) = Span(s, j) + Len(FlattenSeq(SubSeq(s, j + 1, Len(s))))
           /\ \A i \in 1 .. Len(FlattenSeq(SubSeq(s, j + 1, Len(s)))) :
                 FlattenSeq(SubSeq(s, j + 1, Len(s)))[i] = FlattenSeq(s)[Span(s, j) + i]
           /\ \A i \in 1 .. Span(s, j) : FlattenSeq(s)[i] = FlattenSeq(SubSeq(s, 1, j))[i]
<1> DEFINE t == SubSeq(s, j + 1, Len(s))
           a == FlattenSeq(SubSeq(s, 1, j))
           b == FlattenSeq(t)
<1>1. t \in Seq(Seq(Int))
  OBVIOUS
<1>2. a \in Seq(Int) /\ b \in Seq(Int)
  BY <1>1, PrefixType, FlattenType
<1>3. FlattenSeq(s) = a \o b
  BY FlattenSplit
<1>4. Span(s, j) = Len(a)
  BY DEF Span
<1> HIDE DEF a, b
<1>5. /\ Len(a \o b) = Len(a) + Len(b)
      /\ \A i \in 1 .. Len(b) : (a \o b)[Len(a) + i] = b[i]
      /\ \A i \in 1 .. Len(a) : (a \o b)[i] = a[i]
  BY <1>2
<1>6. QED
  BY <1>1, <1>2, <1>3, <1>4, <1>5, Zenon DEF a, b

(* Where number r of element j + 1 stands in the flattened list. *)
LEMMA FlattenAt ==
    ASSUME NEW s \in Seq(Seq(Int)), NEW j \in 0 .. Len(s) - 1, NEW r \in 1 .. Len(s[j + 1])
    PROVE  /\ Span(s, j) + r \in 1 .. Len(FlattenSeq(s))
           /\ FlattenSeq(s)[Span(s, j) + r] = s[j + 1][r]
<1> DEFINE a == FlattenSeq(SubSeq(s, 1, j))
           b == FlattenSeq(SubSeq(s, 1, j + 1))
<1>1. j \in 0 .. Len(s) /\ j + 1 \in 0 .. Len(s) /\ j + 1 \in 1 .. Len(s)
  OBVIOUS
<1>2. s[j + 1] \in Seq(Int)
  BY <1>1, ElementOfSeq
<1>3. a \in Seq(Int) /\ b \in Seq(Int) /\ Span(s, j) = Len(a) /\ Span(s, j + 1) = Len(b)
  BY <1>1, PrefixType DEF Span
<1>4. b = a \o s[j + 1]
  BY FlattenSnoc
<1>5. \A i \in 1 .. Span(s, j + 1) : FlattenSeq(s)[i] = b[i]
  BY <1>1, FlattenDrop
<1>6. Span(s, j + 1) <= Len(FlattenSeq(s))
  <2>1. FlattenSeq(SubSeq(s, (j + 1) + 1, Len(s))) \in Seq(Int)
    BY <1>1, FlattenDrop
  <2>2. Len(FlattenSeq(SubSeq(s, (j + 1) + 1, Len(s)))) \in Nat
    BY <2>1
  <2>3. Len(FlattenSeq(s)) = Span(s, j + 1) + Len(FlattenSeq(SubSeq(s, (j + 1) + 1, Len(s))))
    BY <1>1, FlattenDrop
  <2>4. Span(s, j + 1) \in Nat
    BY <1>1, PrefixType
  <2>5. QED
    BY <2>2, <2>3, <2>4
<1> HIDE DEF a, b
<1>7. Len(a \o s[j + 1]) = Len(a) + Len(s[j + 1]) /\ (a \o s[j + 1])[Len(a) + r] = s[j + 1][r]
  BY <1>2, <1>3
<1>8. Len(a) \in Nat /\ Len(b) \in Nat /\ Len(s[j + 1]) \in Nat /\ Len(FlattenSeq(s)) \in Nat
  <2>1. FlattenSeq(s) \in Seq(Int)
    BY FlattenType
  <2>2. QED
    BY <1>2, <1>3, <2>1
<1>9. Len(b) = Len(a) + Len(s[j + 1]) /\ b[Len(a) + r] = s[j + 1][r]
  BY <1>4, <1>7, Zenon
<1>10. Len(a) + r \in 1 .. Len(b) /\ Len(b) <= Len(FlattenSeq(s))
  <2>1. r \in Nat /\ r >= 1 /\ r <= Len(s[j + 1])
    BY <1>8
  <2>2. Len(b) <= Len(FlattenSeq(s))
    BY <1>3, <1>6, Zenon
  <2>3. Len(a) + r \in 1 .. Len(b)
    BY <1>8, <1>9, <2>1
  <2>4. QED
    BY <2>2, <2>3
<1>11. FlattenSeq(s)[Len(a) + r] = b[Len(a) + r]
  BY <1>3, <1>5, <1>10
<1>12. QED
  BY <1>3, <1>8, <1>9, <1>10, <1>11

(* Every number of the flattened list comes from one of the elements. *)
LEMMA FlattenLocate ==
    ASSUME NEW s \in Seq(Seq(Int)), NEW n \in 1 .. Len(FlattenSeq(s))
    PROVE  \E j \in 0 .. Len(s) - 1 : \E r \in 1 .. Len(s[j + 1]) : n = Span(s, j) + r
<1> DEFINE G == {j \in 0 .. Len(s) : Span(s, j) < n}
<1>1. SUFFICES ASSUME \A j \in 0 .. Len(s) - 1 : ~ \E r \in 1 .. Len(s[j + 1]) : n = Span(s, j) + r
               PROVE FALSE
  OBVIOUS
<1>2. Len(s) \in Nat /\ Len(s) \in 0 .. Len(s) /\ n \in Nat /\ n <= Len(FlattenSeq(s))
      /\ n >= 1 /\ 0 \in 0 .. Len(s)
  <2>1. FlattenSeq(s) \in Seq(Int)
    BY FlattenType
  <2>2. QED
    BY <2>1
<1>3. 0 \in G
  BY <1>2, SpanEnds
<1>4. ASSUME NEW j \in 0 .. Len(s) - 1, j \in G PROVE j + 1 \in G
  <2>1. Span(s, j + 1) = Span(s, j) + Len(s[j + 1]) /\ Len(s[j + 1]) \in Nat
    BY SpanStep
  <2>2. Span(s, j) \in Nat /\ Span(s, j) < n /\ j + 1 \in 0 .. Len(s)
    BY <1>2, <1>4, PrefixType
  <2>3. CASE n <= Span(s, j + 1)
    <3>1. n - Span(s, j) \in 1 .. Len(s[j + 1]) /\ n = Span(s, j) + (n - Span(s, j))
      BY <1>2, <2>1, <2>2, <2>3
    <3>2. QED
      BY <1>1, <3>1
  <2>4. CASE ~ (n <= Span(s, j + 1))
    BY <1>2, <2>1, <2>2, <2>4
  <2>5. QED
    BY <2>3, <2>4
<1>5. \A j \in 0 .. Len(s) : j \in G
  <2> HIDE DEF G
  <2>1. QED
    BY <1>2, <1>3, <1>4, Climb
<1>6. Span(s, Len(s)) < n
  BY <1>2, <1>5
<1>7. Span(s, Len(s)) = Len(FlattenSeq(s)) /\ Span(s, Len(s)) \in Nat
  BY <1>2, SpanEnds, PrefixType
<1>8. QED
  BY <1>2, <1>6, <1>7

-------------------------------------------------------------------------------

(* A number in front of a sequence moves all the others by one. *)
LEMMA InFront ==
    ASSUME NEW x \in Int, NEW b \in Seq(Int)
    PROVE  /\ <<x>> \o b \in Seq(Int)
           /\ Len(<<x>> \o b) = Len(b) + 1
           /\ (<<x>> \o b)[1] = x
           /\ \A r \in 1 .. Len(b) : (<<x>> \o b)[r + 1] = b[r]
<1> DEFINE a == <<x>>
<1>1. a \in Seq(Int) /\ Len(a) = 1 /\ a[1] = x
  OBVIOUS
<1> HIDE DEF a
<1>2. Len(b) \in Nat
  OBVIOUS
<1>3. a \o b \in Seq(Int) /\ Len(a \o b) = Len(b) + 1
  <2>1. a \o b \in Seq(Int) /\ Len(a \o b) = Len(a) + Len(b)
    BY <1>1, ConcatProperties
  <2>2. QED
    BY <1>1, <1>2, <2>1
<1>4. (a \o b)[1] = x
  <2>1. 1 \in 1 .. Len(a) + Len(b) /\ 1 <= Len(a)
    BY <1>1, <1>2
  <2>2. (a \o b)[1] = IF 1 <= Len(a) THEN a[1] ELSE b[1 - Len(a)]
    BY <1>1, <2>1, ConcatProperties
  <2>3. QED
    BY <1>1, <2>1, <2>2, Zenon
<1>5. ASSUME NEW r \in 1 .. Len(b) PROVE (a \o b)[r + 1] = b[r]
  <2>1. r + 1 \in 1 .. Len(a) + Len(b) /\ ~ (r + 1 <= Len(a)) /\ (r + 1) - Len(a) = r
    BY <1>1, <1>2
  <2>2. (a \o b)[r + 1] = IF r + 1 <= Len(a) THEN a[r + 1] ELSE b[(r + 1) - Len(a)]
    BY <1>1, <2>1, ConcatProperties
  <2>3. QED
    BY <2>1, <2>2, Zenon
<1>6. QED
  BY <1>3, <1>4, <1>5, Zenon DEF a

(* What writeBatch puts into the payload for each buffer. *)
Items(buffers) == [i \in DOMAIN buffers |-> <<Len(buffers[i])>> \o buffers[i]]

(* Each of them is the length of the buffer and then its bytes. *)
LEMMA ItemsType ==
    ASSUME NEW buffers \in Seq(Seq(Int))
    PROVE  /\ Items(buffers) \in Seq(Seq(Int))
           /\ Len(Items(buffers)) = Len(buffers)
           /\ \A i \in 1 .. Len(buffers) :
                 /\ Items(buffers)[i] \in Seq(Int)
                 /\ Len(buffers[i]) \in Nat
                 /\ Len(Items(buffers)[i]) = Len(buffers[i]) + 1
                 /\ Items(buffers)[i][1] = Len(buffers[i])
                 /\ \A r \in 1 .. Len(buffers[i]) : Items(buffers)[i][r + 1] = buffers[i][r]
<1>1. DOMAIN buffers = 1 .. Len(buffers) /\ Len(buffers) \in Nat
  OBVIOUS
<1>2. ASSUME NEW i \in 1 .. Len(buffers)
      PROVE  /\ Items(buffers)[i] = <<Len(buffers[i])>> \o buffers[i]
             /\ Items(buffers)[i] \in Seq(Int)
             /\ Len(buffers[i]) \in Nat
             /\ Len(Items(buffers)[i]) = Len(buffers[i]) + 1
             /\ Items(buffers)[i][1] = Len(buffers[i])
             /\ \A r \in 1 .. Len(buffers[i]) : Items(buffers)[i][r + 1] = buffers[i][r]
  <2> DEFINE b == buffers[i]
             a == <<Len(b)>>
  <2>1. b \in Seq(Int)
    BY ElementOfSeq
  <2>2. Items(buffers)[i] = a \o b
    BY <1>1 DEF Items
  <2> HIDE DEF b
  <2>3. Len(b) \in Nat /\ Len(b) \in Int
    BY <2>1
  <2> HIDE DEF a
  <2>4. /\ a \o b \in Seq(Int) /\ Len(a \o b) = Len(b) + 1 /\ (a \o b)[1] = Len(b)
        /\ \A r \in 1 .. Len(b) : (a \o b)[r + 1] = b[r]
    BY <2>1, <2>3, InFront, Zenon DEF a
  <2>5. QED
    BY <2>2, <2>3, <2>4, Zenon DEF a, b
<1>3. Items(buffers) \in [1 .. Len(buffers) -> Seq(Int)]
  <2>1. Items(buffers) = [i \in 1 .. Len(buffers) |-> Items(buffers)[i]]
    BY <1>1 DEF Items
  <2>2. \A i \in 1 .. Len(buffers) : Items(buffers)[i] \in Seq(Int)
    BY <1>2
  <2> HIDE DEF Items
  <2>3. QED
    BY <2>1, <2>2
<1>4. Items(buffers) \in Seq(Seq(Int)) /\ Len(Items(buffers)) = Len(buffers)
  BY <1>1, <1>3
<1>5. QED
  BY <1>2, <1>4

(* What an application hands to the frame writer. *)
App == [batch : BOOLEAN, compressed : BOOLEAN, buffers : Seq(Seq(Int))]

(* The payload of a frame before it is compressed. *)
Plain(app) == IF app.batch THEN WriteBatch(app.buffers) ELSE app.buffers[1]

(* The payload of a batch: the number of buffers, and then the flattened   *)
(* items.                                                                  *)
LEMMA WriteBatchParts ==
    ASSUME NEW buffers \in Seq(Seq(Int))
    PROVE  /\ WriteBatch(buffers) = <<Len(buffers)>> \o FlattenSeq(Items(buffers))
           /\ WriteBatch(buffers) \in Seq(Int)
           /\ FlattenSeq(Items(buffers)) \in Seq(Int)
           /\ Len(WriteBatch(buffers)) = 1 + Len(FlattenSeq(Items(buffers)))
           /\ WriteBatch(buffers)[1] = Len(buffers)
           /\ \A n \in 1 .. Len(FlattenSeq(Items(buffers))) :
                 WriteBatch(buffers)[n + 1] = FlattenSeq(Items(buffers))[n]
<1> DEFINE f == FlattenSeq(Items(buffers))
           a == <<Len(buffers)>>
<1>1. WriteBatch(buffers) = a \o f
  BY DEF WriteBatch, Items
<1>2. f \in Seq(Int)
  BY ItemsType, FlattenType
<1>3. Len(buffers) \in Int /\ Len(f) \in Int
  BY <1>2
<1> HIDE DEF a, f
<1>4. /\ a \o f \in Seq(Int) /\ Len(a \o f) = Len(f) + 1 /\ (a \o f)[1] = Len(buffers)
      /\ \A n \in 1 .. Len(f) : (a \o f)[n + 1] = f[n]
  BY <1>2, <1>3, InFront, Zenon DEF a
<1>5. Len(f) + 1 = 1 + Len(f)
  BY <1>3
<1>6. QED
  BY <1>1, <1>2, <1>4, <1>5, Zenon DEF a, f

(* The parts of a frame in terms of what it was made from. *)
LEMMA FrameParts ==
    ASSUME NEW app \in App, ~ app.batch => Len(app.buffers) = 1
    PROVE  /\ Plain(app) \in Seq(Int)
           /\ app.batch \in BOOLEAN /\ app.compressed \in BOOLEAN
           /\ app.buffers \in Seq(Seq(Int))
           /\ FrameOf(app) = Frame(app.batch, app.compressed, Len(app.buffers), Plain(app))
           /\ FrameOf(app).payload \in Seq(Int)
           /\ FrameOf(app).payload =
                 IF app.compressed THEN Compress(Plain(app)) ELSE Plain(app)
<1>1. app.batch \in BOOLEAN /\ app.compressed \in BOOLEAN /\ app.buffers \in Seq(Seq(Int))
  BY DEF App
<1>2. Plain(app) \in Seq(Int)
  <2>1. CASE app.batch
    BY <1>1, <2>1, WriteBatchParts DEF Plain
  <2>2. CASE ~ app.batch
    <3>1. Len(app.buffers) = 1 /\ 1 \in 1 .. 1
      BY <2>2
    <3>2. app.buffers[1] \in Seq(Int)
      BY <1>1, <3>1, ElementOfSeq
    <3>3. QED
      BY <2>2, <3>2 DEF Plain
  <2>3. QED
    BY <2>1, <2>2
<1>3. FrameOf(app) = Frame(app.batch, app.compressed, Len(app.buffers), Plain(app))
  <2>1. CASE app.batch
    <3>1. app.batch = TRUE
      BY <1>1, <2>1, Zenon
    <3>2. FrameOf(app) = Frame(TRUE, app.compressed, Len(app.buffers), Plain(app))
      BY <2>1, Zenon DEF FrameOf, BatchFrame, Plain
    <3>3. QED
      BY <3>1, <3>2, Zenon
  <2>2. CASE ~ app.batch
    <3>1. app.batch = FALSE
      BY <1>1, <2>2, Zenon
    <3>2. FrameOf(app) = Frame(FALSE, app.compressed, 1, Plain(app))
      BY <2>2, Zenon DEF FrameOf, SingleFrame, Plain
    <3>3. QED
      BY <2>2, <3>1, <3>2, Zenon
  <2>3. QED
    BY <2>1, <2>2
<1>4. FrameOf(app).payload = IF app.compressed THEN Compress(Plain(app)) ELSE Plain(app)
  BY <1>3 DEF Frame
<1>5. Compress(Plain(app)) \in Seq(Int)
  BY <1>2 DEF Compress, GzipMark
<1>6. FrameOf(app).payload \in Seq(Int)
  BY <1>2, <1>4, <1>5
<1>7. QED
  BY <1>1, <1>2, <1>3, <1>4, <1>6

-------------------------------------------------------------------------------

(* The loop of readMsgFrame before its first iteration. *)
First == [rc |-> "E_OK", calls |-> <<>>, offset |-> 1]

(* A function that gives where the loop is after each number of            *)
(* iterations.                                                             *)
IsLoop(f, payload, refused, n) ==
    /\ f = [i \in 0 .. n |-> f[i]]
    /\ f[0] = First
    /\ \A j \in 0 .. n - 1 : f[j + 1] = ReadNext(payload, refused, f[j], j + 1)

(* The recursive function in ReadBatch is any function that goes on as the *)
(* loop does.                                                              *)
LEMMA BatchLoop ==
    ASSUME NEW payload, NEW refused, NEW n \in Nat, payload[1] = n,
           NEW f, IsLoop(f, payload, refused, n)
    PROVE  ReadBatch(payload, refused) = [rc |-> f[n].rc, calls |-> f[n].calls]
<1> DEFINE R(g) == [i \in 0 .. payload[1] |-> IF i = 0 THEN First
                                             ELSE ReadNext(payload, refused, g[i - 1], i)]
           c == CHOOSE g : g = R(g)
<1>0. /\ f = [i \in 0 .. n |-> f[i]] /\ f[0] = First
      /\ \A j \in 0 .. n - 1 : f[j + 1] = ReadNext(payload, refused, f[j], j + 1)
  BY Zenon DEF IsLoop
<1>1. ReadBatch(payload, refused) = [rc |-> c[payload[1]].rc, calls |-> c[payload[1]].calls]
  BY Zenon DEF ReadBatch, First
<1>2. \A g : R(g) = [i \in 0 .. n |-> IF i = 0 THEN First
                                      ELSE ReadNext(payload, refused, g[i - 1], i)]
  BY Zenon
<1>3. f = R(f)
  <2>1. ASSUME NEW i \in 0 .. n
        PROVE  f[i] = IF i = 0 THEN First ELSE ReadNext(payload, refused, f[i - 1], i)
    <3>1. CASE i = 0
      BY <1>0, <3>1
    <3>2. CASE i # 0
      <4>1. i - 1 \in 0 .. n - 1 /\ (i - 1) + 1 = i
        BY <3>2
      <4>2. f[(i - 1) + 1] = ReadNext(payload, refused, f[i - 1], (i - 1) + 1)
        BY <1>0, <4>1
      <4>3. QED
        BY <3>2, <4>1, <4>2, Zenon
    <3>3. QED
      BY <3>1, <3>2
  <2>2. QED
    BY <1>0, <1>2, <2>1, Zenon
<1>4. c = R(c)
  <2> HIDE DEF R
  <2>1. QED
    BY <1>3
<1>5. \A i \in 0 .. n : c[i] = IF i = 0 THEN First ELSE ReadNext(payload, refused, c[i - 1], i)
  <2> HIDE DEF R, c
  <2>1. \A i \in 0 .. n : R(c)[i] = IF i = 0 THEN First ELSE ReadNext(payload, refused, c[i - 1], i)
    BY <1>2
  <2>2. QED
    BY <1>4, <2>1, Zenon
<1> HIDE DEF R, c
<1> DEFINE G == {i \in 0 .. n : c[i] = f[i]}
<1>6. 0 \in G
  BY <1>0, <1>5
<1>7. ASSUME NEW j \in 0 .. n - 1, j \in G PROVE j + 1 \in G
  <2>1. j + 1 \in 0 .. n /\ j + 1 # 0 /\ (j + 1) - 1 = j
    OBVIOUS
  <2>2. c[j + 1] = ReadNext(payload, refused, c[j], j + 1)
    BY <1>5, <2>1, Zenon
  <2>3. c[j] = f[j]
    BY <1>7
  <2>4. c[j + 1] = f[j + 1]
    BY <1>0, <2>2, <2>3
  <2>5. QED
    BY <2>1, <2>4
<1>8. n \in G
  <2> HIDE DEF G
  <2>1. \A i \in 0 .. n : i \in G
    BY <1>6, <1>7, Climb
  <2>2. n \in 0 .. n
    OBVIOUS
  <2>3. QED
    BY <2>1, <2>2
<1>9. c[n] = f[n]
  BY <1>8
<1>10. QED
  BY <1>1, <1>9, Zenon

(* MsgBatchReader::readMsg at the place of buffer j + 1 gives just that    *)
(* buffer and goes to the place of the next one; only at an empty buffer   *)
(* that is the last one it sees the end of the stream.                     *)
LEMMA ReadMsgParts ==
    ASSUME NEW buffers \in Seq(Seq(Int)), NEW j \in 0 .. Len(buffers) - 1
    PROVE  ReadMsg(WriteBatch(buffers), 1 + Span(Items(buffers), j)) =
             IF j + 1 = Len(buffers) /\ buffers[j + 1] = <<>>
             THEN [rc |-> "E_END_OF_STREAM"]
             ELSE [rc |-> "E_OK", buffer |-> buffers[j + 1],
                   offset |-> 1 + Span(Items(buffers), j + 1)]
<1> DEFINE s == Items(buffers)
           f == FlattenSeq(s)
           w == WriteBatch(buffers)
           b == buffers[j + 1]
           t == s[j + 1]
           a == Span(s, j)
           e == Span(s, j + 1)
           n == Len(buffers)
<1>1. n \in Nat /\ j \in Nat /\ j + 1 \in 1 .. n /\ b \in Seq(Int) /\ Len(b) \in Nat
  <2>1. n \in Nat /\ j + 1 \in 1 .. n
    OBVIOUS
  <2>2. b \in Seq(Int)
    BY <2>1, ElementOfSeq
  <2>3. QED
    BY <2>1, <2>2
<1>2. /\ s \in Seq(Seq(Int)) /\ Len(s) = n /\ Len(t) = Len(b) + 1 /\ t[1] = Len(b)
      /\ \A r \in 1 .. Len(b) : t[r + 1] = b[r]
  BY <1>1, ItemsType
<1>3. j \in 0 .. Len(s) /\ j + 1 \in 0 .. Len(s) /\ j \in 0 .. Len(s) - 1
  BY <1>1, <1>2
<1>4. a \in Nat /\ e \in Nat
  BY <1>2, <1>3, PrefixType
<1>5. e = a + Len(t)
  BY <1>2, <1>3, SpanStep
<1>6. \A r \in 1 .. Len(t) : a + r \in 1 .. Len(f) /\ f[a + r] = t[r]
  BY <1>2, <1>3, FlattenAt
<1>7. /\ w \in Seq(Int) /\ f \in Seq(Int) /\ Len(w) = 1 + Len(f)
      /\ \A i \in 1 .. Len(f) : w[i + 1] = f[i]
  BY WriteBatchParts
<1>8. Len(f) = Span(s, Len(s))
  BY <1>2, SpanEnds
<1> HIDE DEF s, f, w, b, t, a, e
<1>9. Len(f) \in Nat /\ Len(w) = 1 + Len(f) /\ Len(t) = Len(b) + 1 /\ e = a + (Len(b) + 1)
  BY <1>2, <1>5, <1>7, Zenon, LenProperties
<1>10. a + 1 <= Len(f)
  <2>1. 1 \in 1 .. Len(t)
    BY <1>1, <1>9
  <2>2. a + 1 \in 1 .. Len(f)
    BY <1>6, <2>1
  <2>3. QED
    BY <1>9, <2>2
<1>11. ~ Ended(w, 1 + a) /\ (Ended(w, (1 + a) + 1) <=> Len(f) <= a + 1)
  <2>1. ~ (1 + a >= 1 + Len(f)) /\ ((1 + a) + 1 >= 1 + Len(f) <=> Len(f) <= a + 1)
    BY <1>4, <1>9, <1>10
  <2>2. QED
    BY <1>9, <2>1, Zenon DEF Ended
<1>12. b = <<>> <=> Len(b) = 0
  BY <1>1, EmptySeq
<1>13. Len(f) <= a + 1 <=> (j + 1 = n /\ Len(b) = 0)
  <2>1. CASE j + 1 = n
    <3>1. Len(f) = e
      BY <1>2, <1>8, <2>1, Zenon DEF e
    <3>2. QED
      BY <1>1, <1>4, <1>9, <2>1, <3>1
  <2>2. CASE j + 1 # n
    <3>1. /\ j + 1 \in 0 .. Len(s) - 1 /\ (j + 1) + 1 \in 0 .. Len(s) /\ (j + 1) + 1 <= Len(s)
          /\ (j + 1) + 1 \in 1 .. n /\ Len(s) \in 0 .. Len(s)
      BY <1>1, <1>2, <2>2
    <3> DEFINE h == Span(s, (j + 1) + 1)
               u == s[(j + 1) + 1]
    <3>2. h = e + Len(u) /\ Len(u) \in Nat
      BY <1>2, <3>1, SpanStep DEF e
    <3>3. h <= Len(f)
      BY <1>2, <1>8, <3>1, SpanMonotone
    <3>4. Len(u) = Len(buffers[(j + 1) + 1]) + 1 /\ Len(buffers[(j + 1) + 1]) \in Nat
      BY <3>1, ItemsType DEF s
    <3> HIDE DEF h, u
    <3>5. Len(u) >= 1
      BY <3>2, <3>4
    <3>6. ~ (Len(f) <= a + 1)
      BY <1>1, <1>4, <1>9, <3>2, <3>3, <3>5
    <3>7. QED
      BY <2>2, <3>6
  <2>3. QED
    BY <2>1, <2>2
<1>14. w[(1 + a) + 1] = Len(b)
  <2>1. 1 \in 1 .. Len(t) /\ 1 + a = a + 1
    BY <1>1, <1>4, <1>9
  <2>2. a + 1 \in 1 .. Len(f) /\ f[a + 1] = t[1]
    BY <1>6, <2>1
  <2>3. QED
    BY <1>2, <1>7, <2>1, <2>2, Zenon
<1>15. SubSeq(w, (1 + a) + 2, (1 + a) + 1 + Len(b)) = b
  <2> DEFINE x == (1 + a) + 2
             y == (1 + a) + 1 + Len(b)
             v == SubSeq(w, x, y)
  <2>1. x \in Nat /\ x >= 1 /\ y \in Nat /\ y <= Len(w) /\ y - x + 1 = Len(b) /\ x <= y + 1
    <3>1. Len(b) = 0 \/ a + (Len(b) + 1) <= Len(f)
      <4>1. Len(t) \in 1 .. Len(t)
        BY <1>1, <1>9
      <4>2. a + Len(t) \in 1 .. Len(f)
        BY <1>6, <4>1
      <4>3. QED
        BY <1>1, <1>4, <1>9, <4>2
    <3>2. QED
      BY <1>1, <1>4, <1>9, <1>10, <3>1
  <2>2. Len(w) \in Nat
    BY <1>9
  <2> HIDE DEF x, y
  <2>3. v \in Seq(Int) /\ Len(v) = y - x + 1 /\ \A i \in 1 .. y - x + 1 : v[i] = w[x + i - 1]
    BY <1>7, <2>1, <2>2
  <2> HIDE DEF v
  <2>4. ASSUME NEW i \in 1 .. Len(b) PROVE v[i] = b[i]
    <3>1. i \in 1 .. y - x + 1 /\ i + 1 \in 1 .. Len(t)
      BY <1>1, <1>9, <2>1
    <3>2. x + i - 1 = (a + (i + 1)) + 1
      BY <1>1, <1>4 DEF x
    <3>3. a + (i + 1) \in 1 .. Len(f) /\ f[a + (i + 1)] = t[i + 1]
      BY <1>6, <3>1
    <3>4. QED
      BY <1>2, <1>7, <2>3, <3>1, <3>2, <3>3, Zenon
  <2>5. Len(v) = Len(b)
    BY <2>1, <2>3, Zenon
  <2>6. v = b
    BY <1>1, <2>3, <2>4, <2>5, SeqEqual
  <2>7. QED
    BY <2>6, Zenon DEF v, x, y
<1>16. (1 + a) + 1 + Len(b) = 1 + e
  BY <1>1, <1>4, <1>9
<1>17. ReadMsg(w, 1 + a) = IF j + 1 = n /\ b = <<>> THEN [rc |-> "E_END_OF_STREAM"]
                           ELSE [rc |-> "E_OK", buffer |-> b, offset |-> 1 + e]
  <2>1. CASE j + 1 = n /\ b = <<>>
    BY <1>11, <1>12, <1>13, <2>1, Zenon DEF ReadMsg
  <2>2. CASE ~ (j + 1 = n /\ b = <<>>)
    <3>1. ~ Ended(w, 1 + a) /\ ~ Ended(w, (1 + a) + 1)
      BY <1>11, <1>12, <1>13, <2>2, Zenon
    <3>2. ReadMsg(w, 1 + a) =
            [rc |-> "E_OK",
             buffer |-> SubSeq(w, (1 + a) + 2, (1 + a) + 1 + w[(1 + a) + 1]),
             offset |-> (1 + a) + 1 + w[(1 + a) + 1]]
      BY <3>1, Zenon DEF ReadMsg
    <3>3. QED
      BY <1>14, <1>15, <1>16, <2>2, <3>2, Zenon
  <2>3. QED
    BY <2>1, <2>2, Zenon
<1>18. QED
  BY <1>17, Zenon DEF w, a, s, b, e

(* How many buffers of a batch are there to be handed out. *)
Given(buffers) == IF EndsEmpty(buffers) THEN Len(buffers) - 1 ELSE Len(buffers)

(* How many of them the listener gets. *)
Stop(buffers, refused) == IF refused \in 1 .. Given(buffers) THEN refused ELSE Given(buffers)

(* How far the loop is after i iterations. *)
Reached(buffers, refused, i) == IF i <= Stop(buffers, refused) THEN i ELSE Stop(buffers, refused)

(* Where the loop of readMsgFrame is after i iterations. *)
After(buffers, refused, i) ==
    [rc |-> IF refused \in 1 .. Given(buffers) /\ i >= refused THEN "E_REFUSED"
            ELSE IF i > Given(buffers) THEN "E_END_OF_STREAM" ELSE "E_OK",
     calls |-> SubSeq(Written(buffers), 1, Reached(buffers, refused, i)),
     offset |-> 1 + Span(Items(buffers), Reached(buffers, refused, i))]

(* The calls that the writer expects, one by one. *)
LEMMA WrittenParts ==
    ASSUME NEW buffers \in Seq(Seq(Int))
    PROVE  /\ Written(buffers) = [i \in 1 .. Len(buffers) |-> Written(buffers)[i]]
           /\ Len(buffers) \in Nat
           /\ \E S : Written(buffers) \in Seq(S) /\ \A i \in 1 .. Len(buffers) : Written(buffers)[i] \in S
           /\ Len(Written(buffers)) = Len(buffers)
           /\ \A i \in 1 .. Len(buffers) :
                 Written(buffers)[i] = Call(buffers[i], i = Len(buffers), Len(buffers))
<1> DEFINE n == Len(buffers)
           w == Written(buffers)
<1>1. n \in Nat
  OBVIOUS
<1>2. w = [i \in 1 .. n |-> Call(buffers[i], i = n, n)]
  BY Zenon DEF Written
<1>3. /\ w = [i \in 1 .. n |-> w[i]] /\ \A i \in 1 .. n : w[i] = Call(buffers[i], i = n, n)
  BY <1>2
<1> DEFINE S == {w[i] : i \in 1 .. n}
<1> HIDE DEF w
<1>4. w \in [1 .. n -> S]
  BY <1>3
<1> HIDE DEF S, n
<1>5. w \in Seq(S) /\ Len(w) = n
  BY <1>1, <1>4
<1>6. \A i \in 1 .. n : w[i] \in S
  BY <1>4
<1>7. QED
  BY <1>1, <1>3, <1>5, <1>6, Zenon DEF w, n

(* The limits of what is handed out. *)
LEMMA GivenParts ==
    ASSUME NEW buffers \in Seq(Seq(Int)), NEW refused \in Nat
    PROVE  /\ Len(buffers) \in Nat /\ Given(buffers) \in Nat
           /\ Given(buffers) <= Len(buffers) /\ Len(buffers) <= Given(buffers) + 1
           /\ EndsEmpty(buffers) <=> Given(buffers) # Len(buffers)
           /\ Stop(buffers, refused) \in Nat /\ Stop(buffers, refused) <= Given(buffers)
           /\ Given(buffers) > 0 => Stop(buffers, refused) > 0
<1>1. Len(buffers) \in Nat
  OBVIOUS
<1>2. EndsEmpty(buffers) => Len(buffers) > 0
  BY DEF EndsEmpty
<1>3. /\ Given(buffers) \in Nat /\ Given(buffers) <= Len(buffers)
      /\ Len(buffers) <= Given(buffers) + 1
      /\ EndsEmpty(buffers) <=> Given(buffers) # Len(buffers)
  BY <1>1, <1>2 DEF Given
<1>4. QED
  BY <1>1, <1>3 DEF Stop

(* An iteration of the loop takes it from one of those places to the next: *)
(* by cases on a refusal before, the end of the stream, and a buffer that  *)
(* is read.                                                                *)
LEMMA AfterStep ==
    ASSUME NEW buffers \in Seq(Seq(Int)), NEW refused \in Nat,
           NEW j \in 0 .. Len(buffers) - 1
    PROVE  After(buffers, refused, j + 1) =
             ReadNext(WriteBatch(buffers), refused, After(buffers, refused, j), j + 1)
<1> DEFINE n == Len(buffers)
           g == Given(buffers)
           k == Stop(buffers, refused)
           w == WriteBatch(buffers)
           W == Written(buffers)
           s == Items(buffers)
           before == After(buffers, refused, j)
           after == After(buffers, refused, j + 1)
           x == Reached(buffers, refused, j)
           y == Reached(buffers, refused, j + 1)
<1>1. /\ n \in Nat /\ g \in Nat /\ g <= n /\ n <= g + 1 /\ (EndsEmpty(buffers) <=> g # n)
      /\ k \in Nat /\ k <= g /\ j \in Nat /\ j + 1 <= n
      /\ k = IF refused \in 1 .. g THEN refused ELSE g
  BY GivenParts DEF Stop
<1>2. x = (IF j <= k THEN j ELSE k) /\ y = (IF j + 1 <= k THEN j + 1 ELSE k)
  BY Zenon DEF Reached
<1>3. before = [rc |-> IF refused \in 1 .. g /\ j >= refused THEN "E_REFUSED"
                       ELSE IF j > g THEN "E_END_OF_STREAM" ELSE "E_OK",
                calls |-> SubSeq(W, 1, x), offset |-> 1 + Span(s, x)]
  BY Zenon DEF After
<1>4. after = [rc |-> IF refused \in 1 .. g /\ j + 1 >= refused THEN "E_REFUSED"
                       ELSE IF j + 1 > g THEN "E_END_OF_STREAM" ELSE "E_OK",
               calls |-> SubSeq(W, 1, y), offset |-> 1 + Span(s, y)]
  BY Zenon DEF After
<1>5. ~ (j > g)
  BY <1>1
<1>6. w[1] = n
  BY WriteBatchParts
<1>7. ReadMsg(w, 1 + Span(s, j)) =
        IF j + 1 = n /\ buffers[j + 1] = <<>> THEN [rc |-> "E_END_OF_STREAM"]
        ELSE [rc |-> "E_OK", buffer |-> buffers[j + 1], offset |-> 1 + Span(s, j + 1)]
  BY ReadMsgParts
<1>8. j + 1 = n /\ buffers[j + 1] = <<>> <=> j + 1 > g
  <2>1. j + 1 > g <=> j + 1 = n /\ g # n
    BY <1>1
  <2>2. EndsEmpty(buffers) <=> n > 0 /\ buffers[n] = <<>>
    BY DEF EndsEmpty
  <2>3. j + 1 = n => n > 0
    BY <1>1
  <2>4. QED
    BY <1>1, <2>1, <2>2, <2>3, Zenon
<1> HIDE DEF n, g, k, w, W, s, before, after, x, y
<1>9. CASE refused \in 1 .. g /\ j >= refused
  <2>1. x = y /\ j + 1 >= refused
    BY <1>1, <1>2, <1>9
  <2>2. before.rc = "E_REFUSED" /\ before = after
    BY <1>3, <1>4, <1>9, <2>1
  <2>3. before.rc # "E_OK"
    BY <2>2
  <2>4. ReadNext(w, refused, before, j + 1) = before
    BY <2>3, Zenon DEF ReadNext
  <2>5. QED
    BY <2>2, <2>4 DEF w, before, after
<1>10. CASE ~ (refused \in 1 .. g /\ j >= refused)
  <2>1. x = j
    BY <1>1, <1>2, <1>10
  <2>2. before = [rc |-> "E_OK", calls |-> SubSeq(W, 1, j), offset |-> 1 + Span(s, j)]
    BY <1>3, <1>5, <1>10, <2>1
  <2>3. before.rc = "E_OK" /\ before.calls = SubSeq(W, 1, j) /\ before.offset = 1 + Span(s, j)
    BY <2>2
  <2> DEFINE read == ReadMsg(w, 1 + Span(s, j))
  <2>4. ReadNext(w, refused, before, j + 1) =
          IF read.rc # "E_OK" THEN [before EXCEPT !.rc = read.rc]
          ELSE [rc |-> IF j + 1 = refused THEN "E_REFUSED" ELSE "E_OK",
                calls |-> Append(SubSeq(W, 1, j), Call(read.buffer, j + 1 = n, n)),
                offset |-> read.offset]
    BY <1>6, <2>3, Zenon DEF ReadNext
  <2>5. CASE j + 1 > g
    <3>1. read = [rc |-> "E_END_OF_STREAM"]
      BY <1>7, <1>8, <2>5, Zenon
    <3> HIDE DEF read
    <3>2. read.rc = "E_END_OF_STREAM"
      BY <3>1
    <3>3. ReadNext(w, refused, before, j + 1) =
            [rc |-> "E_END_OF_STREAM", calls |-> SubSeq(W, 1, j), offset |-> 1 + Span(s, j)]
      BY <2>2, <2>4, <3>2
    <3>4. y = j /\ ~ (refused \in 1 .. g /\ j + 1 >= refused)
      BY <1>1, <1>2, <1>10, <2>5
    <3>5. after = [rc |-> "E_END_OF_STREAM", calls |-> SubSeq(W, 1, j), offset |-> 1 + Span(s, j)]
      BY <1>4, <2>5, <3>4
    <3>6. QED
      BY <3>3, <3>5 DEF w, before, after
  <2>6. CASE ~ (j + 1 > g)
    <3>1. read = [rc |-> "E_OK", buffer |-> buffers[j + 1], offset |-> 1 + Span(s, j + 1)]
      BY <1>7, <1>8, <2>6, Zenon
    <3> HIDE DEF read
    <3>2. read.rc = "E_OK" /\ read.buffer = buffers[j + 1] /\ read.offset = 1 + Span(s, j + 1)
      BY <3>1
    <3>3. ReadNext(w, refused, before, j + 1) =
            [rc |-> IF j + 1 = refused THEN "E_REFUSED" ELSE "E_OK",
             calls |-> Append(SubSeq(W, 1, j), Call(buffers[j + 1], j + 1 = n, n)),
             offset |-> 1 + Span(s, j + 1)]
      BY <2>4, <3>2, Zenon
    <3>4. y = j + 1 /\ ((refused \in 1 .. g /\ j + 1 >= refused) <=> j + 1 = refused)
      BY <1>1, <1>2, <1>10, <2>6
    <3>5. after = [rc |-> IF j + 1 = refused THEN "E_REFUSED" ELSE "E_OK",
                   calls |-> SubSeq(W, 1, j + 1), offset |-> 1 + Span(s, j + 1)]
      BY <1>4, <2>6, <3>4
    <3>6. SubSeq(W, 1, j + 1) = Append(SubSeq(W, 1, j), Call(buffers[j + 1], j + 1 = n, n))
      <4>1. PICK S : W \in Seq(S)
        BY WrittenParts DEF W
      <4>2. Len(W) = n /\ j + 1 \in 1 .. n /\ W[j + 1] = Call(buffers[j + 1], j + 1 = n, n)
        <5>1. j + 1 \in 1 .. Len(buffers)
          OBVIOUS
        <5>2. QED
          BY <5>1, WrittenParts DEF W, n
      <4>3. SubSeq(W, 1, j + 1) = Append(SubSeq(W, 1, j), W[j + 1])
        <5>1. 1 \in 1 .. Len(W) /\ j + 1 \in 1 .. Len(W) /\ (j + 1) - 1 = j
          BY <1>1, <4>2
        <5> DEFINE p == SubSeq(W, 1, j + 1)
                   q == Append(SubSeq(W, 1, j), W[j + 1])
        <5>2. p \in Seq(S) /\ Len(p) = j + 1 /\ \A i \in 1 .. j + 1 : p[i] = W[i]
          BY <1>1, <4>1, <5>1
        <5>3. /\ SubSeq(W, 1, j) \in Seq(S) /\ Len(SubSeq(W, 1, j)) = j
              /\ \A i \in 1 .. j : SubSeq(W, 1, j)[i] = W[i]
          BY <1>1, <4>1, <5>1
        <5>4. W[j + 1] \in S
          BY <4>1, <5>1, ElementOfSeq
        <5> DEFINE z == SubSeq(W, 1, j)
        <5> HIDE DEF z
        <5>5. z \in Seq(S) /\ Len(z) = j /\ \A i \in 1 .. j : z[i] = W[i]
          BY <5>3 DEF z
        <5>6. /\ Append(z, W[j + 1]) \in Seq(S) /\ Len(Append(z, W[j + 1])) = j + 1
              /\ \A i \in 1 .. j + 1 : Append(z, W[j + 1])[i] = W[i]
          <6> DEFINE e == W[j + 1]
          <6>1. e \in S /\ j \in Nat
            BY <1>1, <5>4
          <6> HIDE DEF e
          <6>2. /\ Append(z, e) \in Seq(S) /\ Len(Append(z, e)) = Len(z) + 1
                /\ \A i \in 1 .. Len(z) : Append(z, e)[i] = z[i]
                /\ Append(z, e)[Len(z) + 1] = e
            BY <5>5, <6>1, AppendProperties
          <6>3. \A i \in 1 .. j + 1 : Append(z, e)[i] = IF i <= j THEN W[i] ELSE e
            BY <5>5, <6>1, <6>2
          <6>4. \A i \in 1 .. j + 1 : i <= j \/ i = j + 1
            BY <6>1
          <6>5. QED
            BY <5>5, <6>2, <6>3, <6>4, Zenon DEF e
        <5>7. p = Append(z, W[j + 1])
          <6> HIDE DEF p, q
          <6>1. \A i \in 1 .. Len(p) : p[i] = Append(z, W[j + 1])[i]
            BY <5>2, <5>6, Zenon
          <6>2. QED
            BY <5>2, <5>6, <6>1, SeqEqual
        <5>8. QED
          BY <5>7, Zenon DEF z
      <4>4. QED
        BY <4>2, <4>3, Zenon
    <3>7. after = ReadNext(w, refused, before, j + 1)
      <4> DEFINE c == SubSeq(W, 1, j + 1)
                 d == Append(SubSeq(W, 1, j), Call(buffers[j + 1], j + 1 = n, n))
                 r == IF j + 1 = refused THEN "E_REFUSED" ELSE "E_OK"
                 o == 1 + Span(s, j + 1)
      <4>1. /\ c = d /\ after = [rc |-> r, calls |-> c, offset |-> o]
            /\ ReadNext(w, refused, before, j + 1) = [rc |-> r, calls |-> d, offset |-> o]
        BY <3>3, <3>5, <3>6
      <4> HIDE DEF c, d, r, o
      <4>2. QED
        BY <4>1
    <3>8. QED
      BY <3>7 DEF w, before, after
  <2>7. QED
    BY <2>5, <2>6
<1>11. QED
  BY <1>9, <1>10

(* What the reader makes of the payload of a batch, for every batch and    *)
(* every refusal.                                                          *)
LEMMA BatchReadsBack ==
    ASSUME NEW buffers \in Seq(Seq(Int)), NEW refused \in Nat
    PROVE  ReadBatch(WriteBatch(buffers), refused) =
             [rc |-> IF refused \in 1 .. Given(buffers) THEN "E_REFUSED"
                     ELSE IF EndsEmpty(buffers) THEN "E_END_OF_STREAM" ELSE "E_OK",
              calls |-> SubSeq(Written(buffers), 1, Stop(buffers, refused))]
<1> DEFINE n == Len(buffers)
           g == Given(buffers)
           k == Stop(buffers, refused)
           w == WriteBatch(buffers)
           W == Written(buffers)
           f == [i \in 0 .. n |-> After(buffers, refused, i)]
<1>1. /\ n \in Nat /\ g \in Nat /\ g <= n /\ n <= g + 1 /\ (EndsEmpty(buffers) <=> g # n)
      /\ k \in Nat /\ k <= g
      /\ k = IF refused \in 1 .. g THEN refused ELSE g
  BY GivenParts DEF Stop
<1>2. w[1] = n
  BY WriteBatchParts
<1>3. \A i \in 0 .. n : f[i] = After(buffers, refused, i)
  OBVIOUS
<1>4. f = [i \in 0 .. n |-> f[i]]
  OBVIOUS
<1>5. Reached(buffers, refused, 0) = 0 /\ Reached(buffers, refused, n) = k
  BY <1>1 DEF Reached
<1> HIDE DEF f, n, g, k, w, W
<1>6. f[0] = First
  <2>1. 0 \in 0 .. n
    BY <1>1
  <2>2. Span(Items(buffers), 0) = 0
    BY ItemsType, SpanEnds
  <2>3. SubSeq(W, 1, 0) = <<>>
    BY SubSeqEmpty
  <2>4. ~ (refused \in 1 .. g /\ 0 >= refused) /\ ~ (0 > g)
    BY <1>1
  <2>5. 1 + Span(Items(buffers), 0) = 1
    BY <2>2
  <2>6. After(buffers, refused, 0) =
          [rc |-> IF refused \in 1 .. g /\ 0 >= refused THEN "E_REFUSED"
                  ELSE IF 0 > g THEN "E_END_OF_STREAM" ELSE "E_OK",
           calls |-> SubSeq(W, 1, 0), offset |-> 1 + Span(Items(buffers), 0)]
    BY <1>5, Zenon DEF After, g, W
  <2>7. QED
    BY <1>3, <2>1, <2>3, <2>4, <2>5, <2>6, Zenon DEF First
<1>7. ASSUME NEW j \in 0 .. n - 1 PROVE f[j + 1] = ReadNext(w, refused, f[j], j + 1)
  <2>1. j \in 0 .. n /\ j + 1 \in 0 .. n
    BY <1>1
  <2>2. After(buffers, refused, j + 1) = ReadNext(w, refused, After(buffers, refused, j), j + 1)
    BY AfterStep DEF w, n
  <2>3. QED
    BY <1>3, <2>1, <2>2, Zenon
<1>8. ReadBatch(w, refused) = [rc |-> f[n].rc, calls |-> f[n].calls]
  <2>1. IsLoop(f, w, refused, n)
    BY <1>4, <1>6, <1>7, Zenon DEF IsLoop
  <2>2. QED
    BY <1>1, <1>2, <2>1, BatchLoop
<1>9. f[n] = [rc |-> IF refused \in 1 .. g /\ n >= refused THEN "E_REFUSED"
                     ELSE IF n > g THEN "E_END_OF_STREAM" ELSE "E_OK",
              calls |-> SubSeq(W, 1, k), offset |-> 1 + Span(Items(buffers), k)]
  <2>1. n \in 0 .. n
    BY <1>1
  <2>2. f[n] = After(buffers, refused, n)
    BY <1>3, <2>1
  <2>3. QED
    BY <1>5, <2>2, Zenon DEF After, g, W
<1>10. (refused \in 1 .. g /\ n >= refused <=> refused \in 1 .. g) /\ (n > g <=> EndsEmpty(buffers))
  BY <1>1
<1>11. /\ f[n].rc = IF refused \in 1 .. g THEN "E_REFUSED"
                    ELSE IF EndsEmpty(buffers) THEN "E_END_OF_STREAM" ELSE "E_OK"
       /\ f[n].calls = SubSeq(W, 1, k)
  <2> DEFINE c == SubSeq(W, 1, k)
             o == 1 + Span(Items(buffers), k)
             r == IF refused \in 1 .. g THEN "E_REFUSED"
                  ELSE IF EndsEmpty(buffers) THEN "E_END_OF_STREAM" ELSE "E_OK"
             l == f[n]
  <2>1. l = [rc |-> r, calls |-> c, offset |-> o]
    BY <1>9, <1>10, Zenon
  <2> HIDE DEF c, o, r, l
  <2>2. l.rc = r /\ l.calls = c
    BY <2>1
  <2>3. QED
    BY <2>2, Zenon DEF l, r, c
<1>12. QED
  BY <1>8, <1>11, Zenon DEF w, W, g, k

(* What MsgFrameWriter writes, MsgFrameReader reads back: for every        *)
(* application message, single or batch, compressed or not, with any       *)
(* number of buffers of any length, and for every record that the listener *)
(* may refuse.                                                             *)
THEOREM FrameIsReadBack ==
    ASSUME NEW app \in App, ~ app.batch => Len(app.buffers) = 1,
           NEW refused \in 0 .. Len(app.buffers)
    PROVE  ReadsBack(app, FrameOf(app), refused)
<1> DEFINE buffers == app.buffers
           p == Plain(app)
           frame == FrameOf(app)
           n == Len(buffers)
<1>1. /\ p \in Seq(Int) /\ app.batch \in BOOLEAN /\ app.compressed \in BOOLEAN
      /\ buffers \in Seq(Seq(Int))
      /\ frame = Frame(app.batch, app.compressed, n, p)
  BY FrameParts
<1>2. n \in Nat /\ refused \in Nat
  BY <1>1
<1> HIDE DEF p, frame
<1>3. /\ frame.batch = app.batch /\ frame.compressed = app.compressed /\ frame.batchSize = n
      /\ frame.uncompressedLength = IF app.compressed THEN Len(p) ELSE 0
      /\ frame.payload = IF app.compressed THEN Compress(p) ELSE p
  BY <1>1 DEF Frame
<1>4. Decompress(Compress(p)) = p
  BY <1>1 DEF Compress, Decompress, GzipMark
<1> DEFINE plain == IF frame.compressed THEN Decompress(frame.payload) ELSE frame.payload
<1>5. plain = p /\ ~ (frame.compressed /\ Len(plain) # frame.uncompressedLength)
  <2>1. plain = p
    BY <1>3, <1>4, Zenon
  <2>2. QED
    BY <1>3, <2>1, Zenon
<1> HIDE DEF plain
<1> DEFINE read == ReadMsgFrame(frame, refused)
<1>6. read = IF ~ frame.batch
             THEN [rc |-> IF refused = 1 THEN "E_REFUSED" ELSE "E_OK",
                   calls |-> <<Call(p, TRUE, 1)>>]
             ELSE IF p = <<>> THEN [rc |-> "E_END_OF_STREAM", calls |-> <<>>]
             ELSE IF p[1] # frame.batchSize THEN [rc |-> "E_DATA_CORRUPT", calls |-> <<>>]
             ELSE ReadBatch(p, refused)
  BY <1>5, Zenon DEF ReadMsgFrame, plain
<1> HIDE DEF read
<1>7. CASE app.batch
  <2>1. /\ p = WriteBatch(buffers) /\ p[1] = n /\ p # <<>>
    <3>1. p = WriteBatch(buffers)
      BY <1>7, Zenon DEF Plain, p
    <3>2. /\ WriteBatch(buffers)[1] = n /\ Len(WriteBatch(buffers)) = 1 + Len(FlattenSeq(Items(buffers)))
          /\ FlattenSeq(Items(buffers)) \in Seq(Int)
      BY <1>1, WriteBatchParts
    <3>3. Len(p) # 0
      BY <3>1, <3>2
    <3>4. p # <<>>
      BY <3>3
    <3>5. QED
      BY <3>1, <3>2, <3>4, Zenon
  <2>2. read = ReadBatch(WriteBatch(buffers), refused)
    BY <1>3, <1>6, <1>7, <2>1, Zenon
  <2>3. read = [rc |-> IF refused \in 1 .. Given(buffers) THEN "E_REFUSED"
                       ELSE IF EndsEmpty(buffers) THEN "E_END_OF_STREAM" ELSE "E_OK",
                calls |-> SubSeq(Written(buffers), 1, Stop(buffers, refused))]
    BY <1>1, <1>2, <2>2, BatchReadsBack
  <2>4. /\ read.rc = IF refused \in 1 .. Given(buffers) THEN "E_REFUSED"
                     ELSE IF EndsEmpty(buffers) THEN "E_END_OF_STREAM" ELSE "E_OK"
        /\ read.calls = SubSeq(Written(buffers), 1, Stop(buffers, refused))
    BY <2>3
  <2>5. Given(buffers) = IF app.batch /\ EndsEmpty(buffers) THEN n - 1 ELSE n
    BY <1>7, Zenon DEF Given
  <2>6. CASE refused \in 1 .. Given(buffers)
    <3>1. read.rc = "E_REFUSED" /\ read.calls = SubSeq(Written(buffers), 1, refused)
      BY <2>4, <2>6, Zenon DEF Stop
    <3>2. QED
      BY <2>5, <2>6, <3>1, Zenon DEF ReadsBack, read, frame
  <2>7. CASE ~ (refused \in 1 .. Given(buffers))
    <3>1. /\ read.rc = IF app.batch /\ EndsEmpty(buffers) THEN "E_END_OF_STREAM" ELSE "E_OK"
          /\ read.calls = SubSeq(Written(buffers), 1, Given(buffers))
      BY <1>7, <2>4, <2>7, Zenon DEF Stop
    <3>2. QED
      BY <2>5, <2>7, <3>1, Zenon DEF ReadsBack, read, frame
  <2>8. QED
    BY <2>6, <2>7
<1>8. CASE ~ app.batch
  <2>1. n = 1 /\ p = buffers[1]
    BY <1>8, Zenon DEF Plain, p
  <2>2. read = [rc |-> IF refused = 1 THEN "E_REFUSED" ELSE "E_OK",
                calls |-> <<Call(buffers[1], TRUE, 1)>>]
    BY <1>3, <1>6, <1>8, <2>1, Zenon
  <2>3. /\ read.rc = IF refused = 1 THEN "E_REFUSED" ELSE "E_OK"
        /\ read.calls = <<Call(buffers[1], TRUE, 1)>>
    BY <2>2
  <2>4. SubSeq(Written(buffers), 1, 1) = <<Call(buffers[1], TRUE, 1)>>
    <3>1. PICK S : Written(buffers) \in Seq(S)
      BY <1>1, WrittenParts
    <3>2. Len(Written(buffers)) = 1
      BY <1>1, <2>1, WrittenParts
    <3>3. Written(buffers)[1] = Call(buffers[1], TRUE, 1)
      <4>1. 1 \in 1 .. n /\ (1 = n) = TRUE
        BY <2>1
      <4>2. Written(buffers)[1] = Call(buffers[1], 1 = n, n)
        BY <1>1, <4>1, WrittenParts
      <4>3. QED
        BY <2>1, <4>1, <4>2, Zenon
    <3>4. SubSeq(Written(buffers), 1, 1) = <<Written(buffers)[1]>>
      <4> DEFINE w == Written(buffers)
                 z == SubSeq(w, 1, 1)
      <4>1. w \in Seq(S) /\ Len(w) = 1 /\ 1 \in 1 .. Len(w)
        BY <3>1, <3>2
      <4> HIDE DEF w
      <4>2. w[1] \in S
        BY <4>1, ElementOfSeq
      <4>3. z \in Seq(S) /\ Len(z) = 1 /\ z[1] = w[1]
        BY <4>1
      <4>4. <<w[1]>> \in Seq(S) /\ Len(<<w[1]>>) = 1 /\ <<w[1]>>[1] = w[1]
        BY <4>2
      <4> HIDE DEF z
      <4>5. \A i \in 1 .. Len(z) : z[i] = <<w[1]>>[i]
        BY <4>3, <4>4
      <4>6. z = <<w[1]>>
        BY <4>3, <4>4, <4>5, SeqEqual
      <4>7. QED
        BY <4>6, Zenon DEF z, w
    <3>5. QED
      BY <3>3, <3>4, Zenon
  <2>5. (refused \in 1 .. 1 <=> refused = 1) /\ n = (IF app.batch /\ EndsEmpty(buffers) THEN n - 1 ELSE n)
    BY <1>2, <1>8
  <2>6. CASE refused = 1
    BY <1>8, <2>1, <2>3, <2>4, <2>5, <2>6, Zenon DEF ReadsBack, read, frame
  <2>7. CASE refused # 1
    BY <1>8, <2>1, <2>3, <2>4, <2>5, <2>7, Zenon DEF ReadsBack, read, frame
  <2>8. QED
    BY <2>6, <2>7
<1>9. QED
  BY <1>1, <1>7, <1>8

===============================================================================
