-------------------------- MODULE DatastreamProofs --------------------------
(***************************************************************************)
(* Theorems about Datastream: the chunked send queue implements ByteQueue, *)
(* for any requests, chunk size, limit and socket.                         *)
(*                                                                         *)
(* The inductive invariant (Inv) is that both queues are a GoodQueue: only *)
(* the last chunk is ever empty, and it is then free from its start, as    *)
(* sendq_flush(), recvq_put() and recvq_getline() leave it.  With it,      *)
(* Consume takes exactly the bytes the socket took off the front           *)
(* (ConsumeResult) and Fill appends exactly the bytes it is given          *)
(* (FillResult), so that each action is a Put, Refuse, Send or Drop of the *)
(* abstract queue or leaves it alone.                                      *)
(*                                                                         *)
(* For the lines, the invariant (SplitInv) is that the bytes of the stream *)
(* that were taken from the receive queue are split into the lines given   *)
(* to parse(), with nothing begun, and the queue holds the other bytes     *)
(* read, in order, with a newline at most in its last chunk: so what       *)
(* recvq_getline() takes ends a line or fills one (TakenResult).           *)
(*                                                                         *)
(* What holds of every list of chunks is proved by induction over the set  *)
(* of the lengths it holds for, from the least number outside of it        *)
(* (NatInductionSet, ChunkInduction).                                      *)
(***************************************************************************)
EXTENDS Datastream, SequenceTheorems, FiniteSetTheorems, WellFoundedInduction, TLAPS

-----------------------------------------------------------------------------
(* Induction over the natural numbers, for a set of them. *)

LEMMA LeastNat ==
    ASSUME NEW T \in SUBSET Nat, T # {}
    PROVE  \E n \in T : \A m \in T : n <= m
  <1> DEFINE R == {ss \in Nat \X Nat : ss[1] < ss[2]}
  <1>1. IsWellFoundedOn(R, Nat)
    BY NatLessThanWellFounded DEF OpToRel
  <1>2. \E x \in T : \A y \in T : <<y, x>> \notin R
    <2> HIDE DEF R
    <2> QED BY <1>1, WFMin
  <1>3. \A x, y \in Nat : <<y, x>> \in R <=> y < x
    OBVIOUS
  <1> HIDE DEF R
  <1>4. PICK x \in T : \A y \in T : <<y, x>> \notin R
    BY <1>2
  <1>5. \A m \in T : ~(m < x)
    BY <1>3, <1>4
  <1> QED BY <1>5

LEMMA NatInductionSet ==
    ASSUME NEW S, 0 \in S, \A n \in Nat : n \in S => n + 1 \in S
    PROVE  Nat \subseteq S
  <1> SUFFICES ASSUME ~(Nat \subseteq S) PROVE FALSE
    OBVIOUS
  <1>1. PICK n \in Nat \ S : \A m \in Nat \ S : n <= m
    BY LeastNat
  <1>2. n # 0 /\ n - 1 \in Nat /\ n - 1 \in S
    BY <1>1
  <1> QED BY <1>1, <1>2

-----------------------------------------------------------------------------
(* The contents of a list of chunks. *)

\* The recursive function in FlattenSeq.
Flattens(s, n, f) == f = [i \in 1 .. n |-> IF i = 1 THEN s[i] ELSE f[i - 1] \o s[i]]

LEMMA FlattenAt ==
    ASSUME NEW s, NEW n \in Nat, NEW f, Flattens(s, n, f), NEW i \in 1 .. n
    PROVE  f[i] = IF i = 1 THEN s[i] ELSE f[i - 1] \o s[i]
  BY Zenon DEF Flattens

LEMMA FlattenExists ==
    ASSUME NEW s, NEW n \in Nat
    PROVE  \E f : Flattens(s, n, f)
  <1> DEFINE S == {m \in Nat : \E f : Flattens(s, m, f)}
  <1>1. 0 \in S
    <2>1. Flattens(s, 0, [i \in 1 .. 0 |-> s])
      BY DEF Flattens
    <2> QED BY <2>1
  <1>2. ASSUME NEW m \in Nat, m \in S PROVE m + 1 \in S
    <2>1. PICK f : Flattens(s, m, f)
      BY <1>2
    <2> DEFINE g == [i \in 1 .. m + 1 |-> IF i = 1 THEN s[i] ELSE f[i - 1] \o s[i]]
    <2>2. ASSUME NEW i \in 1 .. m PROVE g[i] = f[i]
      <3>1. i \in 1 .. m + 1
        OBVIOUS
      <3>2. g[i] = IF i = 1 THEN s[i] ELSE f[i - 1] \o s[i]
        BY <3>1, Zenon
      <3> HIDE DEF g
      <3> QED BY <3>2, <2>1, FlattenAt
    <2>3. g = [i \in 1 .. m + 1 |-> IF i = 1 THEN s[i] ELSE g[i - 1] \o s[i]]
      <3>1. \A i \in 1 .. m + 1 : i # 1 => i - 1 \in 1 .. m
        OBVIOUS
      <3>2. \A i \in 1 .. m + 1 : i # 1 => g[i - 1] = f[i - 1]
        BY <3>1, <2>2
      <3> QED BY <3>2
    <2>4. Flattens(s, m + 1, g)
      BY <2>3, Zenon DEF Flattens
    <2> QED BY <2>4
  <1> HIDE DEF S
  <1>3. Nat \subseteq S
    BY <1>1, <1>2, NatInductionSet
  <1> QED BY <1>3 DEF S

\* Two such functions agree as far as the sequences do.
LEMMA FlattenAgree ==
    ASSUME NEW s, NEW t, NEW m \in Nat, NEW n \in Nat, m <= n,
           NEW f, NEW g, Flattens(s, m, f), Flattens(t, n, g),
           \A i \in 1 .. m : s[i] = t[i]
    PROVE  \A i \in 1 .. m : f[i] = g[i]
  <1> DEFINE S == {j \in Nat : j + 1 \in 1 .. m => f[j + 1] = g[j + 1]}
  <1>1. 0 \in S
    <2> SUFFICES ASSUME 1 \in 1 .. m PROVE f[1] = g[1]
      OBVIOUS
    <2>1. 1 \in 1 .. n
      OBVIOUS
    <2>2. f[1] = s[1] /\ g[1] = t[1]
      BY <2>1, FlattenAt
    <2> QED BY <2>2
  <1>2. ASSUME NEW j \in Nat, j \in S PROVE j + 1 \in S
    <2> SUFFICES ASSUME j + 2 \in 1 .. m PROVE f[j + 2] = g[j + 2]
      OBVIOUS
    <2>0. j + 2 \in 1 .. n /\ j + 2 # 1 /\ (j + 2) - 1 = j + 1
      OBVIOUS
    <2>a. f[j + 2] = IF j + 2 = 1 THEN s[j + 2] ELSE f[(j + 2) - 1] \o s[j + 2]
      BY Zenon DEF Flattens
    <2>b. g[j + 2] = IF j + 2 = 1 THEN t[j + 2] ELSE g[(j + 2) - 1] \o t[j + 2]
      BY <2>0, Zenon DEF Flattens
    <2>1. f[j + 2] = f[j + 1] \o s[j + 2] /\ g[j + 2] = g[j + 1] \o t[j + 2]
      BY <2>0, <2>a, <2>b
    <2>2. f[j + 1] = g[j + 1]
      BY <1>2
    <2> QED BY <2>1, <2>2
  <1> HIDE DEF S
  <1>3. Nat \subseteq S
    BY <1>1, <1>2, NatInductionSet
  <1>4. ASSUME NEW i \in 1 .. m PROVE f[i] = g[i]
    <2>1. i - 1 \in S
      BY <1>3
    <2> QED BY <2>1 DEF S
  <1> QED BY <1>4

LEMMA FlattenValue ==
    ASSUME NEW s, NEW n \in Nat \ {0}, Len(s) = n
    PROVE  \E f : Flattens(s, n, f) /\ FlattenSeq(s) = f[n]
  <1> DEFINE F == CHOOSE f : f = [i \in 1 .. Len(s) |-> IF i = 1 THEN s[i] ELSE f[i - 1] \o s[i]]
  <1>1. FlattenSeq(s) = F[n]
    BY DEF FlattenSeq
  <1>2. \E f : Flattens(s, n, f)
    BY FlattenExists
  <1>3. Flattens(s, n, F)
    BY <1>2 DEF Flattens
  <1> QED BY <1>1, <1>3

LEMMA FlattenEmpty == FlattenSeq(<<>>) = <<>>
  BY DEF FlattenSeq

\* A sequence s of sequences and t, which has one more, e.
OneMore(s, t, n, m, f, g) ==
    /\ n \in Nat /\ n > 0 /\ m = n + 1 /\ Flattens(s, n, f) /\ Flattens(t, m, g)
    /\ \A i \in 1 .. n : s[i] = t[i]

Continues(t, n, m, f, g) == g[m] = f[n] \o t[m]

LEMMA FlattenOneMore ==
    ASSUME NEW s, NEW t, NEW n, NEW m, NEW f, NEW g, OneMore(s, t, n, m, f, g)
    PROVE  Continues(t, n, m, f, g)
  <1>a. n \in Nat /\ n > 0 /\ m = n + 1 /\ m \in Nat
    BY DEF OneMore
  <1>b. Flattens(s, n, f) /\ Flattens(t, m, g) /\ \A i \in 1 .. n : s[i] = t[i]
    BY DEF OneMore
  <1>1. n <= m /\ n \in 1 .. n
    BY <1>a
  <1>2. \A i \in 1 .. n : f[i] = g[i]
    BY <1>a, <1>b, <1>1, FlattenAgree
  <1>3. m \in 1 .. m /\ m # 1 /\ m - 1 = n
    BY <1>a
  <1>4. g[m] = IF m = 1 THEN t[m] ELSE g[m - 1] \o t[m]
    BY <1>b, <1>3, Zenon DEF Flattens
  <1> QED BY <1>1, <1>2, <1>3, <1>4 DEF Continues

LEMMA FlattenAppend ==
    ASSUME NEW T, NEW s \in Seq(Seq(T)), NEW e \in Seq(T)
    PROVE  FlattenSeq(Append(s, e)) = FlattenSeq(s) \o e
  <1>1. PICK t : t = Append(s, e)
    OBVIOUS
  <1>2. PICK n \in Nat : n = Len(s)
    OBVIOUS
  <1>3. PICK m \in Nat : m = n + 1
    OBVIOUS
  <1>4. Len(t) = m /\ t[m] = e /\ \A i \in 1 .. n : s[i] = t[i]
    BY <1>1, <1>2, <1>3
  <1>5. m \in Nat \ {0}
    BY <1>3
  <1>6. PICK g : Flattens(t, m, g) /\ FlattenSeq(t) = g[m]
    BY <1>4, <1>5, FlattenValue, Zenon
  <1>7. CASE n = 0
    <2>1. s = <<>> /\ m = 1 /\ 1 \in 1 .. m
      <3>1. Len(s) = 0
        BY <1>2, <1>7
      <3> QED BY <3>1, <1>3, <1>7
    <2>2. g[1] = IF 1 = 1 THEN t[1] ELSE g[1 - 1] \o t[1]
      BY <1>6, <2>1, Zenon DEF Flattens
    <2>3. <<>> \o e = e
      OBVIOUS
    <2> QED BY <2>1, <2>2, <2>3, <1>1, <1>4, <1>6, FlattenEmpty
  <1>8. CASE n > 0
    <2>1. n \in Nat \ {0}
      BY <1>8
    <2>2. PICK f : Flattens(s, n, f) /\ FlattenSeq(s) = f[n]
      BY <1>2, <2>1, FlattenValue, Zenon
    <2>3. g[m] = f[n] \o t[m]
      <3>1. OneMore(s, t, n, m, f, g)
        BY <1>3, <1>4, <1>6, <1>8, <2>2, Zenon DEF OneMore
      <3>2. Continues(t, n, m, f, g)
        BY <3>1, FlattenOneMore
      <3> QED BY <3>2, Zenon DEF Continues
    <2> QED BY <2>2, <2>3, <1>1, <1>4, <1>6
  <1> QED BY <1>7, <1>8

AChunk == [data : Seq(Nat), firstfree : Nat]

LEMMA ContentsEmpty == Contents(<<>>) = <<>>
  <1>1. [i \in 1 .. Len(<<>>) |-> <<>>[i].data] = <<>>
    OBVIOUS
  <1> QED BY <1>1, FlattenEmpty DEF Contents

LEMMA ContentsAppend ==
    ASSUME NEW q \in Seq(AChunk), NEW c \in AChunk
    PROVE  Contents(Append(q, c)) = Contents(q) \o c.data
  <1> DEFINE d(r) == [i \in 1 .. Len(r) |-> r[i].data]
  <1>1. d(q) \in Seq(Seq(Nat)) /\ c.data \in Seq(Nat)
    <2>1. \A x \in AChunk : x.data \in Seq(Nat)
      BY DEF AChunk
    <2>2. \A i \in 1 .. Len(q) : q[i] \in AChunk
      OBVIOUS
    <2>3. Len(q) \in Nat
      OBVIOUS
    <2>4. \A i \in 1 .. Len(q) : q[i].data \in Seq(Nat)
      BY <2>1, <2>2
    <2> QED BY <2>1, <2>3, <2>4
  <1>2. d(Append(q, c)) = Append(d(q), c.data)
    OBVIOUS
  <1> HIDE DEF d
  <1>3. FlattenSeq(Append(d(q), c.data)) = FlattenSeq(d(q)) \o c.data
    BY <1>1, FlattenAppend
  <1> QED BY <1>2, <1>3 DEF Contents, d

\* Induction over lists of chunks, for a set of them.
LEMMA ChunkInduction ==
    ASSUME NEW S, <<>> \in S,
           \A q \in Seq(AChunk), c \in AChunk : q \in S => Append(q, c) \in S
    PROVE  Seq(AChunk) \subseteq S
  <1> DEFINE N == {n \in Nat : \A q \in Seq(AChunk) : Len(q) = n => q \in S}
  <1>1. 0 \in N
    <2>1. \A q \in Seq(AChunk) : Len(q) = 0 => q = <<>>
      OBVIOUS
    <2> QED BY <2>1
  <1>2. ASSUME NEW n \in Nat, n \in N PROVE n + 1 \in N
    <2> SUFFICES ASSUME NEW q \in Seq(AChunk), Len(q) = n + 1 PROVE q \in S
      OBVIOUS
    <2>1. q # <<>>
      OBVIOUS
    <2>2. PICK r \in Seq(AChunk), c \in AChunk : q = Append(r, c)
      BY <2>1, SequenceEmptyOrAppend
    <2>3. Len(r) = n
      BY <2>2
    <2> QED BY <2>2, <2>3, <1>2
  <1> HIDE DEF N
  <1>3. Nat \subseteq N
    BY <1>1, <1>2, NatInductionSet
  <1>4. \A q \in Seq(AChunk) : Len(q) \in N
    BY <1>3
  <1> QED BY <1>4 DEF N

LEMMA ContentsType == \A q \in Seq(AChunk) : Contents(q) \in Seq(Nat)
  <1> DEFINE S == {q \in Seq(AChunk) : Contents(q) \in Seq(Nat)}
  <1>1. <<>> \in S
    <2>1. <<>> \in Seq(AChunk) /\ <<>> \in Seq(Nat)
      OBVIOUS
    <2> QED BY <2>1, ContentsEmpty, Zenon
  <1>2. ASSUME NEW q \in Seq(AChunk), NEW c \in AChunk, q \in S PROVE Append(q, c) \in S
    <2>1. Contents(q) \in Seq(Nat) /\ c.data \in Seq(Nat)
      BY <1>2 DEF AChunk
    <2>2. Contents(q) \o c.data \in Seq(Nat)
      BY <2>1, ConcatProperties
    <2>3. Contents(Append(q, c)) = Contents(q) \o c.data /\ Append(q, c) \in Seq(AChunk)
      BY ContentsAppend
    <2> QED BY <2>2, <2>3, Zenon
  <1> HIDE DEF S
  <1>3. Seq(AChunk) \subseteq S
    BY <1>1, <1>2, ChunkInduction
  <1> QED BY <1>3 DEF S

LEMMA ConcatAssoc == \A a, b, c \in Seq(Nat) : (a \o b) \o c = a \o (b \o c)
  BY ConcatAssociative, SMTT(60)

Regroups(x, y, p, z) == (x \o (y \o p)) \o z = (x \o y) \o (p \o z)

LEMMA Regroup ==
    ASSUME NEW x \in Seq(Nat), NEW y \in Seq(Nat), NEW p \in Seq(Nat), NEW z \in Seq(Nat)
    PROVE  Regroups(x, y, p, z)
  <1>0. x \o y \in Seq(Nat)
    OBVIOUS
  <1>1. (x \o y) \o p = x \o (y \o p)
    BY ConcatAssoc, ZenonT(60)
  <1>2. ((x \o y) \o p) \o z = (x \o y) \o (p \o z)
    BY <1>0, ConcatAssoc, ZenonT(60)
  <1> QED BY <1>1, <1>2, Zenon DEF Regroups

LEMMA PutFront ==
    ASSUME NEW c \in AChunk, NEW r \in Seq(AChunk), NEW n, n = Len(r) + 1
    PROVE  /\ <<c>> \o r \in Seq(AChunk) /\ Len(<<c>> \o r) = n /\ (<<c>> \o r)[1] = c
           /\ \A i \in 2 .. n : (<<c>> \o r)[i] = r[i - 1]
  OBVIOUS

LEMMA ContentsConcat ==
    ASSUME NEW p \in Seq(AChunk)
    PROVE  \A q \in Seq(AChunk) : Contents(p \o q) = Contents(p) \o Contents(q)
  <1> DEFINE S == {q \in Seq(AChunk) : Contents(p \o q) = Contents(p) \o Contents(q)}
  <1>1. <<>> \in S
    BY ContentsEmpty, ContentsType, ConcatEmptySeq
  <1>2. ASSUME NEW q \in Seq(AChunk), NEW c \in AChunk, q \in S PROVE Append(q, c) \in S
    <2>1. p \o Append(q, c) = Append(p \o q, c) /\ p \o q \in Seq(AChunk)
      OBVIOUS
    <2>2. Contents(p \o Append(q, c)) = (Contents(p) \o Contents(q)) \o c.data
      BY <1>2, <2>1, ContentsAppend
    <2>3. c.data \in Seq(Nat) /\ Contents(p) \in Seq(Nat) /\ Contents(q) \in Seq(Nat)
      BY ContentsType DEF AChunk
    <2>4. (Contents(p) \o Contents(q)) \o c.data = Contents(p) \o (Contents(q) \o c.data)
      BY <2>3, ConcatAssoc, Zenon
    <2>5. Contents(Append(q, c)) = Contents(q) \o c.data /\ Append(q, c) \in Seq(AChunk)
      BY ContentsAppend
    <2> QED BY <2>2, <2>4, <2>5, Zenon
  <1> HIDE DEF S
  <1>3. Seq(AChunk) \subseteq S
    BY <1>1, <1>2, ChunkInduction
  <1> QED BY <1>3 DEF S

-----------------------------------------------------------------------------
(* Arithmetic, and parts of sequences. *)

\* How many chunks of S bytes hold L bytes.
LEMMA CeilDiv ==
    ASSUME NEW S \in Nat \ {0}, NEW L \in Nat
    PROVE  LET N == (L + S - 1) \div S
           IN  N \in Nat /\ N * S >= L /\ N * S < L + S
  OBVIOUS

LEMMA TimesNext == \A S, i \in Nat : i * S \in Nat /\ (i + 1) * S = i * S + S
  OBVIOUS

LEMMA TimesMono == \A S, i, j \in Nat : i <= j => i * S <= j * S
  OBVIOUS

LEMMA MinTwo == \A a, b \in Nat : Min({a, b}) = IF a <= b THEN a ELSE b
  BY DEF Min

LEMMA SubOne ==
    ASSUME NEW T, NEW q \in Seq(T), NEW i \in 1 .. Len(q)
    PROVE  SubSeq(q, 1, i) = Append(SubSeq(q, 1, i - 1), q[i])
  OBVIOUS

LEMMA SubJoin ==
    ASSUME NEW T, NEW b \in Seq(T), NEW i \in 0 .. Len(b), NEW j \in i .. Len(b)
    PROVE  SubSeq(b, 1, i) \o SubSeq(b, i + 1, j) = SubSeq(b, 1, j)
  OBVIOUS

\* What follows the first k bytes of a, d and r, of which j are in d.
AfterCut(a, d, r, j, k, n) ==
    SubSeq((a \o d) \o r, k + 1, n) = SubSeq(d, j + 1, Len(d)) \o r

LEMMA SubCutSeq ==
    ASSUME NEW T, NEW a \in Seq(T), NEW d \in Seq(T), NEW r \in Seq(T), NEW j \in 0 .. Len(d),
           NEW k, k = Len(a) + j, NEW n, n = Len(a) + Len(d) + Len(r)
    PROVE  AfterCut(a, d, r, j, k, n)
  <1> DEFINE u == (a \o d) \o r
             x == SubSeq(u, k + 1, n)
             y == SubSeq(d, j + 1, Len(d)) \o r
  <1>1. u \in Seq(T) /\ Len(u) = n
    OBVIOUS
  <1>2. \A i \in 1 .. n - k : u[k + i] = IF i <= Len(d) - j THEN d[j + i] ELSE r[i - (Len(d) - j)]
    OBVIOUS
  <1>3. x \in Seq(T) /\ Len(x) = n - k /\ \A i \in 1 .. n - k : x[i] = u[k + i]
    <2>1. n \in Nat /\ k \in Nat /\ k <= n
      OBVIOUS
    <2> HIDE DEF u
    <2>2. \A i \in k + 1 .. n : u[i] \in T
      BY <1>1, <2>1
    <2>3. /\ x \in Seq(T)
          /\ Len(x) = IF k + 1 <= n THEN n - (k + 1) + 1 ELSE 0
          /\ \A i \in 1 .. n - (k + 1) + 1 : x[i] = u[k + 1 + i - 1]
      BY <2>1, <2>2, SubSeqProperties
    <2> HIDE DEF x
    <2>4. n - (k + 1) + 1 = n - k /\ \A i \in 1 .. n - k : k + 1 + i - 1 = k + i
      BY <2>1
    <2> QED BY <2>1, <2>3, <2>4
  <1>4. y \in Seq(T) /\ Len(y) = n - k /\ \A i \in 1 .. n - k : y[i] = IF i <= Len(d) - j THEN d[j + i] ELSE r[i - (Len(d) - j)]
    OBVIOUS
  <1> HIDE DEF u, x, y
  <1>5. \A i \in 1 .. Len(x) : x[i] = y[i]
    BY <1>2, <1>3, <1>4
  <1>6. x = y
    BY <1>3, <1>4, <1>5, SeqEqual
  <1> QED BY <1>6, Zenon DEF x, y, u, AfterCut

Cut(a, d, r, j, k, n) ==
    /\ a \in Seq(Nat) /\ d \in Seq(Nat) /\ r \in Seq(Nat) /\ j \in 0 .. Len(d)
    /\ k = Len(a) + j /\ n = Len(a) + Len(d) + Len(r)

LEMMA SubCut ==
    ASSUME NEW a, NEW d, NEW r, NEW j, NEW k, NEW n, Cut(a, d, r, j, k, n)
    PROVE  AfterCut(a, d, r, j, k, n)
  <1>0. /\ a \in Seq(Nat) /\ d \in Seq(Nat) /\ r \in Seq(Nat) /\ j \in 0 .. Len(d)
        /\ k = Len(a) + j /\ n = Len(a) + Len(d) + Len(r)
    BY DEF Cut
  <1> QED BY <1>0, SubCutSeq

LEMMA Sub3 ==
    ASSUME NEW T, NEW q \in Seq(T), NEW i \in 0 .. Len(q), i < Len(q)
    PROVE  q = (SubSeq(q, 1, i) \o <<q[i+1]>>) \o SubSeq(q, i + 2, Len(q))
  <1>1. SubSeq(q, 1, i) \o <<q[i+1]>> = SubSeq(q, 1, i + 1)
    OBVIOUS
  <1>2. SubSeq(q, 1, i + 1) \o SubSeq(q, (i + 1) + 1, Len(q)) = SubSeq(q, 1, Len(q))
    <2>1. 1 \in 1 .. Len(q) + 1 /\ i + 1 \in 1 - 1 .. Len(q) /\ Len(q) \in i + 1 .. Len(q)
      OBVIOUS
    <2> QED BY <2>1, ConcatAdjacentSubSeq
  <1>3. SubSeq(q, 1, Len(q)) = q
    OBVIOUS
  <1>4. (i + 1) + 1 = i + 2
    OBVIOUS
  <1> QED BY <1>1, <1>2, <1>3, <1>4

-----------------------------------------------------------------------------
(* A queue as sendq_add(), sendq_flush() and the receive side leave it. *)

\* Only the last chunk may be empty, and then all of it is free.
GoodQueue(q) ==
    /\ q \in Seq(AChunk)
    /\ \A i \in 1 .. Len(q) :
          /\ Len(q[i].data) <= q[i].firstfree
          /\ q[i].firstfree <= SENDQSIZE
          /\ i < Len(q) => q[i].data # <<>>
          /\ q[i].data = <<>> => q[i].firstfree = 0

ChunkCount(b) == (Len(b) + SENDQSIZE - 1) \div SENDQSIZE

LEMMA ChunkCountBounds ==
    ASSUME NEW b \in Seq(Nat)
    PROVE  /\ ChunkCount(b) \in Nat
           /\ ChunkCount(b) * SENDQSIZE >= Len(b)
           /\ ChunkCount(b) * SENDQSIZE < Len(b) + SENDQSIZE
  <1>1. SENDQSIZE \in Nat \ {0} /\ Len(b) \in Nat
    BY DatastreamAssumption DEF DatastreamAssumption
  <1> QED BY <1>1, CeilDiv, Zenon DEF ChunkCount

LEMMA ChunksAre ==
    ASSUME NEW b \in Seq(Nat), NEW i \in 1 .. ChunkCount(b)
    PROVE  LET first == (i - 1) * SENDQSIZE
               last == Min({i * SENDQSIZE, Len(b)})
               part == SubSeq(b, first + 1, last)
           IN  /\ Chunks(b)[i] = [data |-> part, firstfree |-> Len(part)]
               /\ part \in Seq(Nat) /\ Len(part) = last - first
               /\ first \in Nat /\ first < last /\ last <= Len(b) /\ last \in Nat
               /\ last - first <= SENDQSIZE
  <1> DEFINE first == (i - 1) * SENDQSIZE
             last == Min({i * SENDQSIZE, Len(b)})
             part == SubSeq(b, first + 1, last)
  <1>1. SENDQSIZE \in Nat \ {0} /\ Len(b) \in Nat
    BY DatastreamAssumption DEF DatastreamAssumption
  <1>2. ChunkCount(b) \in Nat /\ ChunkCount(b) * SENDQSIZE < Len(b) + SENDQSIZE
    BY ChunkCountBounds
  <1>3. i * SENDQSIZE \in Nat /\ first \in Nat /\ i * SENDQSIZE = first + SENDQSIZE
    <2>1. i - 1 \in Nat /\ (i - 1) + 1 = i
      BY <1>2
    <2> QED BY <1>1, <2>1, TimesNext
  <1>4. i * SENDQSIZE <= ChunkCount(b) * SENDQSIZE
    <2>1. i \in Nat /\ i <= ChunkCount(b) /\ SENDQSIZE \in Nat
      BY <1>1, <1>2
    <2> QED BY <1>2, <2>1, TimesMono, Zenon
  <1>5. ChunkCount(b) * SENDQSIZE \in Nat
    BY <1>1, <1>2
  <1>6. first < Len(b)
    BY <1>1, <1>2, <1>3, <1>4, <1>5
  <1>7. last = IF i * SENDQSIZE <= Len(b) THEN i * SENDQSIZE ELSE Len(b)
    BY <1>1, <1>3, MinTwo
  <1>8. Chunks(b)[i] = [data |-> part, firstfree |-> Len(part)]
    <2>1. i \in 1 .. ((Len(b) + SENDQSIZE - 1) \div SENDQSIZE)
      BY DEF ChunkCount
    <2> QED BY <2>1, Zenon DEF Chunks, Chunk, Part
  <1> HIDE DEF first, last
  <1>9. last \in Nat /\ first < last /\ last <= Len(b) /\ last - first <= SENDQSIZE
    BY <1>1, <1>3, <1>6, <1>7
  <1>10. part \in Seq(Nat) /\ Len(part) = last - first
    BY <1>3, <1>9
  <1> QED BY <1>3, <1>8, <1>9, <1>10 DEF first, last

LEMMA ChunksGood ==
    ASSUME NEW b \in Seq(Nat)
    PROVE  GoodQueue(Chunks(b)) /\ Len(Chunks(b)) = ChunkCount(b)
           /\ \A i \in 1 .. ChunkCount(b) : Chunks(b)[i].data # <<>>
  <1> DEFINE q == Chunks(b)
  <1>1. ChunkCount(b) \in Nat
    BY ChunkCountBounds
  <1>2. ASSUME NEW i \in 1 .. ChunkCount(b)
        PROVE  /\ q[i] \in AChunk /\ q[i].data # <<>>
               /\ Len(q[i].data) <= q[i].firstfree /\ q[i].firstfree <= SENDQSIZE
    <2>1. PICK part \in Seq(Nat) : /\ q[i] = [data |-> part, firstfree |-> Len(part)]
                                   /\ Len(part) > 0 /\ Len(part) <= SENDQSIZE
      <3> DEFINE first == (i - 1) * SENDQSIZE
                 last == Min({i * SENDQSIZE, Len(b)})
                 p == SubSeq(b, first + 1, last)
      <3>1. /\ q[i] = [data |-> p, firstfree |-> Len(p)]
            /\ p \in Seq(Nat) /\ Len(p) = last - first
            /\ first \in Nat /\ first < last /\ last <= Len(b) /\ last \in Nat
            /\ last - first <= SENDQSIZE
        BY ChunksAre, Zenon
      <3> HIDE DEF p, first, last, q
      <3>2. Len(p) > 0 /\ Len(p) <= SENDQSIZE
        BY <3>1, DatastreamAssumption DEF DatastreamAssumption
      <3> QED BY <3>1, <3>2, Zenon
    <2> HIDE DEF q
    <2>2. q[i].data = part /\ q[i].firstfree = Len(part)
      BY <2>1
    <2>3. Len(part) \in Nat /\ part # <<>> /\ Len(part) <= Len(part)
      BY <2>1
    <2> QED BY <2>1, <2>2, <2>3 DEF AChunk
  <1>3. q = [i \in 1 .. ChunkCount(b) |-> q[i]]
    BY Zenon DEF Chunks, ChunkCount
  <1> HIDE DEF q
  <1>4. q \in Seq(AChunk) /\ Len(q) = ChunkCount(b)
    <2>1. \A i \in 1 .. ChunkCount(b) : q[i] \in AChunk
      BY <1>2
    <2>2. q \in [1 .. ChunkCount(b) -> AChunk]
      BY <1>3, <2>1, Zenon
    <2> QED BY <1>1, <2>2
  <1> QED BY <1>2, <1>4 DEF GoodQueue, q

\* Cutting bytes into chunks loses none and keeps their order.
LEMMA ChunksContents == \A b \in Seq(Nat) : Contents(Chunks(b)) = b
  <1> SUFFICES ASSUME NEW b \in Seq(Nat) PROVE Contents(Chunks(b)) = b
    OBVIOUS
  <1> DEFINE N == ChunkCount(b)
             q == Chunks(b)
             upto(n) == Min({n * SENDQSIZE, Len(b)})
             S == {n \in Nat : n <= N => Contents(SubSeq(q, 1, n)) = SubSeq(b, 1, upto(n))}
  <1>1. SENDQSIZE \in Nat \ {0} /\ Len(b) \in Nat
    BY DatastreamAssumption DEF DatastreamAssumption
  <1>2. N \in Nat /\ q \in Seq(AChunk) /\ Len(q) = N
    BY ChunksGood, ChunkCountBounds DEF GoodQueue
  <1>3. ASSUME NEW n \in Nat
        PROVE  upto(n) = IF n * SENDQSIZE <= Len(b) THEN n * SENDQSIZE ELSE Len(b)
    BY <1>1, MinTwo, TimesNext
  <1>4. 0 \in S
    <2>1. upto(0) = 0
      BY <1>1, <1>3
    <2>2. SubSeq(q, 1, 0) = <<>> /\ SubSeq(b, 1, 0) = <<>>
      BY <1>2, SubSeqEmpty
    <2> HIDE DEF upto, q, N
    <2> QED BY <2>1, <2>2, ContentsEmpty
  <1>5. ASSUME NEW n \in Nat, n \in S PROVE n + 1 \in S
    <2>0. n + 1 \in Nat
      OBVIOUS
    <2> SUFFICES ASSUME n + 1 <= N
                 PROVE  Contents(SubSeq(q, 1, n + 1)) = SubSeq(b, 1, upto(n + 1))
      <3> HIDE DEF q, upto, N
      <3> QED BY <2>0
    <2>1. n <= N /\ n + 1 \in 1 .. N /\ (n + 1) - 1 = n
      BY <1>2
    <2>2. /\ q[n + 1].data = SubSeq(b, n * SENDQSIZE + 1, upto(n + 1))
          /\ q[n + 1] \in AChunk
          /\ n * SENDQSIZE < upto(n + 1) /\ upto(n + 1) <= Len(b)
          /\ n * SENDQSIZE \in Nat /\ upto(n + 1) \in Nat
      <3> DEFINE i == n + 1
                 first == (i - 1) * SENDQSIZE
                 last == Min({i * SENDQSIZE, Len(b)})
                 p == SubSeq(b, first + 1, last)
      <3>0. i \in 1 .. ChunkCount(b) /\ i - 1 = n
        BY <2>1
      <3>1. /\ q[i] = [data |-> p, firstfree |-> Len(p)]
            /\ p \in Seq(Nat) /\ Len(p) = last - first
            /\ first \in Nat /\ first < last /\ last <= Len(b) /\ last \in Nat
        <4> HIDE DEF i
        <4> QED BY <3>0, ChunksAre, Zenon
      <3>2. first = n * SENDQSIZE /\ last = upto(i)
        BY <3>0, Zenon
      <3>3. q[i].data = p /\ q[i] \in AChunk
        <4> HIDE DEF p, q, i
        <4> QED BY <3>0, <3>1, <1>2 DEF AChunk
      <3> HIDE DEF q, upto
      <3> QED BY <3>1, <3>2, <3>3
    <2>3. SubSeq(q, 1, n + 1) = Append(SubSeq(q, 1, n), q[n + 1]) /\ SubSeq(q, 1, n) \in Seq(AChunk)
      <3> HIDE DEF q, N
      <3> QED BY <1>2, <2>1, SubOne
    <2>4. n * SENDQSIZE <= Len(b)
      <3> HIDE DEF upto
      <3> QED BY <1>1, <2>2
    <2>5. upto(n) = n * SENDQSIZE
      BY <1>3, <2>4
    <2>6. Contents(SubSeq(q, 1, n)) = SubSeq(b, 1, n * SENDQSIZE)
      BY <1>5, <2>1, <2>5, Zenon
    <2> HIDE DEF q, upto, N, S
    <2>7. Contents(SubSeq(q, 1, n + 1)) = SubSeq(b, 1, n * SENDQSIZE) \o SubSeq(b, n * SENDQSIZE + 1, upto(n + 1))
      BY <2>2, <2>3, <2>6, ContentsAppend
    <2>8. n * SENDQSIZE \in 0 .. Len(b) /\ upto(n + 1) \in n * SENDQSIZE .. Len(b)
      BY <1>1, <2>2
    <2> QED BY <2>7, <2>8, SubJoin
  <1> HIDE DEF S
  <1>6. N \in S
    BY <1>2, <1>4, <1>5, NatInductionSet
  <1>7. Contents(SubSeq(q, 1, N)) = SubSeq(b, 1, upto(N))
    <2> HIDE DEF q, N, upto
    <2>1. N <= N
      BY <1>2
    <2> QED BY <1>6, <2>1, Zenon DEF S
  <1>8. upto(N) = Len(b)
    <2>1. N * SENDQSIZE >= Len(b) /\ N * SENDQSIZE \in Nat
      BY ChunkCountBounds, <1>1, <1>2
    <2>2. upto(N) = IF N * SENDQSIZE <= Len(b) THEN N * SENDQSIZE ELSE Len(b)
      BY <1>2, <1>3
    <2> HIDE DEF upto, N
    <2> QED BY <1>1, <2>1, <2>2
  <1>9. SubSeq(q, 1, N) = q /\ SubSeq(b, 1, Len(b)) = b
    BY <1>2, SubSeqFull
  <1> HIDE DEF q, N, upto
  <1> QED BY <1>7, <1>8, <1>9 DEF q

-----------------------------------------------------------------------------
(* Taking bytes from a queue. *)

SizeTo(q, i) == Len(Contents(SubSeq(q, 1, i)))

LEMMA SizeStep ==
    ASSUME NEW q \in Seq(AChunk), NEW i \in 1 .. Len(q)
    PROVE  /\ SizeTo(q, i - 1) \in Nat /\ SizeTo(q, i) \in Nat
           /\ SizeTo(q, i) = SizeTo(q, i - 1) + Len(q[i].data)
  <1>1. SubSeq(q, 1, i) = Append(SubSeq(q, 1, i - 1), q[i]) /\ SubSeq(q, 1, i - 1) \in Seq(AChunk)
    BY SubOne
  <1>2. q[i] \in AChunk /\ q[i].data \in Seq(Nat)
    <2>1. q[i] \in AChunk
      OBVIOUS
    <2> QED BY <2>1 DEF AChunk
  <1>3. PICK r \in Seq(AChunk) : r = SubSeq(q, 1, i - 1)
    BY <1>1
  <1>4. Contents(SubSeq(q, 1, i)) = Contents(r) \o q[i].data /\ Contents(r) \in Seq(Nat)
    BY <1>1, <1>2, <1>3, ContentsAppend, ContentsType, Zenon
  <1>5. /\ Len(Contents(r) \o q[i].data) = Len(Contents(r)) + Len(q[i].data)
        /\ Len(Contents(r)) \in Nat /\ Len(q[i].data) \in Nat
    BY <1>2, <1>4
  <1>6. SizeTo(q, i - 1) = Len(Contents(r)) /\ SizeTo(q, i) = Len(Contents(r) \o q[i].data)
    BY <1>3, <1>4, Zenon DEF SizeTo
  <1> QED BY <1>5, <1>6

LEMMA SizeEnds ==
    ASSUME NEW q \in Seq(AChunk)
    PROVE  SizeTo(q, 0) = 0 /\ SizeTo(q, Len(q)) = Len(Contents(q))
  <1>1. SubSeq(q, 1, 0) = <<>> /\ SubSeq(q, 1, Len(q)) = q
    BY SubSeqEmpty, SubSeqFull
  <1>2. SizeTo(q, 0) = Len(<<>>) /\ SizeTo(q, Len(q)) = Len(Contents(q))
    BY <1>1, ContentsEmpty, Zenon DEF SizeTo
  <1> QED BY <1>2

LEMMA SizeType ==
    ASSUME NEW q \in Seq(AChunk), NEW i \in 0 .. Len(q)
    PROVE  SizeTo(q, i) \in Nat
  <1>1. CASE i = 0
    BY <1>1, SizeEnds
  <1>2. CASE i \in 1 .. Len(q)
    BY <1>2, SizeStep
  <1> QED BY <1>1, <1>2

LEMMA SizeMono ==
    ASSUME NEW q \in Seq(AChunk), NEW i \in 0 .. Len(q), NEW j \in i .. Len(q)
    PROVE  SizeTo(q, i) <= SizeTo(q, j)
  <1> DEFINE S == {n \in Nat : i + n <= Len(q) => SizeTo(q, i) <= SizeTo(q, i + n)}
  <1>1. 0 \in S
    BY SizeType
  <1>2. ASSUME NEW n \in Nat, n \in S PROVE n + 1 \in S
    <2> SUFFICES ASSUME i + (n + 1) <= Len(q) PROVE SizeTo(q, i) <= SizeTo(q, i + (n + 1))
      OBVIOUS
    <2>1. SizeTo(q, i) <= SizeTo(q, i + n)
      BY <1>2
    <2>2. i + (n + 1) \in 1 .. Len(q) /\ (i + (n + 1)) - 1 = i + n
      OBVIOUS
    <2>3. /\ SizeTo(q, i + n) \in Nat
          /\ SizeTo(q, i + (n + 1)) = SizeTo(q, i + n) + Len(q[i + (n + 1)].data)
      BY <2>2, SizeStep
    <2>4. Len(q[i + (n + 1)].data) \in Nat
      BY <2>2 DEF AChunk
    <2>5. SizeTo(q, i) \in Nat
      BY SizeType
    <2> QED BY <2>1, <2>3, <2>4, <2>5
  <1> HIDE DEF S
  <1>3. j - i \in S
    BY <1>1, <1>2, NatInductionSet
  <1>4. i + (j - i) = j /\ j <= Len(q)
    OBVIOUS
  <1> QED BY <1>3, <1>4 DEF S

\* A set of positions that has the ones before each of its own is 1 .. g.
LEMMA DownClosed ==
    ASSUME NEW n \in Nat, NEW G \in SUBSET (1 .. n),
           \A i \in G : \A j \in 1 .. i : j \in G
    PROVE  Cardinality(G) \in 0 .. n /\ G = 1 .. Cardinality(G)
  <1> DEFINE T == {g \in Nat : g + 1 \notin G}
  <1>1. n \in T
    OBVIOUS
  <1>2. PICK g \in T : \A m \in T : g <= m
    BY <1>1, LeastNat
  <1>3. \A i \in 1 .. n : i \in G <=> i <= g
    <2>1. ASSUME NEW i \in 1 .. n, i <= g PROVE i \in G
      <3>1. i - 1 \notin T /\ i - 1 \in Nat
        BY <1>2, <2>1
      <3> QED BY <3>1
    <2>2. ASSUME NEW i \in 1 .. n, i \in G, i > g PROVE FALSE
      <3>1. g + 1 \in 1 .. i
        BY <2>2
      <3> QED BY <3>1, <2>2
    <2> QED BY <2>1, <2>2
  <1>4. g <= n
    BY <1>1, <1>2
  <1>5. G = 1 .. g
    <2>1. ASSUME NEW i \in G PROVE i \in 1 .. g
      BY <1>3, <1>4
    <2>2. ASSUME NEW i \in 1 .. g PROVE i \in G
      BY <1>3, <1>4
    <2> QED BY <2>1, <2>2
  <1>6. Cardinality(1 .. g) = g
    <2>1. Cardinality(1 .. g) = IF 1 > g THEN 0 ELSE g - 1 + 1
      BY FS_Interval
    <2> QED BY <2>1
  <1> QED BY <1>4, <1>5, <1>6

UsedUp(q, k) == {i \in 1 .. Len(q) : q[i].data # <<>> /\ SizeTo(q, i) <= k}

LEMMA UsedUpFirst ==
    ASSUME NEW q, GoodQueue(q), NEW k \in Nat
    PROVE  /\ Cardinality(UsedUp(q, k)) \in 0 .. Len(q)
           /\ UsedUp(q, k) = 1 .. Cardinality(UsedUp(q, k))
  <1>1. q \in Seq(AChunk) /\ Len(q) \in Nat
    BY DEF GoodQueue
  <1>2. ASSUME NEW i \in UsedUp(q, k), NEW j \in 1 .. i PROVE j \in UsedUp(q, k)
    <2>1. i \in 1 .. Len(q) /\ q[i].data # <<>> /\ SizeTo(q, i) <= k
      BY DEF UsedUp
    <2>2. j \in 1 .. Len(q) /\ (j = i \/ j < Len(q))
      BY <1>1, <2>1
    <2>3. q[j].data # <<>>
      BY <2>1, <2>2 DEF GoodQueue
    <2>4. SizeTo(q, j) <= SizeTo(q, i) /\ SizeTo(q, j) \in Nat /\ SizeTo(q, i) \in Nat
      <3>1. j \in 0 .. Len(q) /\ i \in j .. Len(q) /\ i \in 0 .. Len(q)
        BY <1>1, <2>1, <2>2
      <3> QED BY <1>1, <3>1, SizeMono, SizeType
    <2>5. SizeTo(q, j) <= k
      BY <2>1, <2>4
    <2> QED BY <2>2, <2>3, <2>5 DEF UsedUp
  <1>3. UsedUp(q, k) \in SUBSET (1 .. Len(q))
    BY DEF UsedUp
  <1> QED BY <1>1, <1>2, <1>3, DownClosed

Remainder(q, k, g) ==
    <<[data |-> SubSeq(q[g + 1].data, k - SizeTo(q, g) + 1, Len(q[g + 1].data)),
       firstfree |-> q[g + 1].firstfree]>>
        \o SubSeq(q, g + 2, Len(q))

LEMMA ConsumeIs ==
    ASSUME NEW q, GoodQueue(q), NEW k \in Nat, NEW g, g = Cardinality(UsedUp(q, k))
    PROVE  /\ k = 0 => Consume(q, k) = q
           /\ k # 0 /\ g = Len(q) => Consume(q, k) = <<[data |-> <<>>, firstfree |-> 0]>>
           /\ k # 0 /\ g # Len(q) => Consume(q, k) = Remainder(q, k, g)
  <1> DEFINE size == [i \in 0 .. Len(q) |-> Len(Contents(SubSeq(q, 1, i)))]
  <1>1. \A i \in 0 .. Len(q) : size[i] = SizeTo(q, i)
    BY Zenon DEF SizeTo
  <1>2. g \in 0 .. Len(q) /\ Len(q) \in Nat
    BY UsedUpFirst DEF GoodQueue
  <1>3. {i \in 1 .. Len(q) : q[i].data # <<>> /\ size[i] <= k} = UsedUp(q, k)
    <2>1. \A i \in 1 .. Len(q) : i \in 0 .. Len(q)
      OBVIOUS
    <2>2. \A i \in 1 .. Len(q) : size[i] = SizeTo(q, i)
      BY <1>1, <2>1, Zenon
    <2> HIDE DEF size
    <2> QED BY <2>2, Zenon DEF UsedUp
  <1> DEFINE gone == Cardinality({i \in 1 .. Len(q) : q[i].data # <<>> /\ size[i] <= k})
  <1>a. Consume(q, k) =
            IF k = 0 THEN q
            ELSE IF gone = Len(q) THEN <<[data |-> <<>>, firstfree |-> 0]>>
            ELSE <<[data |-> SubSeq(q[gone + 1].data, k - size[gone] + 1, Len(q[gone + 1].data)),
                    firstfree |-> q[gone + 1].firstfree]>> \o SubSeq(q, gone + 2, Len(q))
    BY Zenon DEF Consume, Chunk
  <1>b. gone = g
    BY <1>3, Zenon
  <1> HIDE DEF gone, size
  <1>4. Consume(q, k) =
            IF k = 0 THEN q
            ELSE IF g = Len(q) THEN <<[data |-> <<>>, firstfree |-> 0]>>
            ELSE <<[data |-> SubSeq(q[g + 1].data, k - size[g] + 1, Len(q[g + 1].data)),
                    firstfree |-> q[g + 1].firstfree]>> \o SubSeq(q, g + 2, Len(q))
    BY <1>a, <1>b, Zenon
  <1>5. size[g] = SizeTo(q, g)
    BY <1>1, <1>2, Zenon
  <1> QED BY <1>4, <1>5, Zenon DEF Remainder

LEMMA SubTail ==
    ASSUME NEW T, NEW d \in Seq(T), NEW j \in 0 .. Len(d)
    PROVE  SubSeq(d, j + 1, Len(d)) \in Seq(T) /\ Len(SubSeq(d, j + 1, Len(d))) = Len(d) - j
  OBVIOUS

\* The queue around its first chunk that is not used up.
LEMMA QueueAround ==
    ASSUME NEW q, GoodQueue(q), NEW g \in 0 .. Len(q), g # Len(q)
    PROVE  LET d == q[g + 1].data
               r == SubSeq(q, g + 2, Len(q))
               a == Contents(SubSeq(q, 1, g))
           IN  /\ a \in Seq(Nat) /\ d \in Seq(Nat) /\ q[g + 1] \in AChunk
               /\ r \in Seq(AChunk) /\ Contents(r) \in Seq(Nat)
               /\ Len(r) = Len(q) - g - 1
               /\ \A i \in 1 .. Len(r) : r[i] = q[g + 1 + i]
               /\ Contents(q) = (a \o d) \o Contents(r)
               /\ SizeTo(q, g + 1) = Len(a) + Len(d)
               /\ Len(a) = SizeTo(q, g)
  <1> DEFINE d == q[g + 1].data
             r == SubSeq(q, g + 2, Len(q))
             p == SubSeq(q, 1, g)
             a == Contents(p)
  <1>1. q \in Seq(AChunk) /\ Len(q) \in Nat /\ g \in Nat /\ g + 1 \in 1 .. Len(q) /\ (g + 1) - 1 = g
    BY DEF GoodQueue
  <1>2. q[g + 1] \in AChunk
    BY <1>1
  <1>3. d \in Seq(Nat)
    BY <1>2 DEF AChunk
  <1>4. p \in Seq(AChunk)
    BY <1>1
  <1>5. r \in Seq(AChunk) /\ Len(r) = Len(q) - g - 1 /\ \A i \in 1 .. Len(r) : r[i] = q[g + 1 + i]
    <2>1. \A i \in g + 2 .. Len(q) : q[i] \in AChunk
      BY <1>1
    <2>2. g + 2 \in Int /\ Len(q) \in Int
      BY <1>1
    <2>3. /\ r \in Seq(AChunk)
          /\ Len(r) = IF g + 2 <= Len(q) THEN Len(q) - (g + 2) + 1 ELSE 0
          /\ \A i \in 1 .. Len(q) - (g + 2) + 1 : r[i] = q[g + 2 + i - 1]
      BY <2>1, <2>2, SubSeqProperties
    <2> HIDE DEF r
    <2>4. Len(r) = Len(q) - g - 1
      BY <1>1, <2>3
    <2>5. \A i \in 1 .. Len(r) : g + 2 + i - 1 = g + 1 + i /\ i \in 1 .. Len(q) - (g + 2) + 1
      BY <1>1, <2>4
    <2> QED BY <2>3, <2>4, <2>5
  <1>6. q = (p \o <<q[g + 1]>>) \o r
    <2>1. g < Len(q)
      BY <1>1
    <2> QED BY <1>1, <2>1, Sub3, Zenon
  <1>7. p \o <<q[g + 1]>> = Append(p, q[g + 1]) /\ Append(p, q[g + 1]) \in Seq(AChunk)
    <2> HIDE DEF p
    <2> QED BY <1>2, <1>4
  <1>8. Contents(q) = Contents(Append(p, q[g + 1])) \o Contents(r)
    <2> HIDE DEF p, r
    <2> QED BY <1>5, <1>6, <1>7, ContentsConcat, Zenon
  <1>9. Contents(Append(p, q[g + 1])) = a \o d
    <2> HIDE DEF p
    <2> QED BY <1>2, <1>4, ContentsAppend
  <1>10. a \in Seq(Nat) /\ Contents(r) \in Seq(Nat)
    <2> HIDE DEF p, r
    <2> QED BY <1>4, <1>5, ContentsType
  <1>11. Len(a) = SizeTo(q, g)
    BY DEF SizeTo
  <1>12. SizeTo(q, g + 1) = Len(a) + Len(d)
    <2> HIDE DEF a, d
    <2>1. SizeTo(q, g + 1) = SizeTo(q, g) + Len(q[g + 1].data)
      BY <1>1, SizeStep
    <2> QED BY <2>1, <1>11, Zenon DEF d
  <1> HIDE DEF a, d, r, p
  <1>13. Contents(q) = (a \o d) \o Contents(r)
    BY <1>8, <1>9, Zenon
  <1> QED BY <1>2, <1>3, <1>5, <1>10, <1>11, <1>12, <1>13, Zenon DEF a, d, r, p

LEMMA ContentsOne == \A c \in AChunk : Contents(<<c>>) = c.data
  <1> SUFFICES ASSUME NEW c \in AChunk PROVE Contents(<<c>>) = c.data
    OBVIOUS
  <1>1. <<>> \in Seq(AChunk) /\ <<c>> = Append(<<>>, c) /\ c.data \in Seq(Nat)
    BY DEF AChunk
  <1>2. Contents(<<c>>) = Contents(<<>>) \o c.data
    BY <1>1, ContentsAppend, Zenon
  <1>3. <<>> \o c.data = c.data
    BY <1>1
  <1> QED BY <1>2, <1>3, ContentsEmpty, Zenon

\* A queue holds something just when its first chunk does.
LEMMA FirstHolds ==
    ASSUME NEW q, GoodQueue(q)
    PROVE  Contents(q) # <<>> <=> q # <<>> /\ q[1].data # <<>>
  <1>1. q \in Seq(AChunk) /\ Len(q) \in Nat
    BY DEF GoodQueue
  <1>2. CASE q = <<>>
    BY <1>2, ContentsEmpty
  <1>3. CASE q # <<>>
    <2>1. Len(q) # 0 /\ 1 \in 1 .. Len(q) /\ 0 \in 0 .. Len(q)
      BY <1>1, <1>3
    <2> DEFINE d == q[1].data
               r == SubSeq(q, 2, Len(q))
               a == Contents(SubSeq(q, 1, 0))
    <2>2. /\ a \in Seq(Nat) /\ d \in Seq(Nat) /\ r \in Seq(AChunk)
          /\ Contents(r) \in Seq(Nat) /\ Len(r) = Len(q) - 0 - 1
          /\ Contents(q) = (a \o d) \o Contents(r)
      <3>1. 0 + 1 = 1 /\ 0 + 2 = 2
        OBVIOUS
      <3> QED BY <2>1, <3>1, QueueAround, Zenon
    <2>3. a = <<>>
      <3>1. SubSeq(q, 1, 0) = <<>>
        BY <1>1, SubSeqEmpty
      <3> QED BY <3>1, ContentsEmpty, Zenon
    <2>4. d = <<>> => r = <<>>
      <3>1. d = <<>> => ~(1 < Len(q))
        BY <2>1 DEF GoodQueue
      <3> HIDE DEF d, r
      <3> QED BY <1>1, <2>1, <2>2, <3>1
    <2> HIDE DEF d, r, a
    <2>5. d = <<>> => Contents(q) = <<>>
      <3> SUFFICES ASSUME d = <<>> PROVE Contents(q) = <<>>
        OBVIOUS
      <3>1. Contents(q) = (<<>> \o <<>>) \o <<>>
        BY <2>2, <2>3, <2>4, ContentsEmpty, Zenon
      <3> QED BY <3>1
    <2>6. d # <<>> => Len(Contents(q)) > 0
      BY <2>2
    <2>7. d # <<>> => Contents(q) # <<>>
      BY <2>6
    <2> QED BY <1>3, <2>5, <2>7, Zenon DEF d
  <1> QED BY <1>2, <1>3

\* What is left of a queue after k bytes are its other bytes, in a queue.
LEMMA ConsumeResult ==
    ASSUME NEW q, GoodQueue(q), NEW k \in 0 .. Len(Contents(q))
    PROVE  /\ GoodQueue(Consume(q, k))
           /\ Contents(Consume(q, k)) = SubSeq(Contents(q), k + 1, Len(Contents(q)))
           /\ Len(Consume(q, k)) <= Len(q)
  <1>1. q \in Seq(AChunk) /\ Len(q) \in Nat /\ Contents(q) \in Seq(Nat) /\ k \in Nat
        /\ Len(Contents(q)) \in Nat
    BY ContentsType DEF GoodQueue
  <1>2. PICK g : g = Cardinality(UsedUp(q, k))
    OBVIOUS
  <1>3. g \in 0 .. Len(q) /\ UsedUp(q, k) = 1 .. g
    BY <1>1, <1>2, UsedUpFirst
  <1>4. CASE k = 0
    <2>1. Consume(q, k) = q
      BY <1>1, <1>2, <1>4, ConsumeIs
    <2>2. SubSeq(Contents(q), 1, Len(Contents(q))) = Contents(q)
      BY <1>1, SubSeqFull
    <2> QED BY <1>1, <1>4, <2>1, <2>2
  <1>g. ASSUME k # 0, g # 0 PROVE SizeTo(q, g) <= k
    <2>1. g \in UsedUp(q, k)
      BY <1>3, <1>g
    <2> QED BY <2>1 DEF UsedUp
  <1>5. CASE k # 0 /\ g = Len(q)
    <2>1. Consume(q, k) = <<[data |-> <<>>, firstfree |-> 0]>>
      BY <1>1, <1>2, <1>5, ConsumeIs
    <2>2. g # 0
      <3> SUFFICES ASSUME g = 0 PROVE FALSE
        OBVIOUS
      <3>1. q = <<>>
        BY <1>1, <1>5
      <3>2. Len(Contents(q)) = 0
        BY <3>1, ContentsEmpty
      <3> QED BY <1>5, <3>2
    <2>3. k = Len(Contents(q))
      <3>1. SizeTo(q, g) <= k
        BY <1>5, <1>g, <2>2
      <3>2. SizeTo(q, g) = Len(Contents(q))
        BY <1>1, <1>5, SizeEnds
      <3> QED BY <1>1, <3>1, <3>2
    <2>4. SubSeq(Contents(q), k + 1, Len(Contents(q))) = <<>>
      BY <1>1, <2>3, SubSeqEmpty
    <2> DEFINE c == [data |-> <<>>, firstfree |-> 0]
    <2>5. c \in AChunk /\ c.data = <<>> /\ c.firstfree = 0
      BY DEF AChunk
    <2> HIDE DEF c
    <2>6. Consume(q, k) = <<c>>
      BY <2>1, Zenon DEF c
    <2>7. Contents(<<c>>) = <<>>
      BY <2>5, ContentsOne
    <2>8. GoodQueue(<<c>>)
      <3>1. <<c>> \in Seq(AChunk) /\ Len(<<c>>) = 1 /\ <<c>>[1] = c
        BY <2>5
      <3>2. Len(c.data) = 0 /\ 0 <= SENDQSIZE
        BY <2>5, DatastreamAssumption DEF DatastreamAssumption
      <3> QED BY <2>5, <3>1, <3>2 DEF GoodQueue
    <2>9. Len(<<c>>) <= Len(q)
      <3>1. Len(<<c>>) = 1
        OBVIOUS
      <3> QED BY <1>1, <1>3, <1>5, <2>2, <3>1
    <2> QED BY <2>4, <2>6, <2>7, <2>8, <2>9, Zenon
  <1>6. CASE k # 0 /\ g # Len(q)
    <2> DEFINE d == q[g + 1].data
               r == SubSeq(q, g + 2, Len(q))
               a == Contents(SubSeq(q, 1, g))
               ff == q[g + 1].firstfree
    <2>1. /\ a \in Seq(Nat) /\ d \in Seq(Nat) /\ q[g + 1] \in AChunk
          /\ r \in Seq(AChunk) /\ Contents(r) \in Seq(Nat)
          /\ Len(r) = Len(q) - g - 1
          /\ \A i \in 1 .. Len(r) : r[i] = q[g + 1 + i]
          /\ Contents(q) = (a \o d) \o Contents(r)
          /\ SizeTo(q, g + 1) = Len(a) + Len(d)
          /\ Len(a) = SizeTo(q, g)
      BY <1>3, <1>6, QueueAround, Zenon
    <2>2. g + 1 \in 1 .. Len(q) /\ g \in Nat /\ g + 1 \notin 1 .. g
      BY <1>1, <1>3, <1>6
    <2>3. d = <<>> \/ SizeTo(q, g + 1) > k
      <3>1. g + 1 \notin UsedUp(q, k)
        BY <1>3, <2>2
      <3>2. d = <<>> \/ ~(SizeTo(q, g + 1) <= k)
        BY <2>2, <3>1 DEF UsedUp
      <3>3. SizeTo(q, g + 1) \in Nat
        BY <1>1, <2>2, SizeStep
      <3> HIDE DEF d
      <3> QED BY <1>1, <3>2, <3>3
    <2>4. Len(d) <= ff /\ ff <= SENDQSIZE /\ (g + 1 < Len(q) => d # <<>>)
          /\ (d = <<>> => ff = 0) /\ ff \in Nat
      <3>1. ff \in Nat
        BY <2>1 DEF AChunk
      <3> QED BY <2>2, <3>1 DEF GoodQueue
    <2> HIDE DEF d, r, a, ff
    <2>5. Len(a) <= k
      <3>1. g = 0 => Len(a) = 0
        BY <1>1, <2>1, SizeEnds
      <3> QED BY <1>1, <1>6, <1>g, <2>1, <3>1
    <2> DEFINE cr == Contents(r)
    <2>6. Len(Contents(q)) = Len(a) + Len(d) + Len(cr) /\ cr \in Seq(Nat) /\ Len(cr) \in Nat
      <3>1. a \in Seq(Nat) /\ d \in Seq(Nat) /\ cr \in Seq(Nat) /\ Contents(q) = (a \o d) \o cr
        BY <2>1, Zenon
      <3> HIDE DEF cr
      <3>2. Len((a \o d) \o cr) = Len(a) + Len(d) + Len(cr)
        BY <3>1
      <3> QED BY <3>1, <3>2
    <2>7. k - Len(a) \in 0 .. Len(d)
      <3>1. CASE d # <<>>
        BY <1>1, <2>1, <2>3, <2>5, <3>1
      <3>2. CASE d = <<>>
        <4>1. Len(r) = 0
          BY <1>1, <2>1, <2>2, <2>4, <3>2
        <4>2. r = <<>>
          BY <2>1, <4>1
        <4>3. Len(Contents(r)) = 0
          BY <4>2, ContentsEmpty
        <4> QED BY <1>1, <2>1, <2>5, <2>6, <4>3
      <3> QED BY <3>1, <3>2
    <2>8. PICK j \in 0 .. Len(d) : j = k - Len(a)
      BY <2>7
    <2> DEFINE left == SubSeq(d, j + 1, Len(d))
               c == [data |-> left, firstfree |-> ff]
    <2>9. SubSeq(Contents(q), k + 1, Len(Contents(q))) = left \o Contents(r)
      <3>1. k = Len(a) + j
        BY <1>1, <2>1, <2>8
      <3>2. a \in Seq(Nat) /\ d \in Seq(Nat) /\ cr \in Seq(Nat) /\ Contents(q) = (a \o d) \o cr
        BY <2>1, Zenon
      <3>3. PICK n : n = Len(a) + Len(d) + Len(cr)
        OBVIOUS
      <3> HIDE DEF cr
      <3>4. Cut(a, d, cr, j, k, n)
        BY <2>8, <3>1, <3>2, <3>3, Zenon DEF Cut
      <3>6. AfterCut(a, d, cr, j, k, n)
        BY <3>4, SubCut
      <3>5. n = Len(Contents(q))
        BY <2>6, <3>3, Zenon
      <3> QED BY <3>2, <3>5, <3>6, Zenon DEF AfterCut, cr
    <2>10. left \in Seq(Nat) /\ Len(left) = Len(d) - j
      BY <2>1, <2>8, SubTail
    <2>11. left = <<>> => d = <<>>
      <3>1. d # <<>> => k < Len(a) + Len(d)
        BY <2>1, <2>3
      <3>2. d # <<>> => j < Len(d)
        BY <1>1, <2>1, <2>8, <3>1
      <3> HIDE DEF left
      <3> QED BY <2>1, <2>10, <3>2
    <2>12. c \in AChunk /\ c.data = left /\ c.firstfree = ff
      <3> HIDE DEF left
      <3> QED BY <2>4, <2>10 DEF AChunk
    <2>13. Consume(q, k) = <<c>> \o r
      <3>1. Consume(q, k) = Remainder(q, k, g)
        BY <1>1, <1>2, <1>6, ConsumeIs, Zenon
      <3>2. j = k - SizeTo(q, g)
        BY <2>1, <2>8, Zenon
      <3> QED BY <3>1, <3>2, Zenon DEF Remainder, d, r, ff
    <2> HIDE DEF left, c
    <2>14. <<c>> \in Seq(AChunk) /\ Contents(<<c>>) = left
      BY <2>12, ContentsOne
    <2>15. Contents(<<c>> \o r) = left \o Contents(r)
      BY <2>1, <2>14, ContentsConcat, Zenon
    <2>16. /\ <<c>> \o r \in Seq(AChunk) /\ Len(<<c>> \o r) = Len(q) - g
           /\ (<<c>> \o r)[1] = c
           /\ \A i \in 2 .. Len(q) - g : (<<c>> \o r)[i] = q[g + i]
      <3>0. Len(q) - g = Len(r) + 1
        BY <1>1, <2>1, <2>2
      <3>1. /\ <<c>> \o r \in Seq(AChunk) /\ Len(<<c>> \o r) = Len(q) - g
            /\ (<<c>> \o r)[1] = c
            /\ \A i \in 2 .. Len(q) - g : (<<c>> \o r)[i] = r[i - 1]
        BY <2>1, <2>12, <3>0, PutFront
      <3>2. \A i \in 2 .. Len(q) - g : i - 1 \in 1 .. Len(r) /\ g + 1 + (i - 1) = g + i
        BY <1>1, <2>1, <2>2
      <3>3. \A i \in 2 .. Len(q) - g : r[i - 1] = q[g + i]
        BY <2>1, <3>2
      <3> QED BY <3>1, <3>3, Zenon
    <2>17. GoodQueue(<<c>> \o r)
      <3>1. PICK u : u = <<c>> \o r
        OBVIOUS
      <3>2. /\ u \in Seq(AChunk) /\ Len(u) = Len(q) - g /\ u[1] = c
            /\ \A i \in 2 .. Len(q) - g : u[i] = q[g + i]
        BY <2>16, <3>1, Zenon
      <3>3. ASSUME NEW i \in 1 .. Len(u)
            PROVE  /\ Len(u[i].data) <= u[i].firstfree
                   /\ u[i].firstfree <= SENDQSIZE
                   /\ i < Len(u) => u[i].data # <<>>
                   /\ u[i].data = <<>> => u[i].firstfree = 0
        <4>1. CASE i = 1
          <5>1. u[i].data = left /\ u[i].firstfree = ff
            BY <2>12, <3>2, <4>1
          <5>2. Len(left) <= ff
            <6>1. Len(d) \in Nat /\ Len(left) = Len(d) - j /\ j \in 0 .. Len(d) /\ Len(d) <= ff /\ ff \in Nat
              BY <2>1, <2>4, <2>8, <2>10, LenProperties, Zenon
            <6> QED BY <6>1
          <5>3. 1 < Len(u) => left # <<>>
            BY <1>1, <2>2, <2>4, <2>11, <3>2
          <5> QED BY <2>4, <2>11, <4>1, <5>1, <5>2, <5>3
        <4>2. CASE i # 1
          <5>1. u[i] = q[g + i] /\ g + i \in 1 .. Len(q) /\ (i < Len(u) <=> g + i < Len(q))
            <6>1. i \in 2 .. Len(q) - g
              BY <1>1, <2>2, <3>2, <4>2
            <6>2. u[i] = q[g + i]
              BY <3>2, <6>1, Zenon
            <6>3. g + i \in 1 .. Len(q)
              BY <1>1, <2>2, <6>1
            <6>4. i < Len(u) <=> g + i < Len(q)
              BY <1>1, <2>2, <3>2, <6>1
            <6> QED BY <6>2, <6>3, <6>4
          <5> QED BY <5>1 DEF GoodQueue
        <4> QED BY <4>1, <4>2
      <3> QED BY <3>1, <3>2, <3>3, Zenon DEF GoodQueue
    <2>18. Len(<<c>> \o r) <= Len(q)
      BY <1>1, <2>2, <2>16
    <2> QED BY <2>9, <2>13, <2>15, <2>17, <2>18, Zenon
  <1> QED BY <1>4, <1>5, <1>6

-----------------------------------------------------------------------------
(* Adding bytes to a queue. *)

\* The bytes that fit into the last chunk, and the others.
LEMMA PartRest ==
    ASSUME NEW b \in Seq(Nat), NEW l \in Nat
    PROVE  LET part == Part(b, 1, l)
               rest == SubSeq(b, l + 1, Len(b))
           IN  /\ part \in Seq(Nat) /\ rest \in Seq(Nat) /\ part \o rest = b
               /\ Len(part) <= l
               /\ Len(rest) <= Len(b)
               /\ Len(rest) # 0 => Len(part) = l
  <1>1. Len(b) \in Nat /\ Min({l, Len(b)}) = IF l <= Len(b) THEN l ELSE Len(b)
    BY MinTwo
  <1>2. CASE l <= Len(b)
    <2>1. Part(b, 1, l) = SubSeq(b, 1, l)
      BY <1>1, <1>2, Zenon DEF Part
    <2>2. SubSeq(b, 1, l) \in Seq(Nat) /\ Len(SubSeq(b, 1, l)) = l
      BY <1>1, <1>2
    <2>3. SubSeq(b, l + 1, Len(b)) \in Seq(Nat) /\ Len(SubSeq(b, l + 1, Len(b))) = Len(b) - l
      BY <1>1, <1>2
    <2>4. SubSeq(b, 1, l) \o SubSeq(b, l + 1, Len(b)) = SubSeq(b, 1, Len(b))
      <3>1. l \in 0 .. Len(b) /\ Len(b) \in l .. Len(b)
        BY <1>1, <1>2
      <3> QED BY <3>1, SubJoin, Zenon
    <2>5. SubSeq(b, 1, Len(b)) = b
      BY SubSeqFull
    <2>6. Len(b) - l <= Len(b) /\ l <= l
      BY <1>1
    <2> QED BY <2>1, <2>2, <2>3, <2>4, <2>5, <2>6, Zenon
  <1>3. CASE ~(l <= Len(b))
    <2>1. Part(b, 1, l) = SubSeq(b, 1, Len(b))
      BY <1>1, <1>3, Zenon DEF Part
    <2>2. SubSeq(b, 1, Len(b)) = b
      BY SubSeqFull
    <2>3. SubSeq(b, l + 1, Len(b)) = <<>>
      <3>1. Len(b) < l + 1 /\ l + 1 \in Int /\ Len(b) \in Int
        BY <1>1, <1>3
      <3> QED BY <3>1, SubSeqEmpty
    <2>4. b \o <<>> = b /\ <<>> \in Seq(Nat) /\ Len(<<>>) = 0 /\ 0 <= Len(b) /\ Len(b) <= l
      BY <1>1, <1>3
    <2> QED BY <2>1, <2>2, <2>3, <2>4, Zenon
  <1> QED BY <1>2, <1>3

LEMMA ConcatNat ==
    \A x, y \in Seq(Nat) : /\ x \o y \in Seq(Nat) /\ Len(x \o y) = Len(x) + Len(y)
                          /\ Len(x) \in Nat /\ Len(y) \in Nat
  OBVIOUS

LEMMA AppendChunk ==
    ASSUME NEW f \in Seq(AChunk), NEW c \in AChunk, NEW n, n = Len(f) + 1
    PROVE  /\ Append(f, c) \in Seq(AChunk) /\ Len(Append(f, c)) = n /\ Append(f, c)[n] = c
           /\ \A i \in 1 .. n - 1 : Append(f, c)[i] = f[i]
  OBVIOUS

LEMMA ConcatChunks ==
    ASSUME NEW v \in Seq(AChunk), NEW w \in Seq(AChunk)
    PROVE  /\ v \o w \in Seq(AChunk) /\ Len(v \o w) = Len(v) + Len(w)
           /\ \A i \in 1 .. Len(v) : (v \o w)[i] = v[i]
           /\ \A i \in 1 .. Len(w) : (v \o w)[Len(v) + i] = w[i]
  OBVIOUS

LEMMA FrontLast ==
    ASSUME NEW q \in Seq(AChunk), q # <<>>
    PROVE  /\ Front(q) \in Seq(AChunk) /\ Last(q) \in AChunk /\ q = Append(Front(q), Last(q))
           /\ Len(Front(q)) = Len(q) - 1 /\ Len(q) \in Nat \ {0} /\ Last(q) = q[Len(q)]
           /\ \A i \in 1 .. Len(q) - 1 : Front(q)[i] = q[i]
  <1>1. PICK n \in Nat \ {0} : n = Len(q)
    OBVIOUS
  <1>2. q[n] \in AChunk /\ SubSeq(q, 1, n - 1) \in Seq(AChunk) /\ Len(SubSeq(q, 1, n - 1)) = n - 1
    BY <1>1
  <1>3. \A i \in 1 .. n - 1 : SubSeq(q, 1, n - 1)[i] = q[i]
    BY <1>1
  <1>4. q = Append(SubSeq(q, 1, n - 1), q[n])
    <2>1. n \in 1 .. Len(q) /\ SubSeq(q, 1, Len(q)) = q
      BY <1>1, SubSeqFull
    <2>2. SubSeq(q, 1, n) = Append(SubSeq(q, 1, n - 1), q[n])
      BY <2>1, SubOne
    <2> QED BY <1>1, <2>1, <2>2, Zenon
  <1> QED BY <1>1, <1>2, <1>3, <1>4, Zenon DEF Front, Last

LEMMA FillResult ==
    ASSUME NEW q, GoodQueue(q), NEW b \in Seq(Nat)
    PROVE  /\ GoodQueue(Fill(q, b))
           /\ Contents(Fill(q, b)) = Contents(q) \o b
           /\ Len(Fill(q, b)) * SENDQSIZE < Len(q) * SENDQSIZE + Len(b) + SENDQSIZE
  <1>1. SENDQSIZE \in Nat \ {0} /\ Len(b) \in Nat /\ q \in Seq(AChunk) /\ Len(q) \in Nat
    BY DatastreamAssumption DEF DatastreamAssumption, GoodQueue
  <1>2. CASE q = <<>>
    <2>1. Fill(q, b) = Chunks(b)
      BY <1>2, Zenon DEF Fill
    <2>2. GoodQueue(Chunks(b)) /\ Len(Chunks(b)) = ChunkCount(b)
      BY ChunksGood
    <2>3. ChunkCount(b) * SENDQSIZE < Len(b) + SENDQSIZE
      BY ChunkCountBounds
    <2>4. Contents(q) \o b = b
      BY <1>2, ContentsEmpty
    <2>5. Contents(Chunks(b)) = b
      BY ChunksContents
    <2>6. Len(q) * SENDQSIZE + Len(b) + SENDQSIZE = Len(b) + SENDQSIZE
      BY <1>1, <1>2
    <2> QED BY <2>1, <2>2, <2>3, <2>4, <2>5, <2>6, Zenon
  <1>3. CASE q # <<>>
    <2>1. PICK n \in Nat \ {0}, front \in Seq(AChunk), last \in AChunk :
              /\ n = Len(q) /\ front = Front(q) /\ last = Last(q)
              /\ q = Append(front, last) /\ Len(front) = n - 1 /\ last = q[n]
              /\ \A i \in 1 .. n - 1 : front[i] = q[i]
      BY <1>1, <1>3, FrontLast
    <2>2. /\ last.data \in Seq(Nat) /\ last.firstfree \in Nat
          /\ Len(last.data) <= last.firstfree /\ last.firstfree <= SENDQSIZE
          /\ (last.data = <<>> => last.firstfree = 0)
      <3>1. n \in 1 .. Len(q)
        BY <2>1
      <3>2. last.data \in Seq(Nat) /\ last.firstfree \in Nat
        BY <2>1 DEF AChunk
      <3> QED BY <2>1, <3>1, <3>2 DEF GoodQueue
    <2>3. PICK l \in Nat : l = SENDQSIZE - last.firstfree
      BY <1>1, <2>2
    <2>4. PICK part \in Seq(Nat), rest \in Seq(Nat) :
              /\ part = Part(b, 1, l) /\ rest = SubSeq(b, l + 1, Len(b)) /\ part \o rest = b
              /\ Len(part) <= l /\ Len(rest) <= Len(b) /\ (Len(rest) # 0 => Len(part) = l)
      BY PartRest, Zenon
    <2>5. PICK c : c = [data |-> last.data \o part, firstfree |-> last.firstfree + Len(part)]
      OBVIOUS
    <2>6. PICK more : more = Chunks(rest)
      OBVIOUS
    <2>7. Fill(q, b) = Append(front, c) \o more
      BY <1>3, <2>1, <2>3, <2>4, <2>5, <2>6, Zenon DEF Fill, Chunk
    <2>8. /\ last.data \o part \in Seq(Nat)
          /\ Len(last.data \o part) = Len(last.data) + Len(part)
          /\ Len(part) \in Nat /\ Len(last.data) \in Nat /\ Len(rest) \in Nat
      BY <2>2, <2>4, ConcatNat, Zenon
    <2>9. /\ c \in AChunk /\ c.data = last.data \o part
          /\ c.firstfree = last.firstfree + Len(part)
      <3>1. last.firstfree + Len(part) \in Nat
        BY <2>2, <2>8
      <3> QED BY <2>5, <2>8, <3>1 DEF AChunk
    <2>10. /\ GoodQueue(more) /\ Len(more) = ChunkCount(rest)
           /\ \A i \in 1 .. ChunkCount(rest) : more[i].data # <<>>
           /\ Contents(more) = rest
           /\ ChunkCount(rest) \in Nat
           /\ ChunkCount(rest) * SENDQSIZE < Len(rest) + SENDQSIZE
      BY <2>4, <2>6, ChunksGood, ChunksContents, ChunkCountBounds, Zenon
    <2>11. more \in Seq(AChunk)
      BY <2>10 DEF GoodQueue
    <2>12. Append(front, c) \in Seq(AChunk) /\ Len(Append(front, c)) = n
           /\ Append(front, c)[n] = c /\ \A i \in 1 .. n - 1 : Append(front, c)[i] = q[i]
      <3>1. n \in Nat /\ Len(front) = n - 1 /\ Len(front) \in Nat /\ front \in Seq(AChunk)
        <4>1. \A f \in Seq(AChunk) : Len(f) \in Nat
          OBVIOUS
        <4> QED BY <2>1, <4>1, Zenon
      <3>2. n = Len(front) + 1
        <4> HIDE <2>1
        <4> QED BY <3>1
      <3>3. /\ Append(front, c) \in Seq(AChunk) /\ Len(Append(front, c)) = n /\ Append(front, c)[n] = c
            /\ \A i \in 1 .. n - 1 : Append(front, c)[i] = front[i]
        BY <2>9, <3>1, <3>2, AppendChunk
      <3>4. \A i \in 1 .. n - 1 : front[i] = q[i]
        BY <2>1, Zenon
      <3> QED BY <3>3, <3>4, Zenon
    <2>13. Contents(Fill(q, b)) = Contents(q) \o b
      <3>1. Contents(Append(front, c) \o more) = Contents(Append(front, c)) \o rest
        BY <2>10, <2>11, <2>12, ContentsConcat, Zenon
      <3>2. Contents(Append(front, c)) = Contents(front) \o (last.data \o part)
        BY <2>1, <2>9, ContentsAppend, Zenon
      <3>3. Contents(q) = Contents(front) \o last.data
        BY <2>1, ContentsAppend, Zenon
      <3>4. Contents(front) \in Seq(Nat)
        BY <2>1, ContentsType
      <3>5. (Contents(front) \o (last.data \o part)) \o rest = (Contents(front) \o last.data) \o (part \o rest)
        <4>1. Contents(front) \in Seq(Nat) /\ last.data \in Seq(Nat) /\ part \in Seq(Nat) /\ rest \in Seq(Nat)
          BY <2>2, <2>4, <3>4
        <4>2. Regroups(Contents(front), last.data, part, rest)
          BY <4>1, Regroup, Zenon
        <4> QED BY <4>2, Zenon DEF Regroups
      <3> QED BY <2>4, <2>7, <3>1, <3>2, <3>3, <3>5, Zenon
    <2>14. PICK u : u = Append(front, c) \o more
      OBVIOUS
    <2>15. /\ u \in Seq(AChunk) /\ Len(u) = n + Len(more) /\ u[n] = c
           /\ \A i \in 1 .. n - 1 : u[i] = q[i]
           /\ \A i \in 1 .. Len(more) : u[n + i] = more[i]
      <3>1. PICK v \in Seq(AChunk) : v = Append(front, c)
        BY <2>12
      <3>2. Len(v) = n /\ v[n] = c /\ \A i \in 1 .. n - 1 : v[i] = q[i]
        BY <2>12, <3>1, Zenon
      <3>3. u = v \o more
        BY <2>14, <3>1, Zenon
      <3>4. u \in Seq(AChunk) /\ Len(u) = n + Len(more)
        <4>1. v \o more \in Seq(AChunk) /\ Len(v \o more) = Len(v) + Len(more)
          BY <2>11, <3>1, ConcatChunks
        <4> QED BY <3>2, <3>3, <4>1, Zenon
      <3>5. \A i \in 1 .. n : u[i] = v[i]
        <4>1. \A i \in 1 .. Len(v) : (v \o more)[i] = v[i]
          BY <2>11, <3>1, ConcatChunks
        <4> QED BY <3>2, <3>3, <4>1, Zenon
      <3>6. \A i \in 1 .. Len(more) : u[n + i] = more[i]
        <4>1. \A i \in 1 .. Len(more) : (v \o more)[Len(v) + i] = more[i]
          BY <2>11, <3>1, ConcatChunks
        <4> QED BY <3>2, <3>3, <4>1, Zenon
      <3>7. n \in 1 .. n /\ \A i \in 1 .. n - 1 : i \in 1 .. n
        BY <2>1
      <3> QED BY <3>2, <3>4, <3>5, <3>6, <3>7
    <2>16. GoodQueue(u)
      <3> SUFFICES ASSUME NEW i \in 1 .. Len(u)
                   PROVE  /\ Len(u[i].data) <= u[i].firstfree
                          /\ u[i].firstfree <= SENDQSIZE
                          /\ i < Len(u) => u[i].data # <<>>
                          /\ u[i].data = <<>> => u[i].firstfree = 0
        BY <2>15, Zenon DEF GoodQueue
      <3>0. Len(more) \in Nat /\ i \in Nat
        BY <2>10, <2>15
      <3>1. CASE i < n
        <4>1. i \in 1 .. n - 1 /\ i \in 1 .. Len(q) /\ i < Len(q)
          BY <2>1, <3>1
        <4>2. u[i] = q[i]
          BY <2>15, <4>1
        <4> QED BY <4>1, <4>2 DEF GoodQueue
      <3>2. CASE i = n
        <4>1. u[i] = c
          BY <2>15, <3>2
        <4>2. Len(c.data) <= c.firstfree /\ c.firstfree <= SENDQSIZE
          <5>1. c.firstfree = last.firstfree + Len(part) /\ Len(c.data) = Len(last.data) + Len(part)
            BY <2>8, <2>9, Zenon
          <5>2. /\ Len(last.data) <= last.firstfree /\ last.firstfree <= SENDQSIZE
                /\ l = SENDQSIZE - last.firstfree /\ Len(part) <= l
                /\ Len(part) \in Nat /\ Len(last.data) \in Nat /\ last.firstfree \in Nat
                /\ SENDQSIZE \in Nat
            BY <1>1, <2>2, <2>3, <2>4, <2>8, Zenon
          <5>3. \A x, y, z, w, f, m \in Nat : x <= f /\ f <= m /\ w = m - f /\ y <= w => x + y <= f + y /\ f + y <= m
            OBVIOUS
          <5>4. l \in Nat
            BY <2>3
          <5> QED BY <5>1, <5>2, <5>3, <5>4, SMTT(30)
        <4>3. c.data = <<>> => Len(last.data) = 0 /\ Len(part) = 0
          BY <2>8, <2>9
        <4>4. c.data = <<>> => last.firstfree = 0 /\ c.firstfree = 0
          <5>1. Len(last.data) = 0 => last.data = <<>>
            BY <2>2
          <5> QED BY <2>2, <2>9, <4>3, <5>1
        <4>5. i < Len(u) => c.data # <<>>
          <5> SUFFICES ASSUME n < Len(u), c.data = <<>> PROVE FALSE
            BY <3>2
          <5>1. Len(more) # 0
            BY <2>15, <3>0
          <5>2. Len(rest) # 0
            <6> SUFFICES ASSUME Len(rest) = 0 PROVE FALSE
              OBVIOUS
            <6>1. ChunkCount(rest) * SENDQSIZE < SENDQSIZE
              BY <1>1, <2>10
            <6>2. 1 * SENDQSIZE <= ChunkCount(rest) * SENDQSIZE
              <7>1. 1 <= ChunkCount(rest) /\ 1 \in Nat /\ ChunkCount(rest) \in Nat /\ SENDQSIZE \in Nat
                BY <1>1, <2>10, <5>1
              <7> QED BY <7>1, TimesMono, Zenon
            <6>3. ChunkCount(rest) * SENDQSIZE \in Nat /\ 1 * SENDQSIZE = SENDQSIZE
              BY <1>1, <2>10
            <6> QED BY <1>1, <6>1, <6>2, <6>3
          <5>3. Len(part) = l /\ l = SENDQSIZE
            BY <1>1, <2>3, <2>4, <4>4, <5>2
          <5> QED BY <1>1, <4>3, <5>3
        <4> QED BY <4>1, <4>2, <4>4, <4>5
      <3>3. CASE i > n
        <4>1. i - n \in 1 .. Len(more) /\ n + (i - n) = i
          <5>1. i <= n + Len(more) /\ n \in Nat
            <6>1. Len(u) = n + Len(more) /\ n \in Nat
              BY <2>1, <2>15, Zenon
            <6> QED BY <3>0, <6>1
          <5> QED BY <3>0, <3>3, <5>1
        <4>2. u[i] = more[i - n]
          BY <2>15, <4>1
        <4>3. more[i - n].data # <<>>
          BY <2>10, <4>1
        <4> QED BY <2>10, <4>1, <4>2, <4>3 DEF GoodQueue
      <3> QED BY <2>1, <3>0, <3>1, <3>2, <3>3
    <2>17. Len(u) * SENDQSIZE < Len(q) * SENDQSIZE + Len(b) + SENDQSIZE
      <3>1. Len(u) * SENDQSIZE = n * SENDQSIZE + Len(more) * SENDQSIZE
        <4>1. Len(u) = n + Len(more) /\ n \in Nat /\ Len(more) \in Nat
          BY <2>1, <2>10, <2>15
        <4>2. \A x, y, z \in Nat : (x + y) * z = x * z + y * z
          OBVIOUS
        <4>3. (n + Len(more)) * SENDQSIZE = n * SENDQSIZE + Len(more) * SENDQSIZE
          BY <1>1, <4>1, <4>2
        <4> QED BY <4>1, <4>3, Zenon
      <3>2. n * SENDQSIZE \in Nat /\ Len(more) * SENDQSIZE \in Nat
        <4>1. n \in Nat /\ Len(more) \in Nat /\ SENDQSIZE \in Nat
          BY <1>1, <2>1, <2>10
        <4>2. \A x, y \in Nat : x * y \in Nat
          OBVIOUS
        <4> QED BY <4>1, <4>2, Zenon
      <3>3. Len(more) * SENDQSIZE < Len(rest) + SENDQSIZE /\ Len(rest) <= Len(b) /\ Len(rest) \in Nat
        BY <2>4, <2>8, <2>10
      <3>4. Len(more) * SENDQSIZE < Len(b) + SENDQSIZE
        BY <1>1, <3>2, <3>3
      <3>5. Len(q) * SENDQSIZE = n * SENDQSIZE
        BY <2>1, Zenon
      <3> QED BY <1>1, <3>1, <3>2, <3>4, <3>5
    <2> QED BY <2>7, <2>13, <2>14, <2>16, <2>17, Zenon
  <1> QED BY <1>2, <1>3

-----------------------------------------------------------------------------
(* The type invariant. *)

Flags == {"DEAD", "SEND_EOF", "SEND_DEAD", "NONEWLINE"}

\* Both queues stay as sendq_flush() and recvq_getline() rely on: TypeOK, with
\* the types of the histories, and firstfree of an empty chunk.
Inv ==
    /\ GoodQueue(sendq) /\ GoodQueue(recvq)
    /\ asked \in Nat /\ got \in Nat /\ wire \in Seq(Nat)
    /\ flags \in SUBSET Flags
    /\ state \in {"open", "reading", "soon", "closed"}
    /\ selwrite \in BOOLEAN

LEMMA EmptyGood == GoodQueue(<<>>) /\ Contents(<<>>) = <<>>
  <1>1. <<>> \in Seq(AChunk) /\ Len(<<>>) = 0
    OBVIOUS
  <1> QED BY <1>1, ContentsEmpty DEF GoodQueue

LEMMA MinIn == \A S \in SUBSET Nat : S # {} => Min(S) \in S /\ \A x \in S : Min(S) <= x
  BY LeastNat DEF Min

LEMMA RoomGood ==
    ASSUME NEW q, GoodQueue(q)
    PROVE  GoodQueue(Room(q)) /\ Room(q) # <<>> /\ Contents(Room(q)) = Contents(q)
  <1>1. q \in Seq(AChunk) /\ SENDQSIZE \in Nat \ {0} /\ Len(q) \in Nat
    BY DatastreamAssumption DEF DatastreamAssumption, GoodQueue
  <1> DEFINE c == [data |-> <<>>, firstfree |-> 0]
  <1>2. c \in AChunk /\ c.data = <<>> /\ c.firstfree = 0
    BY DEF AChunk
  <1> HIDE DEF c
  <1>3. CASE q = <<>> \/ Last(q).firstfree = SENDQSIZE
    <2>1. Room(q) = Append(q, c)
      BY <1>3, Zenon DEF Room, Chunk, c
    <2>2. PICK u : u = Append(q, c)
      OBVIOUS
    <2>3. PICK n \in Nat : n = Len(q) + 1
      BY <1>1
    <2>4. /\ u \in Seq(AChunk) /\ Len(u) = n /\ u[n] = c
          /\ \A i \in 1 .. n - 1 : u[i] = q[i]
      BY <1>1, <1>2, <2>2, <2>3, AppendChunk
    <2>5. Len(q) # 0 => q[Len(q)].data # <<>>
      <3> SUFFICES ASSUME Len(q) # 0 PROVE q[Len(q)].data # <<>>
        OBVIOUS
      <3>1. q # <<>> /\ Len(q) \in 1 .. Len(q)
        BY <1>1
      <3>2. q[Len(q)].firstfree = SENDQSIZE
        BY <1>3, <3>1 DEF Last
      <3> QED BY <1>1, <3>1, <3>2 DEF GoodQueue
    <2>6. ASSUME NEW i \in 1 .. Len(u)
          PROVE  /\ Len(u[i].data) <= u[i].firstfree
                 /\ u[i].firstfree <= SENDQSIZE
                 /\ i < Len(u) => u[i].data # <<>>
                 /\ u[i].data = <<>> => u[i].firstfree = 0
      <3>1. CASE i = n
        <4>1. u[i] = c /\ ~(i < Len(u)) /\ Len(<<>>) = 0
          BY <2>4, <3>1
        <4> QED BY <1>1, <1>2, <4>1
      <3>2. CASE i # n
        <4>1. i \in 1 .. n - 1 /\ i \in 1 .. Len(q)
          BY <1>1, <2>3, <2>4, <3>2
        <4>2. u[i] = q[i]
          BY <2>4, <4>1
        <4>3. q[i].data # <<>>
          <5>1. CASE i < Len(q)
            BY <4>1, <5>1 DEF GoodQueue
          <5>2. CASE i = Len(q)
            BY <2>5, <4>1, <5>2
          <5> QED BY <1>1, <4>1, <5>1, <5>2
        <4> QED BY <4>1, <4>2, <4>3 DEF GoodQueue
      <3> QED BY <3>1, <3>2
    <2>7. GoodQueue(u)
      BY <2>4, <2>6, Zenon DEF GoodQueue
    <2>8. u # <<>>
      BY <1>1, <2>3, <2>4
    <2>9. Contents(u) = Contents(q)
      <3>1. Contents(u) = Contents(q) \o <<>>
        BY <1>1, <1>2, <2>2, ContentsAppend, Zenon
      <3>2. Contents(q) \in Seq(Nat)
        BY <1>1, ContentsType
      <3> QED BY <3>1, <3>2
    <2> QED BY <2>1, <2>2, <2>7, <2>8, <2>9, Zenon
  <1>4. CASE ~(q = <<>> \/ Last(q).firstfree = SENDQSIZE)
    <2>1. Room(q) = q
      BY <1>4, Zenon DEF Room
    <2> QED BY <1>4, <2>1
  <1> QED BY <1>3, <1>4

\* A queue whose last chunk has grown.
LEMMA GrownGood ==
    ASSUME NEW q, GoodQueue(q), q # <<>>, NEW x \in Seq(Nat),
           Len(x) <= SENDQSIZE - Last(q).firstfree
    PROVE  GoodQueue(Append(Front(q), Chunk(Last(q).data \o x, Last(q).firstfree + Len(x))))
  <1>1. q \in Seq(AChunk) /\ SENDQSIZE \in Nat \ {0}
    BY DatastreamAssumption DEF DatastreamAssumption, GoodQueue
  <1>2. PICK n \in Nat \ {0}, front \in Seq(AChunk), last \in AChunk :
            /\ n = Len(q) /\ front = Front(q) /\ last = Last(q)
            /\ Len(front) = n - 1 /\ last = q[n]
            /\ \A i \in 1 .. n - 1 : front[i] = q[i]
    BY <1>1, FrontLast
  <1>3. /\ last.data \in Seq(Nat) /\ last.firstfree \in Nat
        /\ Len(last.data) <= last.firstfree
        /\ (last.data = <<>> => last.firstfree = 0)
    <2>1. n \in 1 .. Len(q)
      BY <1>2
    <2>2. last.data \in Seq(Nat) /\ last.firstfree \in Nat
      BY <1>2 DEF AChunk
    <2> QED BY <1>2, <2>1, <2>2 DEF GoodQueue
  <1>4. /\ last.data \o x \in Seq(Nat) /\ Len(last.data \o x) = Len(last.data) + Len(x)
        /\ Len(last.data) \in Nat /\ Len(x) \in Nat
    BY <1>3, ConcatNat, Zenon
  <1>5. PICK c : c = [data |-> last.data \o x, firstfree |-> last.firstfree + Len(x)]
    OBVIOUS
  <1>6. c \in AChunk /\ c.data = last.data \o x /\ c.firstfree = last.firstfree + Len(x)
    <2>1. last.firstfree + Len(x) \in Nat
      BY <1>3, <1>4
    <2> QED BY <1>4, <1>5, <2>1 DEF AChunk
  <1>7. Len(front) \in Nat /\ n \in Nat /\ n = Len(front) + 1
    <2>1. n \in Nat /\ Len(front) = n - 1
      BY <1>2, Zenon
    <2> QED BY <1>2, <2>1
  <1>8. PICK u : u = Append(front, c)
    OBVIOUS
  <1>9. u \in Seq(AChunk) /\ Len(u) = n /\ u[n] = c /\ \A i \in 1 .. n - 1 : u[i] = front[i]
    <2>1. front \in Seq(AChunk)
      BY <1>2
    <2> QED BY <2>1, <1>6, <1>7, <1>8, AppendChunk
  <1>10. ASSUME NEW i \in 1 .. Len(u)
         PROVE  /\ Len(u[i].data) <= u[i].firstfree
                /\ u[i].firstfree <= SENDQSIZE
                /\ i < Len(u) => u[i].data # <<>>
                /\ u[i].data = <<>> => u[i].firstfree = 0
    <2>1. CASE i = n
      <3>1. u[i] = c /\ ~(i < Len(u))
        BY <1>7, <1>9, <2>1
      <3>2. Len(x) <= SENDQSIZE - last.firstfree
        BY <1>2, Zenon
      <3>3. Len(c.data) = Len(last.data) + Len(x)
        BY <1>4, <1>6, Zenon
      <3>4. Len(c.data) <= c.firstfree /\ c.firstfree <= SENDQSIZE
        BY <1>1, <1>3, <1>4, <1>6, <3>2, <3>3
      <3>5. c.data = <<>> => c.firstfree = 0
        <4>1. c.data = <<>> => Len(last.data) = 0 /\ Len(x) = 0
          BY <1>4, <3>3
        <4>2. Len(last.data) = 0 => last.data = <<>>
          BY <1>3
        <4> QED BY <1>3, <1>6, <4>1, <4>2
      <3> QED BY <3>1, <3>4, <3>5
    <2>2. CASE i # n
      <3>1. i \in 1 .. n - 1
        BY <1>7, <1>9, <2>2
      <3>2. u[i] = q[i]
        BY <1>2, <1>9, <3>1, Zenon
      <3>3. i \in 1 .. Len(q) /\ i < Len(q)
        <4>1. n = Len(q)
          BY <1>2, Zenon
        <4> QED BY <1>7, <3>1, <4>1
      <3> QED BY <3>2, <3>3 DEF GoodQueue
    <2> QED BY <2>1, <2>2
  <1>11. GoodQueue(u)
    BY <1>9, <1>10, Zenon DEF GoodQueue
  <1> QED BY <1>2, <1>5, <1>8, <1>11, Zenon DEF Chunk

\* recvq_getline() takes no more than the queue holds.
LEMMA TakenCount ==
    ASSUME NEW q, GoodQueue(q), Stops(q) # {}
    PROVE  Taken(q, Min(Stops(q))).count \in 0 .. Len(Contents(q))
  <1>1. /\ q \in Seq(AChunk) /\ Len(q) \in Nat /\ LineMax \in Nat \ {0}
        /\ Contents(q) \in Seq(Nat) /\ Len(Contents(q)) \in Nat
    <2>1. q \in Seq(AChunk) /\ LineMax \in Nat \ {0}
      BY DatastreamAssumption DEF DatastreamAssumption, GoodQueue
    <2>2. Contents(q) \in Seq(Nat)
      BY <2>1, ContentsType
    <2> QED BY <2>1, <2>2
  <1>2. Stops(q) \in SUBSET Nat
    BY DEF Stops
  <1>3. PICK i : i = Min(Stops(q))
    OBVIOUS
  <1>4. i \in Stops(q) /\ \A x \in Stops(q) : i <= x
    BY <1>2, <1>3, MinIn
  <1>5. i \in 1 .. Len(q)
    BY <1>4 DEF Stops
  <1> DEFINE before == Len(Contents(SubSeq(q, 1, i - 1)))
             d == q[i].data
             l == Min({Len(d), LineMax - before})
             nl == Newline(q[i])
             n == IF nl # 0 /\ l >= nl THEN nl ELSE l
             count == IF n < Len(d) THEN before + n ELSE Min({LineMax, Len(Contents(q))})
  <1>6. before \in Nat /\ before + Len(d) <= Len(Contents(q)) /\ Len(d) \in Nat
    <2>1. before = SizeTo(q, i - 1)
      BY DEF SizeTo
    <2>2. SizeTo(q, i - 1) \in Nat /\ SizeTo(q, i) = SizeTo(q, i - 1) + Len(d)
      BY <1>1, <1>5, SizeStep
    <2>3. SizeTo(q, i) <= SizeTo(q, Len(q)) /\ SizeTo(q, Len(q)) = Len(Contents(q))
      <3>1. i \in 0 .. Len(q) /\ Len(q) \in i .. Len(q)
        BY <1>1, <1>5
      <3> QED BY <1>1, <3>1, SizeMono, SizeEnds
    <2>4. Len(d) \in Nat
      <3>1. q[i] \in AChunk
        BY <1>1, <1>5
      <3> QED BY <3>1 DEF AChunk
    <2> HIDE DEF before, d
    <2> QED BY <2>1, <2>2, <2>3, <2>4
  <1>7. before < LineMax
    <2>1. CASE i = 1
      <3>1. before = 0
        <4>1. SubSeq(q, 1, i - 1) = <<>>
          BY <1>1, <2>1, SubSeqEmpty
        <4>2. before = Len(<<>>)
          BY <4>1, ContentsEmpty, Zenon
        <4> HIDE DEF before
        <4> QED BY <4>2
      <3> HIDE DEF before
      <3> QED BY <1>1, <3>1
    <2>2. CASE i # 1
      <3>1. i - 1 \in 1 .. Len(q) /\ ~(i <= i - 1)
        BY <1>1, <1>5, <2>2
      <3>2. i - 1 \notin Stops(q)
        BY <1>4, <3>1
      <3>3. ~(before >= LineMax)
        BY <3>1, <3>2 DEF Stops
      <3> HIDE DEF before
      <3> QED BY <1>1, <1>6, <3>3
    <2> QED BY <2>1, <2>2
  <1>8. l \in 0 .. Len(d)
    <2> HIDE DEF before, d
    <2>1. LineMax - before \in Nat
      BY <1>1, <1>6, <1>7
    <2>2. l = IF Len(d) <= LineMax - before THEN Len(d) ELSE LineMax - before
      BY <1>6, <2>1, MinTwo
    <2> QED BY <1>6, <2>1, <2>2
  <1>9. nl \in Nat
    <2> DEFINE at == {j \in 1 .. Len(q[i].data) : stream[q[i].data[j]] = NL}
    <2>1. nl = IF at = {} THEN 0 ELSE Min(at)
      BY Zenon DEF Newline
    <2>2. at \in SUBSET Nat
      OBVIOUS
    <2> HIDE DEF at, nl
    <2> QED BY <2>1, <2>2, MinIn
  <1>10. n \in 0 .. Len(d)
    <2> HIDE DEF d, l, nl
    <2> QED BY <1>6, <1>8, <1>9
  <1>11. count \in 0 .. Len(Contents(q))
    <2> HIDE DEF before, d, n
    <2>1. Min({LineMax, Len(Contents(q))}) = IF LineMax <= Len(Contents(q)) THEN LineMax ELSE Len(Contents(q))
      BY <1>1, MinTwo
    <2>2. Min({LineMax, Len(Contents(q))}) \in 0 .. Len(Contents(q))
      BY <1>1, <2>1
    <2> HIDE <2>1
    <2> QED BY <1>1, <1>6, <1>10, <2>2
  <1>12. Taken(q, i).count = count
    BY Zenon DEF Taken
  <1> HIDE DEF count
  <1> QED BY <1>3, <1>11, <1>12, Zenon

-----------------------------------------------------------------------------
(* One lemma for each action. *)

LEMMA SendqAddKeeps ==
    ASSUME Inv, NEW len \in Lengths, SendqAdd(len)
    PROVE  Inv'
  <1>1. len \in Nat
    BY DatastreamAssumption DEF DatastreamAssumption
  <1>2. /\ UNCHANGED <<recvq, got, wire, state>> /\ asked' = asked + len
        /\ flags' \in {flags, flags \union {"DEAD"}}
        /\ sendq' \in {sendq, Fill(sendq, [i \in 1 .. len |-> asked + i])}
        /\ selwrite' \in {selwrite, selwrite \/ ~sendq_nonempty}
    BY DEF SendqAdd, recvVars
  <1>3. [i \in 1 .. len |-> asked + i] \in Seq(Nat)
    BY <1>1 DEF Inv
  <1>4. GoodQueue(sendq')
    BY <1>2, <1>3, FillResult, Zenon DEF Inv
  <1>5. asked' \in Nat /\ flags' \in SUBSET Flags /\ selwrite' \in BOOLEAN
    <2>1. asked' \in Nat
      BY <1>1, <1>2 DEF Inv
    <2>2. flags' \in SUBSET Flags
      BY <1>2 DEF Inv, Flags
    <2>3. selwrite' \in BOOLEAN
      BY <1>2, Zenon DEF Inv
    <2> QED BY <2>1, <2>2, <2>3
  <1> QED BY <1>2, <1>4, <1>5, Zenon DEF Inv

LEMMA SendqAddEofKeeps ==
    ASSUME Inv, SendqAddEof
    PROVE  Inv'
  <1>1. /\ UNCHANGED <<recvq, got, wire, state, sendq, asked>>
        /\ flags' = flags \union {"SEND_EOF"}
        /\ selwrite' = (selwrite \/ ~sendq_nonempty)
    BY Zenon DEF SendqAddEof, recvVars
  <1>2. flags' \in SUBSET Flags
    BY <1>1 DEF Inv, Flags
  <1>3. selwrite' \in BOOLEAN
    BY <1>1, Zenon
  <1> QED BY <1>1, <1>2, <1>3, Zenon DEF Inv

LEMMA SendqFlushKeeps ==
    ASSUME Inv, NEW k \in 0 .. Len(Contents(sendq)), SendqFlush(k)
    PROVE  Inv'
  <1>1. /\ UNCHANGED <<recvq, got, state, asked>>
        /\ wire' = wire \o SubSeq(Contents(sendq), 1, k)
        /\ sendq' = Consume(sendq, k)
        /\ flags' \in {flags, flags \union {"DEAD"}, flags \union {"SEND_DEAD"}}
        /\ selwrite' \in {selwrite, FALSE}
    <2>1. flags \union {} = flags
      OBVIOUS
    <2> QED BY <2>1 DEF SendqFlush, recvVars
  <1>2. GoodQueue(sendq')
    BY <1>1, ConsumeResult DEF Inv
  <1>3. wire' \in Seq(Nat)
    <2>1. Contents(sendq) \in Seq(Nat)
      BY ContentsType DEF Inv, GoodQueue
    <2>2. SubSeq(Contents(sendq), 1, k) \in Seq(Nat)
      BY <2>1
    <2> QED BY <1>1, <2>2, ConcatNat, Zenon DEF Inv
  <1>4. flags' \in SUBSET Flags
    BY <1>1 DEF Inv, Flags
  <1>5. selwrite' \in BOOLEAN
    BY <1>1, Zenon DEF Inv
  <1> QED BY <1>1, <1>2, <1>3, <1>4, <1>5, Zenon DEF Inv

LEMMA RecvqPutKeeps ==
    ASSUME Inv, NEW k \in 0 .. SENDQSIZE, RecvqPut(k)
    PROVE  Inv'
  <1> DEFINE q == Room(recvq)
             x == [i \in 1 .. k |-> got + i]
  <1>1. /\ UNCHANGED <<sendq, selwrite, asked, wire, flags>>
        /\ k <= SENDQSIZE - Last(q).firstfree
        /\ recvq' = Append(Front(q), Chunk(Last(q).data \o x, Last(q).firstfree + k))
        /\ got' = got + k /\ state' = "reading"
    BY Zenon DEF RecvqPut, sendVars
  <1>2. k \in Nat /\ got \in Nat
    BY DatastreamAssumption DEF Inv, DatastreamAssumption
  <1>3. x \in Seq(Nat) /\ Len(x) = k
    BY <1>2
  <1>4. GoodQueue(q) /\ q # <<>>
    BY RoomGood DEF Inv
  <1> HIDE DEF q, x
  <1>5. GoodQueue(recvq')
    BY <1>1, <1>3, <1>4, GrownGood, Zenon
  <1>6. got' \in Nat
    BY <1>1, <1>2
  <1> QED BY <1>1, <1>5, <1>6, Zenon DEF Inv

LEMMA GetLineKeeps ==
    ASSUME Inv, GetLine
    PROVE  Inv'
  <1>1. /\ UNCHANGED <<sendq, selwrite, asked, wire, got>>
        /\ state' \in {"open", "reading"}
        /\ flags' \in {flags, flags \ {"NONEWLINE"}, flags \union {"NONEWLINE"}}
        /\ \/ recvq' = recvq
           \/ /\ Stops(recvq) # {}
              /\ recvq' = Consume(recvq, Taken(recvq, Min(Stops(recvq))).count)
    BY DEF GetLine, sendVars
  <1>2. GoodQueue(recvq')
    BY <1>1, TakenCount, ConsumeResult DEF Inv
  <1>3. flags' \in SUBSET Flags
    BY <1>1 DEF Inv, Flags
  <1> QED BY <1>1, <1>2, <1>3, Zenon DEF Inv

LEMMA CloseKeeps ==
    ASSUME Inv, Close
    PROVE  Inv'
  BY EmptyGood, Zenon DEF Inv, Close

LEMMA CloseSoonKeeps ==
    ASSUME Inv, CloseSoon
    PROVE  Inv'
  <1>1. /\ UNCHANGED <<recvq, got, sendq, asked, wire>> /\ state' = "soon"
        /\ flags' = flags \union {"DEAD"} /\ selwrite' = FALSE
    BY Zenon DEF CloseSoon, recvVars
  <1>2. flags' \in SUBSET Flags
    BY <1>1 DEF Inv, Flags
  <1> QED BY <1>1, <1>2, Zenon DEF Inv

LEMMA InvHolds == Spec => []Inv
  <1>1. Init => Inv
    <2>1. <<>> \in Seq(Nat) /\ 0 \in Nat /\ {} \in SUBSET Flags
      OBVIOUS
    <2> QED BY <2>1, EmptyGood, Zenon DEF Init, Inv
  <1>2. Inv /\ [Next]_vars => Inv'
    <2> SUFFICES ASSUME Inv, [Next]_vars PROVE Inv'
      OBVIOUS
    <2>1. CASE UNCHANGED vars
      BY <2>1 DEF vars, sendVars, recvVars, Inv, GoodQueue
    <2>2. CASE Next
      BY <2>2, SendqAddKeeps, SendqAddEofKeeps, SendqFlushKeeps, RecvqPutKeeps, GetLineKeeps,
         CloseKeeps, CloseSoonKeeps, Zenon DEF Next
    <2> QED BY <2>1, <2>2
  <1> QED BY <1>1, <1>2, PTL DEF Spec

-----------------------------------------------------------------------------
(* The send queue implements ByteQueue: a step lemma for each action. *)

Held == Contents(sendq)
Shut == ~Running \/ Has("DEAD") \/ Has("SEND_EOF")

LEMMA HeldType == Inv => Held \in Seq(Nat) /\ Len(Held) \in Nat
  BY ContentsType DEF Inv, GoodQueue, Held

\* A step that takes nothing from the queue and does not open it again is a
\* Send of nothing.
LEMMA SendNothing ==
    ASSUME Inv, UNCHANGED <<asked, wire>>, Held' = Held, Shut => Shut'
    PROVE  Queue!Send(0)
  <1>1. Held \in Seq(Nat) /\ Len(Held) \in Nat /\ wire \in Seq(Nat)
    BY HeldType DEF Inv
  <1>2. SubSeq(Held, 1, 0) = <<>> /\ wire \o <<>> = wire
    BY <1>1, SubSeqEmpty
  <1>3. SubSeq(Held, 0 + 1, Len(Held)) = Held
    BY <1>1, SubSeqFull
  <1>4. 0 <= Len(Held)
    BY <1>1
  <1>5. Shut' \in {Shut, TRUE}
    BY Zenon DEF Shut
  <1> QED BY <1>2, <1>3, <1>4, <1>5, Zenon DEF Queue!Send, Held, Shut

\* Nothing of the queue changes.
LEMMA QueueStutter ==
    ASSUME UNCHANGED <<asked, sendq, wire>>, Shut' = Shut
    PROVE  UNCHANGED Queue!vars
  BY Zenon DEF Queue!vars, Shut

\* sendq_add() takes all it is given, or refuses it for ever.
LEMMA SendqAddMaps ==
    ASSUME Inv, NEW len \in Lengths, SendqAdd(len)
    PROVE  Queue!Put(len) \/ Queue!Refuse(len) \/ UNCHANGED Queue!vars
  <1>0. CASE ~(Has("DEAD") \/ Has("SEND_EOF")) /\ len = 0
    <2>1. asked' = asked + 0 /\ UNCHANGED <<flags, sendq, wire, state>>
      BY <1>0, Zenon DEF SendqAdd
    <2>2. asked + 0 = asked
      BY DEF Inv
    <2>3. Shut' = Shut
      BY <2>1, Zenon DEF Shut, Running, Has
    <2> QED BY <2>1, <2>2, <2>3, QueueStutter, Zenon
  <1>1. CASE Has("DEAD") \/ Has("SEND_EOF")
    <2>1. asked' = asked + len /\ UNCHANGED <<flags, sendq, wire, state>>
      BY <1>1, Zenon DEF SendqAdd
    <2>2. Shut'
      BY <1>1, <2>1, Zenon DEF Shut, Has
    <2>3. Shut' = TRUE
      BY <2>2, Zenon DEF Shut
    <2> QED BY <2>1, <2>3, Zenon DEF Queue!Refuse, Shut
  <1>2. CASE ~(Has("DEAD") \/ Has("SEND_EOF")) /\ len # 0 /\ OverLimit(len)
    <2>1. asked' = asked + len /\ UNCHANGED <<sendq, wire, state>> /\ flags' = flags \union {"DEAD"}
      BY <1>2, Zenon DEF SendqAdd
    <2>2. "DEAD" \in flags'
      BY <2>1
    <2>3. Shut' = TRUE
      BY <2>2, Zenon DEF Shut, Has
    <2> QED BY <2>1, <2>3, Zenon DEF Queue!Refuse, Shut
  <1>3. CASE ~(Has("DEAD") \/ Has("SEND_EOF")) /\ len # 0 /\ ~OverLimit(len)
    <2>1. /\ asked' = asked + len /\ UNCHANGED <<flags, wire, state>> /\ Running
          /\ sendq' = Fill(sendq, [i \in 1 .. len |-> asked + i])
      BY <1>3, Zenon DEF SendqAdd
    <2>2. ~Shut /\ Shut' = Shut
      BY <1>3, <2>1, Zenon DEF Shut, Running, Has
    <2>3. [i \in 1 .. len |-> asked + i] = Queue!Bytes(asked, asked + len)
          /\ [i \in 1 .. len |-> asked + i] \in Seq(Nat)
      <3>1. len \in Nat /\ asked \in Nat
        BY DatastreamAssumption DEF DatastreamAssumption, Inv
      <3>2. (asked + len) - asked = len
        BY <3>1
      <3> QED BY <3>1, <3>2 DEF Queue!Bytes
    <2>4. Held' = Held \o Queue!Bytes(asked, asked + len)
      BY <2>1, <2>3, FillResult, Zenon DEF Inv, Held
    <2> QED BY <2>1, <2>2, <2>4, Zenon DEF Queue!Put, Held, Shut
  <1> QED BY <1>0, <1>1, <1>2, <1>3

LEMMA SendqAddEofMaps ==
    ASSUME Inv, SendqAddEof
    PROVE  Queue!Send(0)
  <1>1. UNCHANGED <<asked, wire, sendq, state>> /\ flags' = flags \union {"SEND_EOF"}
    BY Zenon DEF SendqAddEof
  <1>2. "SEND_EOF" \in flags'
    BY <1>1
  <1>3. Held' = Held /\ (Shut => Shut')
    BY <1>1, <1>2, Zenon DEF Held, Shut, Has
  <1> QED BY <1>1, <1>3, SendNothing

LEMMA SendqFlushMaps ==
    ASSUME Inv, NEW k \in 0 .. Len(Contents(sendq)), SendqFlush(k)
    PROVE  Queue!Send(k)
  <1>1. /\ UNCHANGED <<state, asked>>
        /\ wire' = wire \o SubSeq(Contents(sendq), 1, k)
        /\ sendq' = Consume(sendq, k)
        /\ flags \subseteq flags'
        /\ "SEND_EOF" \in flags' => "SEND_EOF" \in flags
    BY DEF SendqFlush
  <1>2. Held' = SubSeq(Held, k + 1, Len(Held))
    BY <1>1, ConsumeResult DEF Inv, Held
  <1>3. Shut' \in {Shut, TRUE}
    BY <1>1, Zenon DEF Shut, Running, Has
  <1>4. k <= Len(Held)
    BY HeldType DEF Held
  <1> QED BY <1>1, <1>2, <1>3, <1>4, Zenon DEF Queue!Send, Held, Shut

LEMMA CloseMaps ==
    ASSUME Close
    PROVE  Queue!Drop
  <1>1. UNCHANGED <<asked, wire>> /\ sendq' = <<>> /\ state' = "closed"
    BY Zenon DEF Close
  <1>2. Shut' = TRUE
    BY <1>1, Zenon DEF Shut, Running
  <1> QED BY <1>1, <1>2, ContentsEmpty, Zenon DEF Queue!Drop, Shut

LEMMA CloseSoonMaps ==
    ASSUME Inv, CloseSoon
    PROVE  Queue!Send(0)
  <1>1. UNCHANGED <<asked, wire, sendq>> /\ flags' = flags \union {"DEAD"}
    BY Zenon DEF CloseSoon
  <1>2. "DEAD" \in flags'
    BY <1>1
  <1>3. Held' = Held /\ (Shut => Shut')
    BY <1>1, <1>2, Zenon DEF Held, Shut, Has
  <1> QED BY <1>1, <1>3, SendNothing

LEMMA RecvqPutMaps ==
    ASSUME NEW k \in 0 .. SENDQSIZE, RecvqPut(k)
    PROVE  UNCHANGED Queue!vars
  <1>1. UNCHANGED <<asked, wire, sendq, flags>> /\ state = "open" /\ state' = "reading"
    BY Zenon DEF RecvqPut, sendVars
  <1>2. Shut' = Shut
    BY <1>1, Zenon DEF Shut, Running, Has
  <1> QED BY <1>1, <1>2, QueueStutter

LEMMA GetLineMaps ==
    ASSUME GetLine
    PROVE  UNCHANGED Queue!vars
  <1>1. /\ UNCHANGED <<asked, wire, sendq>> /\ state = "reading" /\ state' \in {"open", "reading"}
        /\ flags' \in {flags, flags \ {"NONEWLINE"}, flags \union {"NONEWLINE"}}
    BY DEF GetLine, sendVars
  <1>2. ("DEAD" \in flags' <=> "DEAD" \in flags) /\ ("SEND_EOF" \in flags' <=> "SEND_EOF" \in flags)
    BY <1>1
  <1>3. Shut' = Shut
    BY <1>1, <1>2, Zenon DEF Shut, Running, Has
  <1> QED BY <1>1, <1>3, QueueStutter

\* The chunked queue of the code, with its limit, partial writes, pending EOF
\* and the two ways to close, implements the queue its callers rely on.
THEOREM ImplementsQueue == Spec => Implements
  <1>1. Init => Queue!Init
    <2> SUFFICES ASSUME Init PROVE Queue!Init
      OBVIOUS
    <2>1. sendq = <<>> /\ flags = {} /\ state = "open" /\ asked = 0 /\ wire = <<>>
      BY Zenon DEF Init
    <2>2. Shut = FALSE
      <3>1. "DEAD" \notin flags /\ "SEND_EOF" \notin flags
        BY <2>1
      <3> QED BY <2>1, <3>1, Zenon DEF Shut, Running, Has
    <2> QED BY <2>1, <2>2, ContentsEmpty, Zenon DEF Queue!Init, Shut
  <1>2. Inv /\ [Next]_vars => [Queue!Next]_(Queue!vars)
    <2> SUFFICES ASSUME Inv, [Next]_vars PROVE Queue!Next \/ UNCHANGED Queue!vars
      OBVIOUS
    <2>1. ASSUME NEW len \in Lengths, SendqAdd(len) PROVE Queue!Next \/ UNCHANGED Queue!vars
      BY <2>1, SendqAddMaps, Zenon DEF Queue!Next
    <2>0. Queue!Send(0) => Queue!Next
      <3>1. 0 \in 0 .. Len(Held)
        BY HeldType
      <3> QED BY <3>1, Zenon DEF Queue!Next, Held
    <2>2. CASE SendqAddEof
      BY <2>0, <2>2, SendqAddEofMaps
    <2>3. ASSUME NEW k \in 0 .. Len(Contents(sendq)), SendqFlush(k) PROVE Queue!Next
      BY <2>3, SendqFlushMaps, Zenon DEF Queue!Next
    <2>4. ASSUME NEW k \in 0 .. SENDQSIZE, RecvqPut(k) PROVE UNCHANGED Queue!vars
      BY <2>4, RecvqPutMaps
    <2>5. CASE GetLine
      BY <2>5, GetLineMaps
    <2>6. CASE Close
      BY <2>6, CloseMaps, Zenon DEF Queue!Next
    <2>7. CASE CloseSoon
      BY <2>0, <2>7, CloseSoonMaps
    <2>8. CASE UNCHANGED vars
      <3>1. UNCHANGED <<asked, wire, sendq, flags, state>>
        BY <2>8, Zenon DEF vars, sendVars
      <3>2. Shut' = Shut
        BY <3>1, Zenon DEF Shut, Running, Has
      <3> QED BY <3>1, <3>2, QueueStutter
    <2> QED BY <2>1, <2>2, <2>3, <2>4, <2>5, <2>6, <2>7, <2>8, Zenon DEF Next
  <1> QED BY <1>1, <1>2, InvHolds, PTL DEF Spec, Implements, Queue!Spec

-----------------------------------------------------------------------------
(* What follows from the invariant, and what the event loop is asked to do. *)

\* Both queues are well formed at every moment: only the last chunk is ever
\* empty, where sendq_flush() and recvq_getline() end their loops, and no
\* chunk is written beyond its size.
THEOREM TypeCorrect == Spec => []TypeOK
  <1>1. Inv => TypeOK
    BY DEF Inv, TypeOK, GoodQueue, IsQueue, Flags
  <1> QED BY <1>1, InvHolds, PTL

LEMMA BoundedNext ==
    ASSUME Inv, SendqBounded, [Next]_vars
    PROVE  SendqBounded'
  <1> SUFFICES ASSUME sendq_limit # 0
               PROVE  Len(sendq') * SENDQSIZE < sendq_limit + SENDQSIZE
    BY DEF SendqBounded
  <1>1. SENDQSIZE \in Nat \ {0} /\ sendq_limit \in Nat /\ Len(sendq) \in Nat
    BY DatastreamAssumption DEF DatastreamAssumption, Inv, GoodQueue
  <1>2. Len(sendq) * SENDQSIZE < sendq_limit + SENDQSIZE /\ Len(sendq) * SENDQSIZE \in Nat
    BY <1>1 DEF SendqBounded
  <1>3. ASSUME NEW len \in Lengths, SendqAdd(len)
        PROVE  Len(sendq') * SENDQSIZE < sendq_limit + SENDQSIZE
    <2>1. CASE sendq' = sendq
      BY <1>2, <2>1
    <2>2. CASE sendq' # sendq
      <3>1. ~OverLimit(len) /\ sendq' = Fill(sendq, [i \in 1 .. len |-> asked + i])
        BY <1>3, <2>2, Zenon DEF SendqAdd
      <3>2. len \in Nat /\ asked \in Nat
        BY DatastreamAssumption DEF DatastreamAssumption, Inv
      <3>3. PICK b \in Seq(Nat) : b = [i \in 1 .. len |-> asked + i] /\ Len(b) = len
        <4>1. [i \in 1 .. len |-> asked + i] \in Seq(Nat) /\ Len([i \in 1 .. len |-> asked + i]) = len
          BY <3>2
        <4> QED BY <4>1, Zenon
      <3>4. Len(Fill(sendq, b)) * SENDQSIZE < Len(sendq) * SENDQSIZE + Len(b) + SENDQSIZE
        BY <3>3, FillResult, Zenon DEF Inv
      <3>5. ~(Len(sendq) * SENDQSIZE + len > sendq_limit)
        BY <3>1, Zenon DEF OverLimit
      <3>6. GoodQueue(sendq')
        BY <3>1, <3>3, FillResult, Zenon DEF Inv
      <3>7. Len(sendq') \in Nat
        BY <3>6 DEF GoodQueue
      <3>8. Len(sendq') * SENDQSIZE < Len(sendq) * SENDQSIZE + len + SENDQSIZE
        BY <3>1, <3>3, <3>4, Zenon
      <3>9. Len(sendq') * SENDQSIZE \in Nat
        BY <1>1, <3>7
      <3> QED BY <1>1, <1>2, <3>2, <3>5, <3>8, <3>9
    <2> QED BY <2>1, <2>2
  <1>4. ASSUME NEW k \in 0 .. Len(Contents(sendq)), SendqFlush(k)
        PROVE  Len(sendq') * SENDQSIZE < sendq_limit + SENDQSIZE
    <2>1. sendq' = Consume(sendq, k)
      BY <1>4, Zenon DEF SendqFlush
    <2>2. GoodQueue(sendq') /\ Len(sendq') <= Len(sendq)
      BY <2>1, ConsumeResult, Zenon DEF Inv
    <2>3. Len(sendq') \in Nat
      BY <2>2 DEF GoodQueue
    <2>4. Len(sendq') * SENDQSIZE <= Len(sendq) * SENDQSIZE
      <3>1. SENDQSIZE \in Nat
        BY <1>1
      <3> QED BY <1>1, <2>2, <2>3, <3>1, TimesMono, Zenon
    <2>5. Len(sendq') * SENDQSIZE \in Nat
      BY <1>1, <2>3
    <2> QED BY <1>1, <1>2, <2>4, <2>5
  <1>5. CASE Close
    <2>1. sendq' = <<>>
      BY <1>5, Zenon DEF Close
    <2>2. Len(sendq') = 0
      BY <2>1
    <2>3. 0 * SENDQSIZE = 0
      BY <1>1
    <2> QED BY <1>1, <2>2, <2>3
  <1>6. CASE sendq' = sendq
    BY <1>2, <1>6
  <1>7. ASSUME NEW k \in 0 .. SENDQSIZE, RecvqPut(k) PROVE sendq' = sendq
    BY <1>7, Zenon DEF RecvqPut, sendVars
  <1>8. SendqAddEof \/ GetLine \/ CloseSoon \/ UNCHANGED vars => sendq' = sendq
    BY Zenon DEF SendqAddEof, GetLine, CloseSoon, vars, sendVars
  <1> QED BY <1>3, <1>4, <1>5, <1>6, <1>7, <1>8, Zenon DEF Next

\* The limit on a send queue is kept by chunks, whatever is written.
THEOREM LimitKept == Spec => []SendqBounded
  <1>1. Init => SendqBounded
    <2> SUFFICES ASSUME Init, sendq_limit # 0 PROVE Len(sendq) * SENDQSIZE < sendq_limit + SENDQSIZE
      BY DEF SendqBounded
    <2>1. sendq = <<>>
      BY Zenon DEF Init
    <2>2. Len(sendq) = 0
      BY <2>1
    <2>3. SENDQSIZE \in Nat \ {0} /\ sendq_limit \in Nat /\ 0 * SENDQSIZE = 0
      BY DatastreamAssumption DEF DatastreamAssumption
    <2> QED BY <2>2, <2>3
  <1>2. Inv /\ SendqBounded /\ [Next]_vars => SendqBounded'
    BY BoundedNext
  <1> QED BY <1>1, <1>2, InvHolds, PTL DEF Spec

\* An EOF that was sent was asked for.
EofAsked == Has("SEND_DEAD") => Has("SEND_EOF")

LEMMA InterestNext ==
    ASSUME Inv, EofAsked, WriteInterest, [Next]_vars
    PROVE  EofAsked' /\ WriteInterest'
  <1> DEFINE First(q) == q # <<>> /\ q[1].data # <<>>
  <1>f. \A q : GoodQueue(q) => (First(q) <=> Contents(q) # <<>>)
    BY FirstHolds
  <1>n. sendq_nonempty <=> ("SEND_DEAD" \notin flags /\ ("SEND_EOF" \in flags \/ First(sendq)))
    BY Zenon DEF sendq_nonempty, Has
  <1>p. sendq_nonempty' <=> ("SEND_DEAD" \notin flags' /\ ("SEND_EOF" \in flags' \/ First(sendq')))
    BY Zenon DEF sendq_nonempty, Has
  <1>e. "SEND_DEAD" \in flags => "SEND_EOF" \in flags
    BY Zenon DEF EofAsked, Has
  <1>w. Running => (selwrite <=> sendq_nonempty)
    BY Zenon DEF WriteInterest
  <1> HIDE DEF First
  <1>a. ASSUME "SEND_DEAD" \in flags' => "SEND_EOF" \in flags',
               Running' => (selwrite' <=> sendq_nonempty')
        PROVE  EofAsked' /\ WriteInterest'
    BY <1>a, Zenon DEF EofAsked, WriteInterest, Has
  <1>1. ASSUME NEW len \in Lengths, SendqAdd(len) PROVE EofAsked' /\ WriteInterest'
    <2>0. Running /\ Running' <=> Running
      BY <1>1, Zenon DEF SendqAdd, Running
    <2>1. CASE sendq' = sendq /\ selwrite' = selwrite /\ flags' \in {flags, flags \union {"DEAD"}}
      <3>1. ("SEND_DEAD" \in flags' <=> "SEND_DEAD" \in flags) /\ ("SEND_EOF" \in flags' <=> "SEND_EOF" \in flags)
        BY <2>1
      <3>2. First(sendq') <=> First(sendq)
        BY <2>1, Zenon
      <3> QED BY <1>1, <2>1, <3>1, <3>2, <1>n, <1>p, <1>e, <1>w, <1>a, Zenon DEF SendqAdd, Running
    <2>2. CASE /\ ~Has("SEND_EOF") /\ len # 0 /\ flags' = flags /\ selwrite' = (selwrite \/ ~sendq_nonempty)
               /\ sendq' = Fill(sendq, [i \in 1 .. len |-> asked + i]) /\ state' = state
      <3>1. "SEND_EOF" \notin flags /\ "SEND_DEAD" \notin flags
        BY <2>2, <1>e, Zenon DEF Has
      <3>2. PICK b \in Seq(Nat) : b = [i \in 1 .. len |-> asked + i] /\ Len(b) > 0
        <4>1. len \in Nat \ {0} /\ asked \in Nat
          BY <2>2, DatastreamAssumption DEF DatastreamAssumption, Inv
        <4>2. [i \in 1 .. len |-> asked + i] \in Seq(Nat) /\ Len([i \in 1 .. len |-> asked + i]) = len
          BY <4>1
        <4>3. len > 0
          BY <4>1
        <4> QED BY <4>2, <4>3, Zenon
      <3>3. GoodQueue(sendq') /\ Contents(sendq') = Contents(sendq) \o b
        BY <2>2, <3>2, FillResult, Zenon DEF Inv
      <3>4. Contents(sendq) \in Seq(Nat)
        BY ContentsType DEF Inv, GoodQueue
      <3>5. Contents(sendq') # <<>>
        <4>1. Len(Contents(sendq) \o b) > 0
          <5>1. /\ Len(Contents(sendq) \o b) = Len(Contents(sendq)) + Len(b)
                /\ Len(Contents(sendq)) \in Nat /\ Len(b) \in Nat /\ Len(b) > 0
            BY <3>2, <3>4, ConcatNat, Zenon
          <5> QED BY <5>1
        <4>2. Len(Contents(sendq')) > 0
          BY <3>3, <4>1, Zenon
        <4> QED BY <4>2
      <3>6. First(sendq')
        BY <1>f, <3>3, <3>5, Zenon
      <3>7. Running
        BY <1>1, Zenon DEF SendqAdd
      <3> QED BY <2>2, <3>1, <3>6, <3>7, <1>n, <1>p, <1>w, <1>a, Zenon
    <2> QED BY <1>1, <2>1, <2>2 DEF SendqAdd
  <1>2. ASSUME SendqAddEof PROVE EofAsked' /\ WriteInterest'
    <2>1. /\ Running /\ "SEND_EOF" \notin flags /\ flags' = flags \union {"SEND_EOF"}
          /\ selwrite' = (selwrite \/ ~sendq_nonempty)
      BY <1>2, Zenon DEF SendqAddEof, Has
    <2>2. "SEND_EOF" \in flags' /\ "SEND_DEAD" \notin flags'
      BY <1>e, <2>1
    <2> QED BY <2>1, <2>2, <1>n, <1>p, <1>w, <1>a, Zenon
  <1>3. ASSUME NEW k \in 0 .. Len(Contents(sendq)), SendqFlush(k) PROVE EofAsked' /\ WriteInterest'
    <2> DEFINE b == Contents(sendq)
    <2>0. Running /\ sendq' = Consume(sendq, k)
      BY <1>3, Zenon DEF SendqFlush
    <2>1. b \in Seq(Nat) /\ GoodQueue(sendq)
      BY ContentsType DEF Inv, GoodQueue
    <2>2. GoodQueue(sendq') /\ Contents(sendq') = SubSeq(b, k + 1, Len(b))
      BY <2>0, ConsumeResult, Zenon DEF Inv
    <2>3. CASE /\ k < Len(b) /\ flags' \in {flags, flags \union {"DEAD"}} /\ selwrite' = selwrite
      <3>1. ("SEND_DEAD" \in flags' <=> "SEND_DEAD" \in flags) /\ ("SEND_EOF" \in flags' <=> "SEND_EOF" \in flags)
        BY <2>3
      <3>2. b # <<>> /\ Len(SubSeq(b, k + 1, Len(b))) > 0
        <4> HIDE DEF b
        <4> QED BY <2>1, <2>3
      <3>3. Contents(sendq') # <<>>
        <4>1. Len(Contents(sendq')) > 0
          BY <2>2, <3>2, Zenon
        <4> QED BY <4>1
      <3>4. First(sendq) /\ First(sendq')
        BY <1>f, <2>1, <2>2, <3>2, <3>3, Zenon
      <3> QED BY <2>0, <2>3, <3>1, <3>4, <1>n, <1>p, <1>e, <1>w, <1>a, Zenon
    <2>4. CASE /\ k = Len(b) /\ selwrite' = FALSE
               /\ flags' = flags \union (IF Has("SEND_EOF") THEN {"SEND_DEAD"} ELSE {})
      <3>1. ("SEND_EOF" \in flags' <=> "SEND_EOF" \in flags) /\ ("SEND_DEAD" \in flags' => "SEND_EOF" \in flags)
            /\ ("SEND_EOF" \in flags => "SEND_DEAD" \in flags')
        BY <2>4, <1>e DEF Has
      <3>2. Contents(sendq') = <<>>
        <4>1. Len(b) \in Nat /\ Len(b) < Len(b) + 1
          BY <2>1
        <4>2. SubSeq(b, Len(b) + 1, Len(b)) = <<>>
          BY <4>1, SubSeqEmpty
        <4> QED BY <2>2, <2>4, <4>2, Zenon
      <3>3. ~First(sendq')
        BY <1>f, <2>2, <3>2, Zenon
      <3> QED BY <2>4, <3>1, <3>3, <1>p, <1>a, Zenon
    <2>5. flags \union {} = flags
      OBVIOUS
    <2> QED BY <1>3, <2>3, <2>4, <2>5 DEF SendqFlush
  <1>4. ASSUME NEW k \in 0 .. SENDQSIZE, RecvqPut(k) PROVE EofAsked' /\ WriteInterest'
    <2>1. UNCHANGED <<sendq, selwrite, flags>> /\ state = "open"
      BY <1>4, Zenon DEF RecvqPut, sendVars
    <2>2. Running
      BY <2>1, Zenon DEF Running
    <2> QED BY <2>1, <2>2, <1>n, <1>p, <1>e, <1>w, <1>a, Zenon
  <1>5. ASSUME GetLine PROVE EofAsked' /\ WriteInterest'
    <2>1. /\ UNCHANGED <<sendq, selwrite>> /\ state = "reading"
          /\ flags' \in {flags, flags \ {"NONEWLINE"}, flags \union {"NONEWLINE"}}
      BY <1>5 DEF GetLine, sendVars
    <2>2. Running
      BY <2>1, Zenon DEF Running
    <2>3. ("SEND_DEAD" \in flags' <=> "SEND_DEAD" \in flags) /\ ("SEND_EOF" \in flags' <=> "SEND_EOF" \in flags)
      BY <2>1
    <2> QED BY <2>1, <2>2, <2>3, <1>n, <1>p, <1>e, <1>w, <1>a, Zenon
  <1>6. ASSUME Close \/ CloseSoon PROVE EofAsked' /\ WriteInterest'
    <2>1. state' \in {"closed", "soon"} /\ flags' \in {flags, flags \union {"DEAD"}}
      BY <1>6 DEF Close, CloseSoon
    <2>2. ~Running'
      BY <2>1 DEF Running
    <2>3. ("SEND_DEAD" \in flags' <=> "SEND_DEAD" \in flags) /\ ("SEND_EOF" \in flags' <=> "SEND_EOF" \in flags)
      BY <2>1
    <2> QED BY <2>2, <2>3, <1>e, <1>a, Zenon
  <1>7. ASSUME UNCHANGED vars PROVE EofAsked' /\ WriteInterest'
    <2>1. UNCHANGED <<sendq, selwrite, flags, state>>
      BY <1>7, Zenon DEF vars, sendVars
    <2> QED BY <2>1, <1>n, <1>p, <1>e, <1>w, <1>a, Zenon DEF Running
  <1> QED BY <1>1, <1>2, <1>3, <1>4, <1>5, <1>6, <1>7, Zenon DEF Next

\* The event loop is asked to call sendq_flush() exactly while there is
\* something to send, an EOF included: sendq_add() of no bytes asks for nothing.
THEOREM InterestExact == Spec => []WriteInterest
  <1>1. Init => EofAsked /\ WriteInterest
    <2> SUFFICES ASSUME Init PROVE EofAsked /\ WriteInterest
      OBVIOUS
    <2>1. sendq = <<>> /\ flags = {} /\ selwrite = FALSE
      BY Zenon DEF Init
    <2> QED BY <2>1 DEF EofAsked, WriteInterest, sendq_nonempty, Has
  <1>2. Inv /\ (EofAsked /\ WriteInterest) /\ [Next]_vars => (EofAsked /\ WriteInterest)'
    BY InterestNext
  <1> QED BY <1>1, <1>2, InvHolds, PTL DEF Spec

-----------------------------------------------------------------------------
(* The promise of the abstract queue, for asked = a, queue = q, wire = w and  *)
(* shut = s: until it is shut it has taken every byte it was asked for.       *)

Gapless(q, w) ==
    /\ \A i \in 1 .. Len(w) : w[i] = i
    /\ \A i \in 1 .. Len(q) : q[i] = Len(w) + i

QueueInv(a, q, w, s) ==
    /\ a \in Nat /\ q \in Seq(Nat) /\ w \in Seq(Nat)
    /\ ~s => a = Len(w) + Len(q)
    /\ Gapless(q, w)

LEMMA PutGapless ==
    ASSUME NEW a, NEW q, NEW w, NEW s, QueueInv(a, q, w, s), ~s, NEW k \in Nat
    PROVE  QueueInv(a + k, q \o Queue!Bytes(a, a + k), w, s)
  <1>1. /\ a \in Nat /\ q \in Seq(Nat) /\ w \in Seq(Nat) /\ Len(q) \in Nat /\ Len(w) \in Nat
        /\ Gapless(q, w)
    BY DEF QueueInv
  <1>2. a = Len(w) + Len(q)
    BY Zenon DEF QueueInv
  <1>3. PICK new \in Seq(Nat) : /\ new = Queue!Bytes(a, a + k) /\ Len(new) = k
                                /\ \A i \in 1 .. k : new[i] = a + i
    <2>1. [i \in 1 .. k |-> a + i] \in Seq(Nat) /\ Len([i \in 1 .. k |-> a + i]) = k
      BY <1>1
    <2>2. Queue!Bytes(a, a + k) = [i \in 1 .. k |-> a + i]
      <3>1. (a + k) - a = k
        BY <1>1
      <3> QED BY <3>1 DEF Queue!Bytes
    <2>3. \A i \in 1 .. k : [j \in 1 .. k |-> a + j][i] = a + i
      OBVIOUS
    <2> QED BY <2>1, <2>2, <2>3, Zenon
  <1>4. PICK u : u = q \o new
    OBVIOUS
  <1>5. u \in Seq(Nat) /\ Len(u) = Len(q) + k
    <2>1. q \o new \in Seq(Nat) /\ Len(q \o new) = Len(q) + Len(new)
      BY <1>1, <1>3, ConcatNat, Zenon
    <2> QED BY <1>3, <1>4, <2>1, Zenon
  <1>6. ASSUME NEW i \in 1 .. Len(u) PROVE u[i] = Len(w) + i
    <2>1. CASE i <= Len(q)
      <3>1. i \in 1 .. Len(q)
        BY <1>1, <1>5, <2>1
      <3>2. u[i] = q[i]
        BY <1>1, <1>3, <1>4, <3>1
      <3> QED BY <1>1, <3>1, <3>2 DEF Gapless
    <2>2. CASE i > Len(q)
      <3>1. i - Len(q) \in 1 .. k
        BY <1>1, <1>5, <2>2
      <3>2. u[i] = new[i - Len(q)]
        BY <1>1, <1>3, <1>4, <1>5, <2>2, <3>1
      <3>3. new[i - Len(q)] = a + (i - Len(q))
        BY <1>3, <3>1
      <3> QED BY <1>1, <1>2, <3>1, <3>2, <3>3
    <2> QED BY <1>1, <2>1, <2>2
  <1>7. Gapless(u, w)
    BY <1>1, <1>6 DEF Gapless
  <1>8. a + k \in Nat /\ a + k = Len(w) + Len(u)
    BY <1>1, <1>2, <1>5
  <1> QED BY <1>1, <1>3, <1>4, <1>5, <1>7, <1>8, Zenon DEF QueueInv

LEMMA SendGapless ==
    ASSUME NEW a, NEW q, NEW w, NEW s, QueueInv(a, q, w, s), NEW k \in 0 .. Len(q),
           NEW s1, s => s1
    PROVE  QueueInv(a, SubSeq(q, k + 1, Len(q)), w \o SubSeq(q, 1, k), s1)
  <1>1. /\ a \in Nat /\ q \in Seq(Nat) /\ w \in Seq(Nat) /\ Len(q) \in Nat /\ Len(w) \in Nat
        /\ Gapless(q, w) /\ k \in Nat
    BY DEF QueueInv
  <1>2. PICK out \in Seq(Nat) : /\ out = SubSeq(q, 1, k) /\ Len(out) = k
                                /\ \A i \in 1 .. k : out[i] = q[i]
    <2>1. SubSeq(q, 1, k) \in Seq(Nat) /\ Len(SubSeq(q, 1, k)) = k
      BY <1>1
    <2>2. \A i \in 1 .. k : SubSeq(q, 1, k)[i] = q[i]
      BY <1>1
    <2> QED BY <2>1, <2>2, Zenon
  <1>3. PICK rest \in Seq(Nat) : /\ rest = SubSeq(q, k + 1, Len(q)) /\ Len(rest) = Len(q) - k
                                 /\ \A i \in 1 .. Len(q) - k : rest[i] = q[k + i]
    <2>1. SubSeq(q, k + 1, Len(q)) \in Seq(Nat) /\ Len(SubSeq(q, k + 1, Len(q))) = Len(q) - k
      BY <1>1
    <2>2. \A i \in 1 .. Len(q) - k : SubSeq(q, k + 1, Len(q))[i] = q[k + i]
      BY <1>1
    <2> QED BY <2>1, <2>2, Zenon
  <1>4. PICK x : x = w \o out
    OBVIOUS
  <1>5. x \in Seq(Nat) /\ Len(x) = Len(w) + k
    <2>1. w \o out \in Seq(Nat) /\ Len(w \o out) = Len(w) + Len(out)
      BY <1>1, <1>2, ConcatNat, Zenon
    <2> QED BY <1>2, <1>4, <2>1, Zenon
  <1>6. ASSUME NEW i \in 1 .. Len(x) PROVE x[i] = i
    <2>1. CASE i <= Len(w)
      <3>1. i \in 1 .. Len(w)
        BY <1>1, <1>5, <2>1
      <3>2. x[i] = w[i]
        BY <1>1, <1>2, <1>4, <3>1
      <3> QED BY <1>1, <3>1, <3>2 DEF Gapless
    <2>2. CASE i > Len(w)
      <3>1. i - Len(w) \in 1 .. k /\ i - Len(w) \in 1 .. Len(q)
        BY <1>1, <1>5, <2>2
      <3>2. x[i] = out[i - Len(w)]
        BY <1>1, <1>2, <1>4, <1>5, <2>2, <3>1
      <3>3. out[i - Len(w)] = q[i - Len(w)]
        BY <1>2, <3>1
      <3>4. q[i - Len(w)] = Len(w) + (i - Len(w))
        BY <1>1, <3>1 DEF Gapless
      <3> QED BY <1>1, <3>1, <3>2, <3>3, <3>4
    <2> QED BY <1>1, <2>1, <2>2
  <1>7. ASSUME NEW i \in 1 .. Len(rest) PROVE rest[i] = Len(x) + i
    <2>1. i \in 1 .. Len(q) - k /\ k + i \in 1 .. Len(q)
      BY <1>1, <1>3
    <2>2. rest[i] = q[k + i] /\ q[k + i] = Len(w) + (k + i)
      BY <1>1, <1>3, <2>1 DEF Gapless
    <2> QED BY <1>1, <1>5, <2>1, <2>2
  <1>8. Gapless(rest, x)
    BY <1>6, <1>7 DEF Gapless
  <1>9. ~s1 => a = Len(x) + Len(rest)
    <2>1. ~s1 => a = Len(w) + Len(q)
      BY Zenon DEF QueueInv
    <2>2. Len(x) + Len(rest) = Len(w) + Len(q)
      <3>1. Len(rest) = Len(q) - k
        BY <1>3, Zenon
      <3> QED BY <1>1, <1>5, <3>1
    <2> QED BY <2>1, <2>2, Zenon
  <1> QED BY <1>1, <1>2, <1>3, <1>4, <1>5, <1>8, <1>9, Zenon DEF QueueInv

LEMMA QueueNext ==
    ASSUME QueueInv(asked, Held, wire, Shut), [Queue!Next]_(Queue!vars)
    PROVE  QueueInv(asked, Held, wire, Shut)'
  <1>1. /\ asked \in Nat /\ Held \in Seq(Nat) /\ wire \in Seq(Nat) /\ Len(wire) \in Nat
        /\ Gapless(Held, wire)
    BY DEF QueueInv
  <1>2. ASSUME NEW k \in Lengths, Queue!Put(k) PROVE QueueInv(asked, Held, wire, Shut)'
    <2>1. /\ ~Shut /\ (Shut' <=> Shut) /\ asked' = asked + k /\ wire' = wire
          /\ Held' = Held \o Queue!Bytes(asked, asked + k)
      BY <1>2, Zenon DEF Queue!Put, Held, Shut
    <2>2. k \in Nat
      BY DatastreamAssumption DEF DatastreamAssumption
    <2>3. QueueInv(asked + k, Held \o Queue!Bytes(asked, asked + k), wire, Shut)
      BY <2>1, <2>2, PutGapless
    <2> QED BY <2>1, <2>3, Zenon DEF QueueInv
  <1>3. ASSUME NEW k \in Lengths, Queue!Refuse(k) PROVE QueueInv(asked, Held, wire, Shut)'
    <2>1. Shut' /\ asked' = asked + k /\ wire' = wire /\ Held' = Held
      BY <1>3, Zenon DEF Queue!Refuse, Held, Shut
    <2>2. asked' \in Nat
      BY <1>1, <2>1, DatastreamAssumption DEF DatastreamAssumption
    <2> QED BY <1>1, <2>1, <2>2, Zenon DEF QueueInv
  <1>4. ASSUME NEW k \in 0 .. Len(Held), Queue!Send(k) PROVE QueueInv(asked, Held, wire, Shut)'
    <2>1. /\ (Shut => Shut') /\ asked' = asked /\ wire' = wire \o SubSeq(Held, 1, k)
          /\ Held' = SubSeq(Held, k + 1, Len(Held))
      <3>1. Shut' \in {Shut, TRUE}
        BY <1>4, Zenon DEF Queue!Send, Shut
      <3>2. Shut => Shut'
        BY <3>1, Zenon DEF Shut
      <3>3. /\ asked' = asked /\ wire' = wire \o SubSeq(Held, 1, k)
            /\ Held' = SubSeq(Held, k + 1, Len(Held))
        BY <1>4, Zenon DEF Queue!Send, Held
      <3> QED BY <3>2, <3>3
    <2>2. QueueInv(asked, SubSeq(Held, k + 1, Len(Held)), wire \o SubSeq(Held, 1, k), Shut')
      BY <2>1, SendGapless
    <2> QED BY <2>1, <2>2, Zenon
  <1>5. ASSUME Queue!Drop PROVE QueueInv(asked, Held, wire, Shut)'
    <2>1. Shut' /\ asked' = asked /\ wire' = wire /\ Held' = <<>>
      BY <1>5, Zenon DEF Queue!Drop, Held, Shut
    <2>2. <<>> \in Seq(Nat) /\ Len(<<>>) = 0
      OBVIOUS
    <2>3. Gapless(<<>>, wire)
      BY <1>1, <2>2 DEF Gapless
    <2> QED BY <1>1, <2>1, <2>2, <2>3, Zenon DEF QueueInv
  <1>6. ASSUME UNCHANGED Queue!vars PROVE QueueInv(asked, Held, wire, Shut)'
    <2>1. (Shut' <=> Shut) /\ asked' = asked /\ wire' = wire /\ Held' = Held
      BY <1>6, Zenon DEF Queue!vars, Held, Shut
    <2> QED BY <2>1, Zenon DEF QueueInv
  <1> QED BY <1>2, <1>3, <1>4, <1>5, <1>6, Zenon DEF Queue!Next, Held

\* The peer of a connection gets what sendq_add() was given, in order and
\* without a gap, however it was cut into requests, chunks and sends.
THEOREM NeverAGap == Spec => []NoGap
  <1>1. Queue!Init => QueueInv(asked, Held, wire, Shut)
    <2> SUFFICES ASSUME Queue!Init PROVE QueueInv(asked, Held, wire, Shut)
      OBVIOUS
    <2>1. asked = 0 /\ wire = <<>> /\ Held = <<>>
      BY Zenon DEF Queue!Init, Held
    <2>2. <<>> \in Seq(Nat) /\ Len(<<>>) = 0 /\ 0 \in Nat /\ 0 = 0 + 0
      OBVIOUS
    <2>3. Gapless(<<>>, <<>>)
      BY <2>2 DEF Gapless
    <2> QED BY <2>1, <2>2, <2>3, Zenon DEF QueueInv
  <1>2. QueueInv(asked, Held, wire, Shut) /\ [Queue!Next]_(Queue!vars) => QueueInv(asked, Held, wire, Shut)'
    BY QueueNext
  <1>3. QueueInv(asked, Held, wire, Shut) => NoGap
    BY Zenon DEF QueueInv, Gapless, NoGap, Queue!NoGap, Held
  <1> QED BY <1>1, <1>2, <1>3, ImplementsQueue, PTL DEF Implements, Queue!Spec

-----------------------------------------------------------------------------
(* The lines of a stream: what SplitState is, byte by byte. *)

\* A line with the k bytes after the b-th, and no more so far.
InLine(b, k, skip, out) == [cur |-> [i \in 1 .. k |-> b + i], skip |-> skip, out |-> out]

\* The recursive function in SplitState.
Splits(s, n, f) ==
    f = [i \in 0 .. n |-> IF i = 0 THEN [cur |-> <<>>, skip |-> FALSE, out |-> <<>>]
                          ELSE NextByte(s, f[i - 1], i)]

LEMMA SplitsAt ==
    ASSUME NEW s, NEW n \in Nat, NEW f, Splits(s, n, f), NEW i \in 0 .. n
    PROVE  f[i] = IF i = 0 THEN [cur |-> <<>>, skip |-> FALSE, out |-> <<>>]
                  ELSE NextByte(s, f[i - 1], i)
  BY Zenon DEF Splits

LEMMA SplitsMore ==
    ASSUME NEW s, NEW n \in Nat, NEW f, Splits(s, n, f)
    PROVE  \E g : Splits(s, n + 1, g) /\ g[n] = f[n]
  <1> DEFINE start == [cur |-> <<>>, skip |-> FALSE, out |-> <<>>]
             g == [i \in 0 .. n + 1 |-> IF i = 0 THEN start ELSE NextByte(s, f[i - 1], i)]
  <1> HIDE DEF start
  <1>1. ASSUME NEW i \in 0 .. n PROVE g[i] = f[i]
    <2>1. i \in 0 .. n + 1
      OBVIOUS
    <2>2. g[i] = IF i = 0 THEN start ELSE NextByte(s, f[i - 1], i)
      BY <2>1, Zenon
    <2> HIDE DEF g
    <2> QED BY <2>2, SplitsAt, Zenon DEF start
  <1>2. \A i \in 0 .. n + 1 : i # 0 => i - 1 \in 0 .. n
    OBVIOUS
  <1>3. \A i \in 0 .. n + 1 : i # 0 => g[i - 1] = f[i - 1]
    <2> HIDE DEF g
    <2> QED BY <1>1, <1>2
  <1>4. g = [i \in 0 .. n + 1 |-> IF i = 0 THEN start ELSE NextByte(s, g[i - 1], i)]
    BY <1>3
  <1>5. n \in 0 .. n
    OBVIOUS
  <1> QED BY <1>1, <1>4, <1>5, Zenon DEF Splits, start

LEMMA SplitsExist ==
    ASSUME NEW s, NEW n \in Nat
    PROVE  \E f : Splits(s, n, f)
  <1> DEFINE S == {m \in Nat : \E f : Splits(s, m, f)}
  <1>1. 0 \in S
    <2> DEFINE f == [i \in 0 .. 0 |-> [cur |-> <<>>, skip |-> FALSE, out |-> <<>>]]
    <2>1. f = [i \in 0 .. 0 |-> IF i = 0 THEN [cur |-> <<>>, skip |-> FALSE, out |-> <<>>]
                               ELSE NextByte(s, f[i - 1], i)]
      OBVIOUS
    <2>2. Splits(s, 0, f)
      BY <2>1, Zenon DEF Splits
    <2> QED BY <2>2
  <1>2. ASSUME NEW m \in Nat, m \in S PROVE m + 1 \in S
    BY <1>2, SplitsMore
  <1> HIDE DEF S
  <1>3. Nat \subseteq S
    BY <1>1, <1>2, NatInductionSet
  <1> QED BY <1>3 DEF S

\* Two such functions agree.
LEMMA SplitsAgree ==
    ASSUME NEW s, NEW n \in Nat, NEW f, NEW g, Splits(s, n, f), Splits(s, n, g)
    PROVE  f[n] = g[n]
  <1> DEFINE S == {j \in Nat : j <= n => f[j] = g[j]}
  <1>1. 0 \in S
    <2>1. 0 \in 0 .. n
      OBVIOUS
    <2>2. f[0] = g[0]
      BY <2>1, SplitsAt, Zenon
    <2> QED BY <2>2
  <1>2. ASSUME NEW j \in Nat, j \in S PROVE j + 1 \in S
    <2> SUFFICES ASSUME j + 1 <= n PROVE f[j + 1] = g[j + 1]
      OBVIOUS
    <2>1. j + 1 \in 0 .. n /\ j + 1 # 0 /\ (j + 1) - 1 = j
      OBVIOUS
    <2>2. f[j + 1] = NextByte(s, f[(j + 1) - 1], j + 1) /\ g[j + 1] = NextByte(s, g[(j + 1) - 1], j + 1)
      BY <2>1, SplitsAt, Zenon
    <2>3. f[j] = g[j]
      BY <1>2
    <2>4. f[(j + 1) - 1] = f[j] /\ g[(j + 1) - 1] = g[j]
      BY <2>1, Zenon
    <2> QED BY <2>2, <2>3, <2>4, Zenon
  <1> HIDE DEF S
  <1>3. n \in S
    BY <1>1, <1>2, NatInductionSet
  <1> QED BY <1>3 DEF S

LEMMA SplitStateIs ==
    ASSUME NEW s, NEW n \in Nat, NEW f, Splits(s, n, f)
    PROVE  SplitState(s, n) = f[n]
  <1> DEFINE F == CHOOSE h : h = [i \in 0 .. n |-> IF i = 0 THEN [cur |-> <<>>, skip |-> FALSE, out |-> <<>>]
                                                  ELSE NextByte(s, h[i - 1], i)]
  <1>1. SplitState(s, n) = F[n]
    BY DEF SplitState
  <1>2. Splits(s, n, F)
    BY SplitsExist DEF Splits
  <1> HIDE DEF F
  <1> QED BY <1>1, <1>2, SplitsAgree, Zenon

\* Before the first byte, and after one more.
LEMMA SplitFirst == \A s : SplitState(s, 0) = [cur |-> <<>>, skip |-> FALSE, out |-> <<>>]
  <1> TAKE s
  <1>1. 0 \in Nat /\ 0 \in 0 .. 0
    OBVIOUS
  <1>2. PICK f : Splits(s, 0, f)
    BY <1>1, SplitsExist
  <1>3. SplitState(s, 0) = f[0]
    BY <1>1, <1>2, SplitStateIs, Zenon
  <1>4. f[0] = [cur |-> <<>>, skip |-> FALSE, out |-> <<>>]
    BY <1>1, <1>2, SplitsAt, Zenon
  <1> QED BY <1>3, <1>4, Zenon

LEMMA SplitNext ==
    ASSUME NEW s, NEW n \in Nat
    PROVE  SplitState(s, n + 1) = NextByte(s, SplitState(s, n), n + 1)
  <1>1. PICK f : Splits(s, n, f)
    BY SplitsExist
  <1>2. PICK g : Splits(s, n + 1, g) /\ g[n] = f[n]
    BY <1>1, SplitsMore, Zenon
  <1>3. n + 1 \in Nat /\ n + 1 \in 0 .. n + 1 /\ n + 1 # 0 /\ (n + 1) - 1 = n
    OBVIOUS
  <1>4. g[n + 1] = NextByte(s, g[(n + 1) - 1], n + 1)
    BY <1>2, <1>3, SplitsAt, Zenon
  <1>5. SplitState(s, n) = f[n] /\ SplitState(s, n + 1) = g[n + 1]
    BY <1>1, <1>2, <1>3, SplitStateIs, Zenon
  <1> QED BY <1>2, <1>3, <1>4, <1>5, Zenon

\* The k bytes after the b-th end no line that has room for them.
NoEnd(s, b, k) == \A i \in 1 .. k : s[b + i] # NL

\* After b bytes a line begins.
Begins(s, b, skip, out) == SplitState(s, b) = InLine(b, 0, skip, out)

LEMMA OneByteMore ==
    ASSUME NEW b \in Nat, NEW j \in Nat
    PROVE  /\ Append([i \in 1 .. j |-> b + i], b + (j + 1)) = [i \in 1 .. j + 1 |-> b + i]
           /\ Len([i \in 1 .. j + 1 |-> b + i]) = j + 1
  OBVIOUS

\* Bytes that end no line are added to it.
LEMMA LineGrows ==
    ASSUME NEW s, NEW b \in Nat, NEW skip, NEW out, NEW k \in Nat, k < LineMax,
           NoEnd(s, b, k), Begins(s, b, skip, out)
    PROVE  SplitState(s, b + k) = InLine(b, k, skip, out)
  <1> DEFINE S == {j \in Nat : j <= k => SplitState(s, b + j) = InLine(b, j, skip, out)}
  <1>1. 0 \in S
    <2>1. b + 0 = b
      OBVIOUS
    <2> QED BY <2>1 DEF Begins
  <1>2. ASSUME NEW j \in Nat, j \in S PROVE j + 1 \in S
    <2> SUFFICES ASSUME j + 1 <= k PROVE SplitState(s, b + (j + 1)) = InLine(b, j + 1, skip, out)
      OBVIOUS
    <2>1. b + j \in Nat /\ (b + j) + 1 = b + (j + 1) /\ j + 1 \in 1 .. k /\ j + 1 # LineMax
      BY DatastreamAssumption DEF DatastreamAssumption
    <2>2. SplitState(s, b + j) = InLine(b, j, skip, out)
      BY <1>2, <2>1
    <2>3. SplitState(s, b + (j + 1)) = NextByte(s, InLine(b, j, skip, out), b + (j + 1))
      BY <2>1, <2>2, SplitNext, Zenon
    <2>4. s[b + (j + 1)] # NL
      BY <2>1 DEF NoEnd
    <2> DEFINE cur == [i \in 1 .. j |-> b + i]
               more == [i \in 1 .. j + 1 |-> b + i]
    <2>5. Append(cur, b + (j + 1)) = more /\ Len(more) # LineMax
      BY <2>1, OneByteMore
    <2> HIDE DEF cur, more
    <2>6. NextByte(s, [cur |-> cur, skip |-> skip, out |-> out], b + (j + 1))
            = [cur |-> more, skip |-> skip, out |-> out]
      BY <2>4, <2>5 DEF NextByte
    <2> QED BY <2>3, <2>6, Zenon DEF InLine, cur, more
  <1> HIDE DEF S
  <1>3. k \in S
    BY <1>1, <1>2, NatInductionSet
  <1> QED BY <1>3 DEF S

\* A line ends at its newline, or is cut at LineMax.
LEMMA LineEnds ==
    ASSUME NEW s, NEW b \in Nat, NEW skip, NEW out, NEW k \in Nat \ {0}, k <= LineMax,
           NoEnd(s, b, k - 1), Begins(s, b, skip, out), s[b + k] = NL \/ k = LineMax
    PROVE  SplitState(s, b + k) =
               [cur |-> <<>>, skip |-> s[b + k] # NL,
                out |-> IF skip THEN out ELSE Append(out, [i \in 1 .. k |-> b + i])]
  <1>1. PICK j \in Nat : k = j + 1 /\ k - 1 = j
    OBVIOUS
  <1>2. j < LineMax /\ b + j \in Nat /\ (b + j) + 1 = b + k
    BY <1>1, DatastreamAssumption DEF DatastreamAssumption
  <1>3. SplitState(s, b + j) = InLine(b, j, skip, out)
    BY <1>1, <1>2, LineGrows
  <1>4. SplitState(s, b + k) = NextByte(s, InLine(b, j, skip, out), b + k)
    BY <1>2, <1>3, SplitNext, Zenon
  <1> DEFINE cur == [i \in 1 .. j |-> b + i]
             more == [i \in 1 .. k |-> b + i]
  <1>5. Append(cur, b + k) = more /\ Len(more) = k
    BY <1>1, OneByteMore
  <1> HIDE DEF cur, more
  <1>6. NextByte(s, [cur |-> cur, skip |-> skip, out |-> out], b + k)
          = [cur |-> <<>>, skip |-> s[b + k] # NL, out |-> IF skip THEN out ELSE Append(out, more)]
    BY <1>5 DEF NextByte
  <1> QED BY <1>4, <1>6, Zenon DEF InLine, cur, more

-----------------------------------------------------------------------------
(* What recvq_getline() takes. *)

\* No byte of x ends a line.
Clean(x) == \A j \in 1 .. Len(x) : stream[x[j]] # NL

\* Only the chunk that recv() wrote to last may hold a newline.
Early(q) == \A i \in 1 .. Len(q) - 1 : Clean(q[i].data)

LEMMA CleanConcat ==
    ASSUME NEW x \in Seq(Nat), NEW y \in Seq(Nat), Clean(x), Clean(y)
    PROVE  Clean(x \o y)
  <1> SUFFICES ASSUME NEW j \in 1 .. Len(x \o y) PROVE stream[(x \o y)[j]] # NL
    BY DEF Clean
  <1>1. Len(x \o y) = Len(x) + Len(y) /\ Len(x) \in Nat /\ Len(y) \in Nat
    BY ConcatNat
  <1>2. CASE j <= Len(x)
    <2>1. j \in 1 .. Len(x) /\ (x \o y)[j] = x[j]
      BY <1>1, <1>2
    <2> QED BY <2>1 DEF Clean
  <1>3. CASE j > Len(x)
    <2>1. j - Len(x) \in 1 .. Len(y) /\ (x \o y)[j] = y[j - Len(x)]
      BY <1>1, <1>3
    <2> QED BY <2>1 DEF Clean
  <1> QED BY <1>1, <1>2, <1>3

LEMMA CleanPrefix ==
    ASSUME NEW q \in Seq(AChunk), NEW m \in 0 .. Len(q), \A i \in 1 .. m : Clean(q[i].data)
    PROVE  Clean(Contents(SubSeq(q, 1, m)))
  <1> DEFINE S == {n \in Nat : n <= m => Clean(Contents(SubSeq(q, 1, n)))}
  <1>1. 0 \in S
    <2>1. SubSeq(q, 1, 0) = <<>> /\ Len(<<>>) = 0
      BY SubSeqEmpty
    <2>2. Contents(SubSeq(q, 1, 0)) = <<>>
      BY <2>1, ContentsEmpty, Zenon
    <2> QED BY <2>1, <2>2 DEF Clean
  <1>2. ASSUME NEW n \in Nat, n \in S PROVE n + 1 \in S
    <2> SUFFICES ASSUME n + 1 <= m PROVE Clean(Contents(SubSeq(q, 1, n + 1)))
      OBVIOUS
    <2>1. n + 1 \in 1 .. Len(q) /\ n + 1 \in 1 .. m /\ (n + 1) - 1 = n /\ n <= m
      OBVIOUS
    <2>2. SubSeq(q, 1, n + 1) = Append(SubSeq(q, 1, n), q[n + 1]) /\ SubSeq(q, 1, n) \in Seq(AChunk)
      BY <2>1, SubOne
    <2>3. q[n + 1] \in AChunk
      BY <2>1
    <2>4. Contents(SubSeq(q, 1, n + 1)) = Contents(SubSeq(q, 1, n)) \o q[n + 1].data
      BY <2>2, <2>3, ContentsAppend, Zenon
    <2>5. Contents(SubSeq(q, 1, n)) \in Seq(Nat) /\ q[n + 1].data \in Seq(Nat)
      BY <2>2, <2>3, ContentsType DEF AChunk
    <2>6. Clean(Contents(SubSeq(q, 1, n))) /\ Clean(q[n + 1].data)
      BY <1>2, <2>1
    <2> QED BY <2>4, <2>5, <2>6, CleanConcat, Zenon
  <1> HIDE DEF S
  <1>3. m \in S
    BY <1>1, <1>2, NatInductionSet
  <1> QED BY <1>3 DEF S

\* The search ends in chunk i; a is before it, d in it and w after it.
Searched(a, d, w, i, q) ==
    /\ a \in Seq(Nat) /\ d \in Seq(Nat) /\ w \in Seq(Nat)
    /\ Contents(q) = (a \o d) \o w
    /\ Clean(a) /\ Len(a) < LineMax
    /\ ~Clean(d) => w = <<>>
    /\ Clean(d) => Len(a) + Len(d) >= LineMax
    /\ d = q[i].data /\ Len(a) = Len(Contents(SubSeq(q, 1, i - 1)))

LEMMA SearchEnds ==
    ASSUME NEW q, GoodQueue(q), Early(q), NEW i \in Stops(q), \A x \in Stops(q) : i <= x
    PROVE  \E a, d, w : Searched(a, d, w, i, q)
  <1> DEFINE a == Contents(SubSeq(q, 1, i - 1))
             d == q[i].data
             r == SubSeq(q, i + 1, Len(q))
  <1>1. q \in Seq(AChunk) /\ Len(q) \in Nat /\ LineMax \in Nat \ {0}
    BY DatastreamAssumption DEF DatastreamAssumption, GoodQueue
  <1>2. i \in 1 .. Len(q)
    BY Zenon DEF Stops
  <1>3. i - 1 \in 0 .. Len(q) /\ i - 1 # Len(q) /\ (i - 1) + 1 = i /\ (i - 1) + 2 = i + 1
    BY <1>1, <1>2
  <1>4. /\ a \in Seq(Nat) /\ d \in Seq(Nat) /\ r \in Seq(AChunk) /\ Contents(r) \in Seq(Nat)
        /\ Len(r) = Len(q) - (i - 1) - 1
        /\ Contents(q) = (a \o d) \o Contents(r)
        /\ SizeTo(q, i) = Len(a) + Len(d)
    <2> DEFINE g == i - 1
    <2>1. /\ Contents(SubSeq(q, 1, g)) \in Seq(Nat) /\ q[g + 1].data \in Seq(Nat)
          /\ SubSeq(q, g + 2, Len(q)) \in Seq(AChunk) /\ Contents(SubSeq(q, g + 2, Len(q))) \in Seq(Nat)
          /\ Len(SubSeq(q, g + 2, Len(q))) = Len(q) - g - 1
          /\ Contents(q) = (Contents(SubSeq(q, 1, g)) \o q[g + 1].data) \o Contents(SubSeq(q, g + 2, Len(q)))
          /\ SizeTo(q, g + 1) = Len(Contents(SubSeq(q, 1, g))) + Len(q[g + 1].data)
      <3> HIDE DEF g
      <3>1. g \in 0 .. Len(q) /\ g # Len(q)
        BY <1>3 DEF g
      <3> QED BY <3>1, QueueAround, Zenon
    <2> QED BY <1>3, <2>1, Zenon
  <1>5. Clean(a)
    <2>1. \A j \in 1 .. i - 1 : Clean(q[j].data)
      <3>1. \A j \in 1 .. i - 1 : j \in 1 .. Len(q) - 1
        BY <1>1, <1>2
      <3> QED BY <3>1, Zenon DEF Early
    <2> QED BY <1>1, <1>3, <2>1, CleanPrefix, Zenon
  <1>6. Len(a) < LineMax
    <2>1. CASE i = 1
      <3>1. SubSeq(q, 1, i - 1) = <<>>
        BY <1>1, <2>1, SubSeqEmpty
      <3>2. Len(a) = Len(<<>>)
        BY <3>1, ContentsEmpty, Zenon
      <3> HIDE DEF a
      <3> QED BY <1>1, <3>2
    <2>2. CASE i # 1
      <3>1. i - 1 \in 1 .. Len(q) /\ ~(i <= i - 1)
        BY <1>1, <1>2, <2>2
      <3>2. i - 1 \notin Stops(q)
        BY <3>1
      <3>3. ~(Len(a) >= LineMax)
        BY <3>1, <3>2 DEF Stops
      <3> HIDE DEF a
      <3>4. Len(a) \in Nat
        BY <1>4
      <3> QED BY <1>1, <3>3, <3>4
    <2> QED BY <2>1, <2>2
  <1>7. ~Clean(d) => Contents(r) = <<>>
    <2> SUFFICES ASSUME ~Clean(d) PROVE Contents(r) = <<>>
      OBVIOUS
    <2>1. i \notin 1 .. Len(q) - 1
      BY Zenon DEF Early
    <2>2. i = Len(q)
      BY <1>1, <1>2, <2>1
    <2>3. Len(r) = 0
      <3> HIDE DEF r
      <3> QED BY <1>1, <1>4, <2>2
    <2>4. r = <<>>
      <3> HIDE DEF r
      <3> QED BY <1>4, <2>3
    <2> QED BY <2>4, ContentsEmpty, Zenon
  <1>8. Clean(d) => Len(a) + Len(d) >= LineMax
    <2> SUFFICES ASSUME Clean(d) PROVE Len(a) + Len(d) >= LineMax
      OBVIOUS
    <2>1. ~(\E p \in Range(q[i].data) : stream[p] = NL)
      <3> SUFFICES ASSUME NEW p \in Range(d) PROVE stream[p] # NL
        OBVIOUS
      <3>1. PICK j \in DOMAIN d : p = d[j]
        BY Zenon DEF Range
      <3>2. j \in 1 .. Len(d)
        <4> HIDE DEF d
        <4> QED BY <1>4, <3>1
      <3> QED BY <3>1, <3>2, Zenon DEF Clean
    <2>2. Len(Contents(SubSeq(q, 1, i))) >= LineMax
      BY <2>1, Zenon DEF Stops
    <2> QED BY <1>4, <2>2, Zenon DEF SizeTo
  <1>9. Searched(a, d, Contents(r), i, q)
    <2> HIDE DEF r
    <2> QED BY <1>4, <1>5, <1>6, <1>7, <1>8, Zenon DEF Searched
  <1> QED BY <1>9, Zenon

\* No byte of x before the n-th ends a line.
Until(x, n) == \A j \in 1 .. n - 1 : stream[x[j]] # NL

\* What is taken of the bytes c is a line, or the part of one that fits.
ALine(c, t) ==
    /\ t.count \in 1 .. Len(c) /\ t.count <= LineMax
    /\ Until(c, t.count)
    /\ IF t.ends THEN stream[c[t.count]] = NL
       ELSE stream[c[t.count]] # NL /\ t.count = LineMax

\* The bytes c are those of a, d and w.
Around(a, d, w, c) == c = (a \o d) \o w

LEMMA AroundBytes ==
    ASSUME NEW a \in Seq(Nat), NEW d \in Seq(Nat), NEW w \in Seq(Nat), NEW c, Around(a, d, w, c)
    PROVE  /\ c \in Seq(Nat) /\ Len(c) = Len(a) + Len(d) + Len(w)
           /\ Len(a) \in Nat /\ Len(d) \in Nat /\ Len(w) \in Nat
           /\ \A j \in 1 .. Len(a) : c[j] = a[j]
           /\ \A j \in 1 .. Len(d) : c[Len(a) + j] = d[j]
  BY DEF Around

\* The first k bytes of a and d, when no newline is before the k-th.
LEMMA BytesTaken ==
    ASSUME NEW a \in Seq(Nat), NEW d \in Seq(Nat), NEW w \in Seq(Nat), NEW c, Around(a, d, w, c),
           Clean(a), NEW n \in 1 .. Len(d), Until(d, n),
           NEW k, k = Len(a) + n
    PROVE  /\ k \in 1 .. Len(c) /\ c[k] = d[n]
           /\ Until(c, k)
  <1>1. /\ Len(c) = Len(a) + Len(d) + Len(w)
        /\ Len(a) \in Nat /\ Len(d) \in Nat /\ Len(w) \in Nat
        /\ \A j \in 1 .. Len(a) : c[j] = a[j]
        /\ \A j \in 1 .. Len(d) : c[Len(a) + j] = d[j]
    BY AroundBytes, SMTT(30)
  <1>2. k \in 1 .. Len(c) /\ c[k] = d[n]
    BY <1>1 DEF Around
  <1>3. ASSUME NEW j \in 1 .. k - 1 PROVE stream[c[j]] # NL
    <2>1. CASE j <= Len(a)
      <3>1. j \in 1 .. Len(a)
        BY <1>1, <2>1
      <3> QED BY <1>1, <3>1 DEF Clean
    <2>2. CASE j > Len(a)
      <3>1. j - Len(a) \in 1 .. n - 1 /\ j - Len(a) \in 1 .. Len(d) /\ Len(a) + (j - Len(a)) = j
        BY <1>1, <2>2
      <3>2. c[j] = d[j - Len(a)]
        BY <1>1, <3>1
      <3> QED BY <3>1, <3>2 DEF Until
    <2> QED BY <1>1, <2>1, <2>2
  <1> QED BY <1>2, <1>3, Zenon DEF Until

LEMMA NewlineIs ==
    ASSUME NEW x, NEW d \in Seq(Nat), d = x.data
    PROVE  IF Clean(d) THEN Newline(x) = 0
           ELSE /\ Newline(x) \in 1 .. Len(d) /\ stream[d[Newline(x)]] = NL
                /\ Until(d, Newline(x))
  <1> DEFINE at == {j \in 1 .. Len(d) : stream[d[j]] = NL}
  <1>1. Newline(x) = IF at = {} THEN 0 ELSE Min(at)
    BY Zenon DEF Newline
  <1>2. at \in SUBSET Nat /\ Len(d) \in Nat
    OBVIOUS
  <1>3. Clean(d) <=> at = {}
    BY DEF Clean
  <1>4. at # {} => Min(at) \in at /\ \A j \in at : Min(at) <= j
    <2> HIDE DEF at
    <2> QED BY <1>2, MinIn
  <1>5. ASSUME at # {} PROVE Until(d, Min(at))
    <2> DEFINE m == Min(at)
    <2>1. m \in 1 .. Len(d) /\ \A j \in at : m <= j
      BY <1>4, <1>5
    <2> HIDE DEF m
    <2>2. \A j \in 1 .. m - 1 : j \in 1 .. Len(d) /\ ~(m <= j)
      BY <1>2, <2>1
    <2> QED BY <2>1, <2>2 DEF m, Until
  <1>6. at # {} => Min(at) \in 1 .. Len(d) /\ stream[d[Min(at)]] = NL
    BY <1>4
  <1> HIDE DEF at
  <1> QED BY <1>1, <1>3, <1>5, <1>6, Zenon

LEMMA TakenResult ==
    ASSUME NEW q, GoodQueue(q), Early(q), Stops(q) # {}
    PROVE  ALine(Contents(q), Taken(q, Min(Stops(q))))
  <1>1. Stops(q) \in SUBSET Nat
    BY DEF Stops
  <1>2. PICK i : i = Min(Stops(q))
    OBVIOUS
  <1>3. i \in Stops(q) /\ \A x \in Stops(q) : i <= x
    BY <1>1, <1>2, MinIn
  <1>4. PICK a, d, w : Searched(a, d, w, i, q)
    BY <1>3, SearchEnds, Zenon
  <1>5. PICK c : c = Contents(q)
    OBVIOUS
  <1>b. a \in Seq(Nat) /\ d \in Seq(Nat) /\ w \in Seq(Nat) /\ Around(a, d, w, c)
    BY <1>4, <1>5, Zenon DEF Searched, Around
  <1>6. /\ Clean(a) /\ Len(a) < LineMax
        /\ ~Clean(d) => w = <<>>
        /\ Clean(d) => Len(a) + Len(d) >= LineMax
    BY <1>4, <1>5, Zenon DEF Searched, Around
  <1>a. d = q[i].data /\ Len(a) = Len(Contents(SubSeq(q, 1, i - 1)))
    BY <1>4, Zenon DEF Searched
  <1>7. /\ Len(c) = Len(a) + Len(d) + Len(w)
        /\ Len(a) \in Nat /\ Len(d) \in Nat /\ Len(w) \in Nat /\ Len(c) \in Nat
        /\ LineMax \in Nat
    <2>1. LineMax \in Nat
      BY DatastreamAssumption DEF DatastreamAssumption
    <2>2. /\ c \in Seq(Nat) /\ Len(c) = Len(a) + Len(d) + Len(w)
          /\ Len(a) \in Nat /\ Len(d) \in Nat /\ Len(w) \in Nat
      BY <1>b, AroundBytes
    <2> QED BY <2>1, <2>2
  <1> DEFINE l == IF Len(d) <= LineMax - Len(a) THEN Len(d) ELSE LineMax - Len(a)
             nl == Newline(q[i])
             ends == nl # 0 /\ l >= nl
             n == IF ends THEN nl ELSE l
             count == IF n < Len(d) THEN Len(a) + n
                      ELSE IF LineMax <= Len(c) THEN LineMax ELSE Len(c)
  <1>8. Taken(q, i) = [ends |-> ends, count |-> count]
    <2>1. LineMax - Len(a) \in Nat
      BY <1>6, <1>7
    <2>2. Min({Len(d), LineMax - Len(a)}) = l
      BY <1>7, <2>1, MinTwo
    <2>3. Min({LineMax, Len(c)}) = IF LineMax <= Len(c) THEN LineMax ELSE Len(c)
      BY <1>7, MinTwo
    <2>4. Taken(q, i) =
            LET before == Len(Contents(SubSeq(q, 1, i - 1)))
                l1 == Min({Len(q[i].data), LineMax - before})
                nl1 == Newline(q[i])
                ends1 == nl1 # 0 /\ l1 >= nl1
                n1 == IF ends1 THEN nl1 ELSE l1
            IN  [ends |-> ends1,
                 count |-> IF n1 < Len(q[i].data) THEN before + n1
                           ELSE Min({LineMax, Len(Contents(q))})]
      BY Zenon DEF Taken
    <2>5. Taken(q, i) =
            LET l1 == Min({Len(d), LineMax - Len(a)})
                nl1 == Newline(q[i])
                ends1 == nl1 # 0 /\ l1 >= nl1
                n1 == IF ends1 THEN nl1 ELSE l1
            IN  [ends |-> ends1,
                 count |-> IF n1 < Len(d) THEN Len(a) + n1
                           ELSE Min({LineMax, Len(c)})]
      BY <2>4, <1>5, <1>a, Zenon
    <2> HIDE DEF l
    <2> QED BY <2>2, <2>3, <2>5, Zenon
  <1>9. IF Clean(d) THEN nl = 0
        ELSE /\ nl \in 1 .. Len(d) /\ stream[d[nl]] = NL
             /\ Until(d, nl)
    BY <1>b, <1>a, NewlineIs, Zenon
  <1>10. ~Clean(d) => Len(w) = 0
    BY <1>6
  <1> HIDE DEF nl
  <1>11. CASE ~Clean(d) /\ nl <= LineMax - Len(a)
    <2>1. nl \in 1 .. Len(d) /\ nl \in Nat /\ ends /\ count = Len(a) + nl /\ count <= LineMax
      <3>1. nl \in 1 .. Len(d) /\ Len(w) = 0
        BY <1>9, <1>10, <1>11, Zenon
      <3>2. Len(a) < LineMax /\ nl <= LineMax - Len(a)
        BY <1>6, <1>11, Zenon
      <3> QED BY <1>7, <3>1, <3>2
    <2> HIDE DEF count, ends
    <2>2. /\ count \in 1 .. Len(c) /\ c[count] = d[nl]
          /\ Until(c, count)
      <3>1. /\ Clean(a) /\ nl \in 1 .. Len(d) /\ count = Len(a) + nl
            /\ Until(d, nl)
        BY <1>6, <1>9, <1>11, <2>1, Zenon
      <3> QED BY <1>b, <3>1, BytesTaken
    <2>3. ALine(c, [ends |-> ends, count |-> count])
      BY <1>9, <1>11, <2>1, <2>2, Zenon DEF ALine
    <2> QED BY <1>2, <1>5, <1>8, <2>3, Zenon
  <1>12. CASE Clean(d) \/ ~(nl <= LineMax - Len(a))
    <2> DEFINE m == LineMax - Len(a)
    <2>1. m \in 1 .. Len(d) /\ ~ends /\ count = LineMax /\ LineMax = Len(a) + m
      <3>1. CASE Clean(d)
        <4>1. Len(a) < LineMax /\ Len(a) + Len(d) >= LineMax /\ nl = 0
          BY <1>6, <1>9, <3>1, Zenon
        <4> QED BY <1>7, <4>1
      <3>2. CASE ~Clean(d)
        <4>1. Len(a) < LineMax /\ nl \in 1 .. Len(d) /\ ~(nl <= LineMax - Len(a))
          BY <1>6, <1>9, <1>12, <3>2, Zenon
        <4> QED BY <1>7, <4>1
      <3> QED BY <3>1, <3>2
    <2>2. \A j \in 1 .. m : stream[d[j]] # NL
      <3>1. CASE Clean(d)
        BY <2>1, <1>7, <3>1 DEF Clean
      <3>2. CASE ~Clean(d)
        <4>1. nl \in Nat /\ ~(nl <= m)
          BY <1>9, <1>12, <3>2
        <4>2. \A j \in 1 .. m : j \in 1 .. nl - 1
          BY <4>1, <2>1
        <4> QED BY <1>9, <3>2, <4>2 DEF Until
      <3> QED BY <3>1, <3>2
    <2> HIDE DEF count, ends, m
    <2>3. Until(d, m)
      <3>1. \A j \in 1 .. m - 1 : j \in 1 .. m
        BY <2>1
      <3> QED BY <2>2, <3>1 DEF Until
    <2>4. /\ count \in 1 .. Len(c) /\ c[count] = d[m]
          /\ Until(c, count)
      <3>1. /\ Clean(a) /\ m \in 1 .. Len(d) /\ count = Len(a) + m
            /\ Until(d, m)
        BY <1>6, <2>1, <2>3, Zenon
      <3> QED BY <1>b, <3>1, BytesTaken
    <2>5. stream[d[m]] # NL
      BY <2>1, <2>2
    <2>6. count <= LineMax
      BY <1>7, <2>1
    <2>7. ALine(c, [ends |-> ends, count |-> count])
      BY <2>1, <2>4, <2>5, <2>6, Zenon DEF ALine
    <2> QED BY <1>2, <1>5, <1>8, <2>7, Zenon
  <1> QED BY <1>11, <1>12, Zenon

LEMMA CleanSuffix ==
    ASSUME NEW d \in Seq(Nat), Clean(d), NEW j \in 0 .. Len(d)
    PROVE  Clean(SubSeq(d, j + 1, Len(d)))
  <1>1. SubSeq(d, j + 1, Len(d)) \in Seq(Nat) /\ Len(SubSeq(d, j + 1, Len(d))) = Len(d) - j
    BY SubTail
  <1>2. ASSUME NEW i \in 1 .. Len(d) - j PROVE SubSeq(d, j + 1, Len(d))[i] = d[j + i] /\ j + i \in 1 .. Len(d)
    OBVIOUS
  <1> QED BY <1>1, <1>2, Zenon DEF Clean

\* How much of the first chunk that is not used up is taken.
LEMMA FirstTaken ==
    ASSUME NEW q, GoodQueue(q), NEW k \in Nat, NEW g, g = Cardinality(UsedUp(q, k))
    PROVE  /\ k - SizeTo(q, g) >= 0
           /\ g + 1 \in 1 .. Len(q) - 1 => k - SizeTo(q, g) \in 0 .. Len(q[g + 1].data)
  <1>1. q \in Seq(AChunk) /\ Len(q) \in Nat
    BY DEF GoodQueue
  <1>2. g \in 0 .. Len(q) /\ UsedUp(q, k) = 1 .. g
    BY UsedUpFirst, Zenon
  <1>3. SizeTo(q, g) \in Nat
    BY <1>1, <1>2, SizeType
  <1>4. SizeTo(q, g) <= k
    <2>1. CASE g = 0
      BY <1>1, <2>1, SizeEnds
    <2>2. CASE g # 0
      <3>1. g \in UsedUp(q, k)
        <4>1. g \in 1 .. g
          BY <1>1, <1>2, <2>2
        <4> QED BY <1>2, <4>1, Zenon
      <3> QED BY <3>1, Zenon DEF UsedUp
    <2> QED BY <2>1, <2>2
  <1>5. ASSUME g + 1 \in 1 .. Len(q) - 1 PROVE k - SizeTo(q, g) <= Len(q[g + 1].data)
    <2>1. g + 1 \in 1 .. Len(q) /\ g + 1 < Len(q) /\ g + 1 \notin 1 .. g /\ (g + 1) - 1 = g
      BY <1>1, <1>2, <1>5
    <2>2. q[g + 1].data # <<>>
      BY <2>1, Zenon DEF GoodQueue
    <2>3. ~(SizeTo(q, g + 1) <= k)
      BY <1>2, <2>1, <2>2, Zenon DEF UsedUp
    <2>4. SizeTo(q, g + 1) = SizeTo(q, g) + Len(q[g + 1].data) /\ SizeTo(q, g + 1) \in Nat
      BY <1>1, <2>1, SizeStep
    <2>5. q[g + 1] \in AChunk
      BY <1>1, <2>1
    <2>6. Len(q[g + 1].data) \in Nat
      BY <2>5 DEF AChunk
    <2> QED BY <1>3, <2>3, <2>4, <2>6
  <1>6. ASSUME g + 1 \in 1 .. Len(q) - 1 PROVE Len(q[g + 1].data) \in Nat
    <2>1. q[g + 1] \in AChunk
      BY <1>1, <1>6
    <2> QED BY <2>1 DEF AChunk
  <1> QED BY <1>3, <1>4, <1>5, <1>6

\* What is left after k bytes were taken has no newline but in its last chunk.
LEMMA EarlyKept ==
    ASSUME NEW q, GoodQueue(q), Early(q), NEW k \in 0 .. Len(Contents(q))
    PROVE  Early(Consume(q, k))
  <1>1. PICK g : g = Cardinality(UsedUp(q, k))
    OBVIOUS
  <1>2. q \in Seq(AChunk) /\ Len(q) \in Nat /\ g \in 0 .. Len(q) /\ k \in Nat
    BY <1>1, UsedUpFirst DEF GoodQueue
  <1>3. /\ k = 0 => Consume(q, k) = q
        /\ k # 0 /\ g = Len(q) => Consume(q, k) = <<[data |-> <<>>, firstfree |-> 0]>>
        /\ k # 0 /\ g # Len(q) => Consume(q, k) = Remainder(q, k, g)
    BY <1>1, <1>2, ConsumeIs, Zenon
  <1>4. CASE k = 0
    BY <1>3, <1>4, Zenon
  <1>5. CASE k # 0 /\ g = Len(q)
    <2>1. PICK x : x = [data |-> <<>>, firstfree |-> 0]
      OBVIOUS
    <2>2. Consume(q, k) = <<x>>
      BY <1>3, <1>5, <2>1, Zenon
    <2>3. Early(<<x>>)
      BY DEF Early
    <2> QED BY <2>2, <2>3, Zenon
  <1>6. CASE k # 0 /\ g # Len(q)
    <2> DEFINE d == q[g + 1].data
               r == SubSeq(q, g + 2, Len(q))
               j == k - SizeTo(q, g)
               x == [data |-> SubSeq(d, j + 1, Len(d)), firstfree |-> q[g + 1].firstfree]
    <2>1. /\ d \in Seq(Nat) /\ q[g + 1] \in AChunk /\ r \in Seq(AChunk) /\ Len(r) = Len(q) - g - 1
          /\ \A i \in 1 .. Len(r) : r[i] = q[g + 1 + i]
          /\ SizeTo(q, g + 1) = SizeTo(q, g) + Len(d)
      BY <1>2, <1>6, QueueAround, Zenon
    <2>2. g + 1 \in 1 .. Len(q) /\ g \in Nat /\ g + 1 \notin 1 .. g
      <3> HIDE DEF d, r, j, x
      <3> QED BY <1>2, <1>6
    <2>3. x \in AChunk /\ x.data = SubSeq(d, j + 1, Len(d))
      <3>1. SubSeq(d, j + 1, Len(d)) \in Seq(Nat)
        <4>1. SizeTo(q, g) \in Nat
          BY <1>2, SizeType
        <4> HIDE DEF d
        <4>2. j \in Int /\ j + 1 \in Int
          BY <1>2, <4>1
        <4>3. j >= 0
          BY <1>1, <1>2, <1>6, <4>1, FirstTaken DEF j
        <4> HIDE DEF j
        <4> QED BY <2>1, <4>2, <4>3
      <3> QED BY <2>1, <3>1 DEF AChunk
    <2>4. Consume(q, k) = <<x>> \o r
      BY <1>3, <1>6, Zenon DEF Remainder
    <2> HIDE DEF x, r
    <2>5. /\ Len(<<x>> \o r) = Len(r) + 1 /\ (<<x>> \o r)[1] = x
          /\ \A i \in 2 .. Len(r) + 1 : (<<x>> \o r)[i] = r[i - 1]
      BY <2>1, <2>3, PutFront
    <2>6. ASSUME NEW i \in 1 .. Len(r) PROVE Clean((<<x>> \o r)[i].data)
      <3>0. Len(r) \in Nat /\ g + i \in 1 .. Len(q) - 1
        BY <1>2, <2>1, <2>2
      <3>1. CASE i = 1
        <4>1. g + 1 \in 1 .. Len(q) - 1
          BY <3>0, <3>1
        <4>2. Clean(d)
          BY <4>1, Zenon DEF Early
        <4>3. j \in 0 .. Len(d)
          BY <1>1, <2>1, <4>1, FirstTaken
        <4>4. Clean(SubSeq(d, j + 1, Len(d)))
          <5> HIDE DEF d, j
          <5> QED BY <2>1, <4>2, <4>3, CleanSuffix
        <4> QED BY <2>3, <2>5, <3>1, <4>4, Zenon
      <3>2. CASE i # 1
        <4>1. i \in 2 .. Len(r) + 1 /\ i - 1 \in 1 .. Len(r) /\ g + 1 + (i - 1) = g + i
          BY <3>0, <3>2, <2>2
        <4>2. (<<x>> \o r)[i] = q[g + i]
          BY <2>1, <2>5, <4>1, Zenon
        <4> QED BY <3>0, <4>2, Zenon DEF Early
      <3> QED BY <3>1, <3>2
    <2>7. Len(r) \in Nat /\ Len(<<x>> \o r) - 1 = Len(r)
      BY <2>1, <2>5
    <2> QED BY <2>4, <2>6, <2>7, Zenon DEF Early
  <1> QED BY <1>4, <1>5, <1>6, Zenon

-----------------------------------------------------------------------------
(* The lines given to parse(). *)

Whole(q) == \A i \in 1 .. Len(q) : Clean(q[i].data)

\* Of the g bytes read, n were given to parse() as the lines l or skipped, and q
\* holds the others; f are the flags.
Parsed(n, q, g, f, l) ==
    /\ n \in Nat /\ g = n + Len(Contents(q))
    /\ \A i \in 1 .. Len(Contents(q)) : Contents(q)[i] = n + i
    /\ Begins(stream, n, "NONEWLINE" \in f, l)
    /\ Early(q)

SplitInv ==
    /\ state # "closed" => \E n \in Nat : Parsed(n, recvq, got, flags, lines)
    /\ state \in {"open", "soon"} => Whole(recvq) /\ Len(Contents(recvq)) < LineMax
    /\ state = "closed" => lines = Split(stream, got)

\* When no line is left in the queue.
LEMMA LinesNow ==
    ASSUME NEW n, NEW q \in Seq(AChunk), NEW g, NEW f, NEW l, Parsed(n, q, g, f, l),
           Whole(q), Len(Contents(q)) < LineMax
    PROVE  l = Split(stream, g)
  <1> DEFINE c == Contents(q)
             k == Len(c)
  <1>1. n \in Nat /\ c \in Seq(Nat) /\ k \in Nat /\ k < LineMax /\ g = n + k
    <2>1. c \in Seq(Nat)
      BY ContentsType
    <2>2. k \in Nat
      BY <2>1
    <2>3. n \in Nat /\ g = n + k
      BY Zenon DEF Parsed
    <2> QED BY <2>1, <2>2, <2>3, Zenon
  <1>2. Clean(c)
    <2>1. SubSeq(q, 1, Len(q)) = q /\ Len(q) \in 0 .. Len(q)
      BY SubSeqFull
    <2>2. Clean(Contents(SubSeq(q, 1, Len(q))))
      BY <2>1, CleanPrefix, Zenon DEF Whole
    <2> QED BY <2>1, <2>2, Zenon
  <1>3. NoEnd(stream, n, k)
    BY <1>2, Zenon DEF Parsed, Clean, NoEnd
  <1>4. PICK skip : skip = ("NONEWLINE" \in f)
    OBVIOUS
  <1>5. Begins(stream, n, skip, l)
    BY <1>4 DEF Parsed
  <1> HIDE DEF k, c
  <1>6. SplitState(stream, n + k) = InLine(n, k, skip, l)
    BY <1>1, <1>3, <1>5, LineGrows
  <1>7. InLine(n, k, skip, l).out = l
    BY DEF InLine
  <1> QED BY <1>1, <1>6, <1>7, Zenon DEF Split

\* What is read goes to the end.
LEMMA ReadParsed ==
    ASSUME NEW n, NEW q, NEW g, NEW f, NEW l, Parsed(n, q, g, f, l), GoodQueue(q), Whole(q),
           NEW k \in 0 .. SENDQSIZE - Last(Room(q)).firstfree, SENDQSIZE - Last(Room(q)).firstfree \in Nat
    PROVE  Parsed(n, Append(Front(Room(q)), Chunk(Last(Room(q)).data \o [i \in 1 .. k |-> g + i],
                                                  Last(Room(q)).firstfree + k)), g + k, f, l)
  <1>1. PICK r : r = Room(q)
    OBVIOUS
  <1>2. PICK x : x = [i \in 1 .. k |-> g + i]
    OBVIOUS
  <1>3. PICK c : c = Contents(q)
    OBVIOUS
  <1>4. PICK p : p = Append(Front(r), Chunk(Last(r).data \o x, Last(r).firstfree + k))
    OBVIOUS
  <1>5. /\ n \in Nat /\ g = n + Len(c) /\ \A i \in 1 .. Len(c) : c[i] = n + i
        /\ c \in Seq(Nat) /\ Len(c) \in Nat
    <2>1. n \in Nat /\ g = n + Len(c) /\ \A i \in 1 .. Len(c) : c[i] = n + i
      BY <1>3, Zenon DEF Parsed
    <2>2. c \in Seq(Nat)
      BY <1>3, ContentsType, Zenon DEF GoodQueue
    <2> QED BY <2>1, <2>2
  <1>6. k \in Nat /\ g \in Nat /\ k <= SENDQSIZE - Last(r).firstfree
    BY <1>1, <1>5
  <1>7. x \in Seq(Nat) /\ Len(x) = k /\ \A i \in 1 .. k : x[i] = g + i
    BY <1>2, <1>6
  <1>8. GoodQueue(r) /\ r # <<>> /\ Contents(r) = c
    BY <1>1, <1>3, RoomGood, Zenon
  <1>9. r \in Seq(AChunk) /\ Front(r) \in Seq(AChunk) /\ Last(r) \in AChunk /\ Len(r) \in Nat \ {0}
        /\ Len(Front(r)) = Len(r) - 1 /\ r = Append(Front(r), Last(r))
        /\ \A i \in 1 .. Len(r) - 1 : Front(r)[i] = r[i]
    <2>1. r \in Seq(AChunk)
      BY <1>8, Zenon DEF GoodQueue
    <2> QED BY <2>1, <1>8, FrontLast, Zenon
  <1>10. PICK e : e = Chunk(Last(r).data \o x, Last(r).firstfree + k)
    OBVIOUS
  <1>11. e \in AChunk /\ e.data = Last(r).data \o x
    <2>1. Last(r).data \in Seq(Nat) /\ Last(r).firstfree \in Nat
      BY <1>9 DEF AChunk
    <2>2. Last(r).data \o x \in Seq(Nat) /\ Last(r).firstfree + k \in Nat
      BY <1>6, <1>7, <2>1
    <2> QED BY <2>2, <1>10 DEF AChunk, Chunk
  <1>12. Contents(p) = c \o x
    <2>1. Contents(p) = Contents(Front(r)) \o (Last(r).data \o x)
      BY <1>4, <1>9, <1>10, <1>11, ContentsAppend, Zenon
    <2>2. c = Contents(Front(r)) \o Last(r).data
      BY <1>8, <1>9, ContentsAppend, Zenon
    <2>3. Contents(Front(r)) \in Seq(Nat) /\ Last(r).data \in Seq(Nat)
      BY <1>9, ContentsType DEF AChunk
    <2> QED BY <1>7, <2>1, <2>2, <2>3, ConcatAssoc, Zenon
  <1>13. Len(c \o x) = Len(c) + k /\ \A i \in 1 .. Len(c) + k : (c \o x)[i] = n + i
    <2>1. Len(c \o x) = Len(c) + k
      <3>1. c \in Seq(Nat) /\ x \in Seq(Nat) /\ Len(x) = k
        BY <1>5, <1>7, Zenon
      <3> QED BY <3>1, ConcatNat, Zenon
    <2>2. ASSUME NEW i \in 1 .. Len(c) + k PROVE (c \o x)[i] = n + i
      <3>1. CASE i <= Len(c)
        <4>1. i \in 1 .. Len(c) /\ (c \o x)[i] = c[i]
          BY <1>5, <1>7, <3>1
        <4> QED BY <1>5, <4>1
      <3>2. CASE i > Len(c)
        <4>1. i - Len(c) \in 1 .. k /\ (c \o x)[i] = x[i - Len(c)]
          BY <1>5, <1>6, <1>7, <3>2
        <4>2. x[i - Len(c)] = g + (i - Len(c))
          BY <1>7, <4>1
        <4> QED BY <1>5, <4>1, <4>2
      <3>3. Len(c) \in Nat /\ k \in Nat
        BY <1>5, <1>6, Zenon
      <3>4. i <= Len(c) \/ i > Len(c)
        BY <3>3
      <3> QED BY <3>1, <3>2, <3>4, Zenon
    <2> QED BY <2>1, <2>2
  <1>14. Early(p)
    <2>1. Len(p) = Len(r) /\ \A i \in 1 .. Len(r) - 1 : p[i] = r[i]
      <3>1. PICK m : m = Len(Front(r)) + 1 /\ m = Len(r)
        BY <1>9
      <3>2. Front(r) \in Seq(AChunk) /\ e \in AChunk /\ p = Append(Front(r), e)
        BY <1>4, <1>9, <1>10, <1>11, Zenon
      <3>a. Len(Append(Front(r), e)) = m /\ \A i \in 1 .. m - 1 : Append(Front(r), e)[i] = Front(r)[i]
        BY <3>1, <3>2, AppendChunk
      <3>b. Len(p) = m /\ \A i \in 1 .. m - 1 : p[i] = Front(r)[i]
        BY <3>2, <3>a, Zenon
      <3> QED BY <1>9, <3>1, <3>b, Zenon
    <2>2. ASSUME NEW i \in 1 .. Len(r) - 1 PROVE Clean(r[i].data)
      <3>1. q \in Seq(AChunk) /\ Len(q) \in Nat
        BY DEF GoodQueue
      <3>2. i \in 1 .. Len(q) /\ r[i] = q[i]
        BY <1>1, <1>9, <3>1 DEF Room
      <3> QED BY <3>2, Zenon DEF Whole
    <2> QED BY <2>1, <2>2, Zenon DEF Early
  <1>15. g + k = n + Len(c \o x)
    BY <1>5, <1>6, <1>13
  <1>16. Parsed(n, p, g + k, f, l)
    BY <1>5, <1>12, <1>13, <1>14, <1>15, Zenon DEF Parsed
  <1> QED BY <1>1, <1>2, <1>4, <1>16, Zenon

\* The bytes from the (m + 1)-th on, of bytes numbered after n.
LEMMA Numbered ==
    ASSUME NEW c \in Seq(Nat), NEW n \in Nat, \A i \in 1 .. Len(c) : c[i] = n + i, NEW m \in 1 .. Len(c)
    PROVE  /\ SubSeq(c, 1, m) = [i \in 1 .. m |-> n + i]
           /\ Len(SubSeq(c, m + 1, Len(c))) = Len(c) - m
           /\ \A i \in 1 .. Len(c) - m : SubSeq(c, m + 1, Len(c))[i] = (n + m) + i
  <1>1. Len(c) \in Nat /\ m \in Nat /\ m <= Len(c)
    OBVIOUS
  <1>2. SubSeq(c, 1, m) = [i \in 1 .. m |-> n + i]
    <2>1. SubSeq(c, 1, m) \in Seq(Nat) /\ Len(SubSeq(c, 1, m)) = m
      BY <1>1
    <2>2. \A i \in 1 .. m : SubSeq(c, 1, m)[i] = n + i
      BY <1>1
    <2>3. [i \in 1 .. m |-> n + i] \in Seq(Nat) /\ Len([i \in 1 .. m |-> n + i]) = m
      BY <1>1
    <2> QED BY <2>1, <2>2, <2>3
  <1>3. Len(SubSeq(c, m + 1, Len(c))) = Len(c) - m
    BY <1>1, SubTail
  <1>4. \A i \in 1 .. Len(c) - m : SubSeq(c, m + 1, Len(c))[i] = c[m + i] /\ m + i \in 1 .. Len(c)
    BY <1>1
  <1>5. \A i \in 1 .. Len(c) - m : c[m + i] = n + (m + i) /\ n + (m + i) = (n + m) + i
    BY <1>1
  <1> QED BY <1>2, <1>3, <1>4, <1>5

\* A line, or the part of one that fits, is taken.
LEMMA LineParsed ==
    ASSUME NEW n, NEW q, NEW g, NEW f, NEW l, Parsed(n, q, g, f, l), GoodQueue(q), Stops(q) # {},
           NEW t, t = Taken(q, Min(Stops(q))), NEW f1, "NONEWLINE" \in f1 <=> ~t.ends,
           NEW l1, l1 = IF "NONEWLINE" \in f THEN l ELSE Append(l, SubSeq(Contents(q), 1, t.count))
    PROVE  Parsed(n + t.count, Consume(q, t.count), g, f1, l1)
  <1>1. PICK c : c = Contents(q)
    OBVIOUS
  <1>2. PICK m : m = t.count
    OBVIOUS
  <1>3. /\ n \in Nat /\ g = n + Len(c) /\ \A i \in 1 .. Len(c) : c[i] = n + i
        /\ Begins(stream, n, "NONEWLINE" \in f, l)
        /\ Early(q)
    BY <1>1, Zenon DEF Parsed
  <1>4. c \in Seq(Nat)
    BY <1>1, ContentsType, Zenon DEF GoodQueue
  <1>5. ALine(c, t)
    BY <1>1, <1>3, TakenResult, Zenon
  <1>6. /\ m \in 1 .. Len(c) /\ m <= LineMax /\ Until(c, m)
        /\ IF t.ends THEN stream[c[m]] = NL ELSE stream[c[m]] # NL /\ m = LineMax
    BY <1>2, <1>5, Zenon DEF ALine
  <1>7. m \in Nat \ {0} /\ m - 1 \in Nat /\ c[m] = n + m /\ Len(c) \in Nat
    BY <1>3, <1>4, <1>6
  <1>8. NoEnd(stream, n, m - 1)
    <2>1. \A i \in 1 .. m - 1 : i \in 1 .. Len(c)
      BY <1>6, <1>7
    <2> QED BY <1>3, <1>6, <2>1, Zenon DEF Until, NoEnd
  <1>9. stream[n + m] = NL \/ m = LineMax
    BY <1>6, <1>7, Zenon
  <1>10. SplitState(stream, n + m) =
            [cur |-> <<>>, skip |-> stream[n + m] # NL,
             out |-> IF "NONEWLINE" \in f THEN l ELSE Append(l, [i \in 1 .. m |-> n + i])]
    <2>1. PICK skip : skip = ("NONEWLINE" \in f)
      OBVIOUS
    <2>2. Begins(stream, n, skip, l)
      BY <1>3, <2>1
    <2>3. n \in Nat /\ m \in Nat \ {0} /\ m <= LineMax
      BY <1>3, <1>6, <1>7, Zenon
    <2>4. SplitState(stream, n + m) =
            [cur |-> <<>>, skip |-> stream[n + m] # NL,
             out |-> IF skip THEN l ELSE Append(l, [i \in 1 .. m |-> n + i])]
      BY <1>8, <1>9, <2>2, <2>3, LineEnds
    <2> QED BY <2>1, <2>4
  <1>11. /\ SubSeq(c, 1, m) = [i \in 1 .. m |-> n + i]
         /\ Len(SubSeq(c, m + 1, Len(c))) = Len(c) - m
         /\ \A i \in 1 .. Len(c) - m : SubSeq(c, m + 1, Len(c))[i] = (n + m) + i
    BY <1>3, <1>4, <1>6, Numbered
  <1>12. l1 = IF "NONEWLINE" \in f THEN l ELSE Append(l, [i \in 1 .. m |-> n + i])
    BY <1>1, <1>2, <1>11, Zenon
  <1>13. "NONEWLINE" \in f1 <=> stream[n + m] # NL
    BY <1>6, <1>7, Zenon
  <1>14. Begins(stream, n + m, "NONEWLINE" \in f1, l1)
    <2>1. [i \in 1 .. 0 |-> (n + m) + i] = <<>>
      OBVIOUS
    <2>2. ("NONEWLINE" \in f1) = (stream[n + m] # NL)
      BY <1>13
    <2> QED BY <1>10, <1>12, <2>1, <2>2, Zenon DEF InLine, Begins
  <1>15. m \in 0 .. Len(Contents(q))
    BY <1>1, <1>6, <1>7
  <1>16. Contents(Consume(q, m)) = SubSeq(c, m + 1, Len(c))
    BY <1>1, <1>15, ConsumeResult, Zenon
  <1>17. Early(Consume(q, m))
    BY <1>3, <1>15, EarlyKept, Zenon
  <1>18. n + m \in Nat /\ g = (n + m) + (Len(c) - m)
    BY <1>3, <1>7
  <1>19. Parsed(n + m, Consume(q, m), g, f1, l1)
    BY <1>11, <1>14, <1>16, <1>17, <1>18, Zenon DEF Parsed
  <1> QED BY <1>2, <1>19, Zenon

\* No line is complete, or none is left.
LEMMA NothingStops ==
    ASSUME NEW q, GoodQueue(q), Stops(q) = {}
    PROVE  Whole(q) /\ Len(Contents(q)) < LineMax
  <1>1. q \in Seq(AChunk) /\ Len(q) \in Nat /\ LineMax \in Nat \ {0}
    BY DatastreamAssumption DEF DatastreamAssumption, GoodQueue
  <1>2. ASSUME NEW i \in 1 .. Len(q)
        PROVE  /\ ~(\E p \in Range(q[i].data) : stream[p] = NL)
               /\ ~(SizeTo(q, i) >= LineMax)
    <2>1. i \notin Stops(q)
      OBVIOUS
    <2> QED BY <2>1, Zenon DEF Stops, SizeTo
  <1>3. Whole(q)
    <2> SUFFICES ASSUME NEW i \in 1 .. Len(q), NEW j \in 1 .. Len(q[i].data)
                 PROVE  stream[q[i].data[j]] # NL
      BY Zenon DEF Whole, Clean
    <2>1. q[i] \in AChunk
      BY <1>1
    <2>2. PICK d \in Seq(Nat) : d = q[i].data
      BY <2>1 DEF AChunk
    <2>3. j \in DOMAIN d
      BY <2>2
    <2>4. d[j] \in Range(d)
      BY <2>3, Zenon DEF Range
    <2> QED BY <1>2, <2>2, <2>4, Zenon
  <1>4. Len(Contents(q)) < LineMax
    <2>1. CASE Len(q) = 0
      <3>1. q = <<>>
        BY <1>1, <2>1
      <3>2. Len(Contents(q)) = 0
        BY <3>1, ContentsEmpty
      <3> QED BY <1>1, <3>2
    <2>2. CASE Len(q) # 0
      <3>1. Len(q) \in 1 .. Len(q)
        BY <1>1, <2>2
      <3>2. SizeTo(q, Len(q)) = Len(Contents(q))
        BY <1>1, SizeEnds
      <3>3. SizeTo(q, Len(q)) \in Nat
        BY <1>1, SizeType
      <3> QED BY <1>1, <1>2, <3>1, <3>2, <3>3
    <2> QED BY <2>1, <2>2
  <1> QED BY <1>3, <1>4

LEMMA EmptyWhole ==
    ASSUME NEW q, GoodQueue(q), Contents(q) = <<>>
    PROVE  Whole(q) /\ Len(Contents(q)) < LineMax
  <1>1. q = <<>> \/ q[1].data = <<>>
    BY FirstHolds, Zenon
  <1>2. \A i \in 1 .. Len(q) : q[i].data = <<>>
    <2> SUFFICES ASSUME NEW i \in 1 .. Len(q) PROVE q[i].data = <<>>
      OBVIOUS
    <2>1. Len(q) \in Nat /\ 1 \in 1 .. Len(q) /\ q # <<>>
      BY DEF GoodQueue
    <2>2. ~(1 < Len(q))
      BY <1>1, <2>1, Zenon DEF GoodQueue
    <2>3. i = 1
      BY <2>1, <2>2
    <2> QED BY <1>1, <2>1, <2>3, Zenon
  <1>3. Clean(<<>>)
    BY DEF Clean
  <1>4. Len(<<>>) < LineMax
    BY DatastreamAssumption DEF DatastreamAssumption
  <1> QED BY <1>2, <1>3, <1>4, Zenon DEF Whole

\* The stream stays.
LEMMA StreamStays ==
    ASSUME stream' = stream
    PROVE  /\ \A n : Parsed(n, recvq', got', flags', lines') => Parsed(n, recvq, got, flags, lines)'
           /\ Whole(recvq') => Whole(recvq)'
  BY Zenon DEF Parsed, Begins, Early, Whole, Clean

LEMMA SplitStays ==
    ASSUME SplitInv, UNCHANGED recvVars, "NONEWLINE" \in flags' <=> "NONEWLINE" \in flags,
           state' = state \/ (state = "open" /\ state' = "soon")
    PROVE  SplitInv'
  <1>1. recvq' = recvq /\ stream' = stream /\ got' = got /\ lines' = lines
    BY Zenon DEF recvVars
  <1>2. ("NONEWLINE" \in flags') = ("NONEWLINE" \in flags)
    OBVIOUS
  <1>3. ASSUME NEW n, Parsed(n, recvq, got, flags, lines)
        PROVE  Parsed(n, recvq', got', flags', lines')
    BY <1>1, <1>2, <1>3, Zenon DEF Parsed
  <1>4. state' # "closed" => \E n \in Nat : Parsed(n, recvq, got, flags, lines)'
    <2> SUFFICES ASSUME state' # "closed" PROVE \E n \in Nat : Parsed(n, recvq, got, flags, lines)'
      OBVIOUS
    <2>1. state # "closed"
      OBVIOUS
    <2>2. PICK n \in Nat : Parsed(n, recvq, got, flags, lines)
      BY <2>1, Zenon DEF SplitInv
    <2>3. Parsed(n, recvq, got, flags, lines)'
      BY <1>1, <1>3, <2>2, StreamStays, Zenon
    <2> QED BY <2>3, Zenon
  <1>5. state' \in {"open", "soon"} => Whole(recvq)' /\ Len(Contents(recvq')) < LineMax
    <2> SUFFICES ASSUME state' \in {"open", "soon"} PROVE Whole(recvq)' /\ Len(Contents(recvq')) < LineMax
      OBVIOUS
    <2>1. state \in {"open", "soon"}
      OBVIOUS
    <2>2. Whole(recvq') /\ Len(Contents(recvq')) < LineMax
      BY <1>1, <2>1, Zenon DEF SplitInv
    <2> QED BY <1>1, <2>2, StreamStays, Zenon
  <1>6. state' = "closed" => lines' = Split(stream', got')
    <2>1. state' = "closed" => state = "closed"
      OBVIOUS
    <2> QED BY <1>1, <2>1, Zenon DEF SplitInv
  <1> QED BY <1>4, <1>5, <1>6, Zenon DEF SplitInv

LEMMA RecvqPutSplits ==
    ASSUME Inv, SplitInv, NEW k \in 0 .. SENDQSIZE, RecvqPut(k)
    PROVE  SplitInv'
  <1> DEFINE r == Room(recvq)
  <1>1. /\ state = "open" /\ state' = "reading"
        /\ k <= SENDQSIZE - Last(r).firstfree
        /\ recvq' = Append(Front(r), Chunk(Last(r).data \o [i \in 1 .. k |-> got + i], Last(r).firstfree + k))
        /\ got' = got + k /\ flags' = flags /\ lines' = lines /\ stream' = stream
    BY Zenon DEF RecvqPut
  <1>2. PICK n \in Nat : Parsed(n, recvq, got, flags, lines)
    <2>1. state # "closed"
      BY <1>1
    <2> QED BY <2>1, Zenon DEF SplitInv
  <1>3. Whole(recvq) /\ GoodQueue(recvq)
    <2>1. state \in {"open", "soon"}
      BY <1>1
    <2> QED BY <2>1, Zenon DEF SplitInv, Inv
  <1>4. SENDQSIZE - Last(r).firstfree \in Nat /\ k \in 0 .. SENDQSIZE - Last(r).firstfree
    <2>1. GoodQueue(r) /\ r # <<>>
      BY <1>3, RoomGood, Zenon
    <2> HIDE DEF r
    <2>2. r \in Seq(AChunk) /\ Len(r) \in Nat /\ SENDQSIZE \in Nat
      BY <2>1, DatastreamAssumption DEF GoodQueue, DatastreamAssumption
    <2>3. Len(r) \in 1 .. Len(r) /\ Last(r) = r[Len(r)] /\ Last(r) \in AChunk
      BY <2>1, <2>2, FrontLast
    <2>4. Last(r).firstfree <= SENDQSIZE
      BY <2>1, <2>3, Zenon DEF GoodQueue
    <2>5. Last(r).firstfree \in Nat
      BY <2>3 DEF AChunk
    <2>6. k \in Nat /\ k <= SENDQSIZE - Last(r).firstfree
      BY <1>1, <2>2
    <2> QED BY <2>2, <2>4, <2>5, <2>6
  <1>5. Parsed(n, recvq', got', flags', lines')
    BY <1>1, <1>2, <1>3, <1>4, ReadParsed, Zenon
  <1>6. Parsed(n, recvq, got, flags, lines)'
    BY <1>1, <1>5, StreamStays, Zenon
  <1>7. state' # "closed" /\ state' \notin {"open", "soon"}
    BY <1>1
  <1> QED BY <1>6, <1>7, Zenon DEF SplitInv

LEMMA GetLineSplits ==
    ASSUME Inv, SplitInv, GetLine
    PROVE  SplitInv'
  <1>1. state = "reading" /\ stream' = stream /\ got' = got
    BY Zenon DEF GetLine
  <1>2. PICK n \in Nat : Parsed(n, recvq, got, flags, lines)
    <2>1. state # "closed"
      BY <1>1
    <2> QED BY <2>1, Zenon DEF SplitInv
  <1>3. GoodQueue(recvq)
    BY Zenon DEF Inv
  <1>4. CASE Stops(recvq) = {} /\ state' = "open" /\ UNCHANGED <<recvq, flags, lines>>
    <2>1. Whole(recvq) /\ Len(Contents(recvq)) < LineMax
      BY <1>3, <1>4, NothingStops, Zenon
    <2>2. recvq' = recvq /\ flags' = flags /\ lines' = lines
      BY <1>4, Zenon
    <2>3. Parsed(n, recvq', got', flags', lines') /\ Whole(recvq')
      BY <1>1, <1>2, <2>1, <2>2, Zenon
    <2>4. Parsed(n, recvq, got, flags, lines)' /\ Whole(recvq)' /\ Len(Contents(recvq')) < LineMax
      BY <1>1, <2>1, <2>2, <2>3, StreamStays, Zenon
    <2>5. state' # "closed"
      BY <1>4
    <2> QED BY <2>4, <2>5, Zenon DEF SplitInv
  <1>5. CASE Stops(recvq) # {}
    <2> DEFINE t == Taken(recvq, Min(Stops(recvq)))
    <2>1. /\ recvq' = Consume(recvq, t.count)
          /\ flags' = IF t.ends THEN flags \ {"NONEWLINE"} ELSE flags \union {"NONEWLINE"}
          /\ lines' = IF "NONEWLINE" \in flags THEN lines
                      ELSE Append(lines, SubSeq(Contents(recvq), 1, t.count))
          /\ state' = IF Contents(recvq') = <<>> THEN "open" ELSE "reading"
      BY <1>5, Zenon DEF GetLine, Has
    <2>2. "NONEWLINE" \in flags' <=> ~t.ends
      <3> HIDE DEF t
      <3> QED BY <2>1
    <2>3. PICK m : m = n + t.count
      OBVIOUS
    <2>4. Parsed(m, recvq', got', flags', lines')
      <3>1. PICK u : u = t
        OBVIOUS
      <3>2. Parsed(n + u.count, Consume(recvq, u.count), got, flags', lines')
        BY <1>2, <1>3, <1>5, <2>1, <2>2, <3>1, LineParsed
      <3> QED BY <1>1, <2>1, <2>3, <3>1, <3>2, Zenon
    <2>5. m \in Nat /\ Parsed(m, recvq, got, flags, lines)'
      <3>1. m \in Nat
        BY <2>4, Zenon DEF Parsed
      <3> QED BY <1>1, <2>4, <3>1, StreamStays, Zenon
    <2>6. GoodQueue(recvq')
      <3>1. t.count \in 0 .. Len(Contents(recvq))
        BY <1>3, <1>5, TakenCount, Zenon
      <3> QED BY <1>3, <2>1, <3>1, ConsumeResult, Zenon
    <2>7. state' = "open" => Whole(recvq)' /\ Len(Contents(recvq')) < LineMax
      <3> SUFFICES ASSUME state' = "open" PROVE Whole(recvq)' /\ Len(Contents(recvq')) < LineMax
        OBVIOUS
      <3>1. Contents(recvq') = <<>>
        <4> HIDE DEF t
        <4> QED BY <2>1
      <3>2. Whole(recvq') /\ Len(Contents(recvq')) < LineMax
        BY <2>6, <3>1, EmptyWhole, Zenon
      <3> QED BY <1>1, <3>2, StreamStays, Zenon
    <2>8. state' \in {"open", "reading"} /\ state' # "closed" /\ state' # "soon"
      <3> HIDE DEF t
      <3> QED BY <2>1
    <2>9. state' \in {"open", "soon"} => state' = "open"
      BY <2>8
    <2> HIDE DEF t
    <2> QED BY <2>5, <2>7, <2>8, <2>9, Zenon DEF SplitInv
  <1> QED BY <1>4, <1>5, Zenon DEF GetLine

LEMMA CloseSplits ==
    ASSUME Inv, SplitInv, Close
    PROVE  SplitInv'
  <1>1. state = "open" /\ state' = "closed" /\ stream' = stream /\ got' = got /\ lines' = lines
    BY Zenon DEF Close
  <1>2. state # "closed" /\ state \in {"open", "soon"} /\ state' \notin {"open", "soon"}
    BY <1>1
  <1>3. PICK n \in Nat : Parsed(n, recvq, got, flags, lines)
    BY <1>2, Zenon DEF SplitInv
  <1>4. recvq \in Seq(AChunk) /\ Whole(recvq) /\ Len(Contents(recvq)) < LineMax
    BY <1>2, Zenon DEF SplitInv, Inv, GoodQueue
  <1>5. lines = Split(stream, got)
    BY <1>3, <1>4, LinesNow, Zenon
  <1> QED BY <1>1, <1>2, <1>5, Zenon DEF SplitInv

LEMMA SplitNextStep ==
    ASSUME Inv, SplitInv, [Next]_vars
    PROVE  SplitInv'
  <1>1. ASSUME NEW len \in Lengths, SendqAdd(len) PROVE SplitInv'
    <2>1. UNCHANGED recvVars /\ state' = state /\ flags' \in {flags, flags \union {"DEAD"}}
      BY <1>1 DEF SendqAdd
    <2>2. "NONEWLINE" \in flags' <=> "NONEWLINE" \in flags
      BY <2>1
    <2> QED BY <2>1, <2>2, SplitStays, Zenon
  <1>2. ASSUME SendqAddEof PROVE SplitInv'
    <2>1. UNCHANGED recvVars /\ state' = state /\ flags' = flags \union {"SEND_EOF"}
      BY <1>2, Zenon DEF SendqAddEof
    <2>2. "NONEWLINE" \in flags' <=> "NONEWLINE" \in flags
      BY <2>1
    <2> QED BY <2>1, <2>2, SplitStays, Zenon
  <1>3. ASSUME NEW k \in 0 .. Len(Contents(sendq)), SendqFlush(k) PROVE SplitInv'
    <2>1. /\ UNCHANGED recvVars /\ state' = state
          /\ flags' \in {flags, flags \union {"DEAD"}, flags \union {"SEND_DEAD"}}
      <3>1. UNCHANGED recvVars /\ state' = state
        BY <1>3, Zenon DEF SendqFlush
      <3>2. \/ flags' \in {flags} \union {flags \union {"DEAD"}} \/ flags' \in {flags} \union {}
            \/ flags' = flags \union {"SEND_DEAD"} \/ flags' = flags \union {}
        BY <1>3, Zenon DEF SendqFlush
      <3> QED BY <3>1, <3>2
    <2>2. "NONEWLINE" \in flags' <=> "NONEWLINE" \in flags
      BY <2>1
    <2> QED BY <2>1, <2>2, SplitStays, Zenon
  <1>4. ASSUME CloseSoon PROVE SplitInv'
    <2>1. UNCHANGED recvVars /\ state = "open" /\ state' = "soon" /\ flags' = flags \union {"DEAD"}
      BY <1>4, Zenon DEF CloseSoon
    <2>2. "NONEWLINE" \in flags' <=> "NONEWLINE" \in flags
      BY <2>1
    <2> QED BY <2>1, <2>2, SplitStays, Zenon
  <1>5. ASSUME UNCHANGED vars PROVE SplitInv'
    <2>1. UNCHANGED recvVars /\ state' = state /\ flags' = flags
      BY <1>5, Zenon DEF vars
    <2>2. "NONEWLINE" \in flags' <=> "NONEWLINE" \in flags
      BY <2>1
    <2> QED BY <2>1, <2>2, SplitStays, Zenon
  <1> QED BY <1>1, <1>2, <1>3, <1>4, <1>5, RecvqPutSplits, GetLineSplits, CloseSplits, Zenon DEF Next

\* However the stream is cut into reads and chunks, and however long its lines
\* are, parse() has been given exactly its complete lines, in order, each once,
\* whenever recvq_put() is done.
THEOREM LinesAlwaysSplit == Spec => []SplitOK
  <1>1. Init => SplitInv
    <2> SUFFICES ASSUME Init PROVE SplitInv
      OBVIOUS
    <2>1. recvq = <<>> /\ flags = {} /\ state = "open" /\ got = 0 /\ lines = <<>>
      BY Zenon DEF Init
    <2>2. Contents(recvq) = <<>> /\ Len(<<>>) = 0 /\ 0 = 0 + 0 /\ 0 \in Nat
      BY <2>1, ContentsEmpty
    <2>3. GoodQueue(recvq)
      BY <2>1, EmptyGood, Zenon
    <2>4. Whole(recvq) /\ Len(Contents(recvq)) < LineMax
      BY <2>2, <2>3, EmptyWhole, Zenon
    <2>5. Begins(stream, 0, "NONEWLINE" \in flags, lines)
      <3>1. SplitState(stream, 0) = [cur |-> <<>>, skip |-> FALSE, out |-> <<>>]
        BY SplitFirst, Zenon
      <3>2. [i \in 1 .. 0 |-> 0 + i] = <<>>
        OBVIOUS
      <3>3. ("NONEWLINE" \in flags) = FALSE
        BY <2>1
      <3> QED BY <2>1, <3>1, <3>2, <3>3, Zenon DEF Begins, InLine
    <2>6. Early(recvq)
      BY <2>1 DEF Early
    <2>7. got = 0 + Len(Contents(recvq)) /\ \A i \in 1 .. Len(Contents(recvq)) : Contents(recvq)[i] = 0 + i
      BY <2>1, <2>2
    <2>8. Parsed(0, recvq, got, flags, lines)
      BY <2>2, <2>5, <2>6, <2>7, Zenon DEF Parsed
    <2>9. state # "closed"
      BY <2>1
    <2> QED BY <2>2, <2>4, <2>8, <2>9, Zenon DEF SplitInv
  <1>2. Inv /\ SplitInv /\ [Next]_vars => SplitInv'
    BY SplitNextStep, Zenon
  <1>3. Inv /\ SplitInv => SplitOK
    <2> SUFFICES ASSUME Inv, SplitInv, state \in {"open", "soon", "closed"}
                 PROVE  lines = Split(stream, got)
      BY Zenon DEF SplitOK
    <2>1. CASE state = "closed"
      BY <2>1, Zenon DEF SplitInv
    <2>2. CASE state # "closed"
      <3>1. state \in {"open", "soon"}
        BY <2>2
      <3>2. PICK n \in Nat : Parsed(n, recvq, got, flags, lines)
        BY <2>2, Zenon DEF SplitInv
      <3>3. recvq \in Seq(AChunk) /\ Whole(recvq) /\ Len(Contents(recvq)) < LineMax
        BY <3>1, Zenon DEF SplitInv, Inv, GoodQueue
      <3> QED BY <3>2, <3>3, LinesNow, Zenon
    <2> QED BY <2>1, <2>2
  <1> QED BY <1>1, <1>2, <1>3, InvHolds, PTL DEF Spec
=============================================================================
