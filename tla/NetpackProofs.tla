---------------------------- MODULE NetpackProofs ----------------------------
(***************************************************************************)
(* Theorems about the cutting of streams into packages, for connections,   *)
(* packages, rings and hash tables of any size, and any cut of the streams *)
(* by the network: what the handler of skynet's gateserver gets, and what  *)
(* the filter keeps.                                                       *)
(***************************************************************************)
EXTENDS NetpackProps, SequenceTheorems, FiniteSetTheorems,
        WellFoundedInduction, TLAPS

(* Induction over numbers, and parts of sequences.                         *)

\* A set of numbers has a least one: induction, for what fails somewhere.
LEMMA Least ==
  ASSUME NEW T, T \subseteq Nat, T # {}
  PROVE  \E n \in T : \A m \in T : n <= m
<1> DEFINE R == {ss \in Nat \X Nat : ss[1] < ss[2]}
<1>1. IsWellFoundedOn(R, Nat)
  BY NatLessThanWellFounded DEF OpToRel
<1>2. \A m, n \in Nat : m < n => <<m, n>> \in R
  OBVIOUS
<1> HIDE DEF R
<1>3. PICK n \in T : \A m \in T : ~ (<<m, n>> \in R)
  BY <1>1, WFMin
<1>4. \A m \in T : ~ (m < n)
  BY <1>2, <1>3
<1> QED
  BY <1>4

\* The function that FlattenSeq computes on the sequences of s up to n.

\* What holds at 0 and goes on from every number to the next holds up to n.
LEMMA Climb ==
  ASSUME NEW n \in Nat, NEW G, 0 \in G, \A k \in 1..n : k - 1 \in G => k \in G
  PROVE  \A k \in 0..n : k \in G
<1> DEFINE T == {k \in 0..n : k \notin G}
<1>1. T \subseteq Nat
  OBVIOUS
<1>2. ASSUME T # {} PROVE FALSE
  <2>1. PICK t \in T : \A k \in T : t <= k
    <3> HIDE DEF T
    <3> QED
      BY <1>1, <1>2, Least
  <2>2. t \in 1..n
    OBVIOUS
  <2>3. t - 1 \in 0..n /\ t - 1 \notin T
    BY <2>1, <2>2
  <2>4. t \in G
    BY <2>2, <2>3
  <2> QED
    BY <2>4
<1> QED
  BY <1>2

\* The same downwards.
LEMMA Descend ==
  ASSUME NEW n \in Nat, NEW G, n \in G, \A k \in 1..n : k \in G => k - 1 \in G
  PROVE  \A k \in 0..n : k \in G
<1> DEFINE H == {k \in 0..n : n - k \in G}
<1>1. 0 \in H
  OBVIOUS
<1>2. ASSUME NEW k \in 1..n, k - 1 \in H PROVE k \in H
  <2>1. n - (k - 1) \in G /\ n - (k - 1) \in 1..n
    BY <1>2
  <2>2. (n - (k - 1)) - 1 \in G
    BY <2>1
  <2>3. (n - (k - 1)) - 1 = n - k
    OBVIOUS
  <2> QED
    BY <2>2, <2>3
<1> HIDE DEF H
<1>3. \A k \in 0..n : k \in H
  BY <1>1, <1>2, Climb
<1>4. ASSUME NEW k \in 0..n PROVE k \in G
  <2>1. n - k \in H /\ n - (n - k) = k
    BY <1>3
  <2> QED
    BY <2>1 DEF H
<1> QED
  BY <1>4

\* The elements of s after the first a, up to the b-th.
Part(s, a, b) == SubSeq(s, a + 1, b)

LEMMA PartIs ==
  ASSUME NEW S, NEW s \in Seq(S), NEW a \in Nat, NEW b \in Nat, a <= b, b <= Len(s)
  PROVE  /\ Part(s, a, b) \in Seq(S)
         /\ Len(Part(s, a, b)) = b - a
         /\ \A i \in 1..(b - a) : Part(s, a, b)[i] = s[a + i]
<1>1. \A i \in (a + 1)..b : s[i] \in S
  OBVIOUS
<1>2. /\ SubSeq(s, a + 1, b) \in Seq(S)
      /\ Len(SubSeq(s, a + 1, b)) = IF a + 1 <= b THEN b - (a + 1) + 1 ELSE 0
      /\ \A i \in 1..(b - (a + 1) + 1) : SubSeq(s, a + 1, b)[i] = s[(a + 1) + i - 1]
  BY <1>1, SubSeqProperties
<1>3. \A i \in Int : (a + 1) + i - 1 = a + i
  OBVIOUS
<1>4. b - (a + 1) + 1 = b - a
  OBVIOUS
<1> QED
  BY <1>2, <1>3, <1>4 DEF Part

LEMMA PartNone ==
  ASSUME NEW s, NEW a \in Nat
  PROVE  Part(s, a, a) = <<>>
BY SubSeqEmpty DEF Part

LEMMA PartAll ==
  ASSUME NEW S, NEW s \in Seq(S)
  PROVE  Part(s, 0, Len(s)) = s
BY SubSeqFull DEF Part

LEMMA PartPart ==
  ASSUME NEW S, NEW s \in Seq(S), NEW a \in Nat, NEW b \in Nat, a <= b, b <= Len(s),
         NEW i \in Nat, NEW j \in Nat, i <= j, a + j <= b
  PROVE  Part(Part(s, a, b), i, j) = Part(s, a + i, a + j)
<1> DEFINE p == Part(s, a, b)
           q == Part(p, i, j)
           x == a + i
           y == a + j
           r == Part(s, x, y)
<1>1. p \in Seq(S) /\ Len(p) = b - a /\ \A k \in 1..(b - a) : p[k] = s[a + k]
  BY PartIs
<1>2. p \in Seq(S) /\ j <= Len(p)
  BY <1>1
<1>3. x \in Nat /\ y \in Nat /\ x <= y /\ y <= Len(s) /\ y - x = j - i
  OBVIOUS
<1> HIDE DEF p
<1>4. q \in Seq(S) /\ Len(q) = j - i /\ \A k \in 1..(j - i) : q[k] = p[i + k]
  BY ONLY <1>2, i \in Nat, j \in Nat, i <= j, PartIs
<1> HIDE DEF x, y
<1>5. r \in Seq(S) /\ Len(r) = y - x /\ \A k \in 1..(y - x) : r[k] = s[x + k]
  <2>1. x \in Nat /\ y \in Nat /\ x <= y /\ y <= Len(s) /\ s \in Seq(S)
    BY <1>3
  <2> QED
    BY ONLY <2>1, PartIs, Zenon
<1>6. ASSUME NEW k \in 1..(j - i) PROVE q[k] = r[k]
  <2>1. i + k \in 1..(b - a) /\ a + (i + k) = x + k /\ k \in 1..(y - x)
    BY <1>3 DEF x
  <2>2. q[k] = p[i + k] /\ p[i + k] = s[a + (i + k)] /\ r[k] = s[x + k]
    BY <1>1, <1>4, <1>5, <2>1
  <2> QED
    BY <2>1, <2>2
<1> HIDE DEF q, r
<1>7. Len(q) = Len(r) /\ \A k \in 1..Len(q) : q[k] = r[k]
  BY <1>3, <1>4, <1>5, <1>6
<1>8. q = r
  BY ONLY <1>4, <1>5, <1>7, SeqEqual
<1> QED
  BY <1>8 DEF q, r, p, x, y

LEMMA PartJoin ==
  ASSUME NEW S, NEW s \in Seq(S), NEW a \in Nat, NEW k \in Nat, NEW b \in Nat,
         a <= k, k <= b, b <= Len(s)
  PROVE  Part(s, a, k) \o Part(s, k, b) = Part(s, a, b)
<1>1. a + 1 \in 1..(Len(s) + 1) /\ k \in ((a + 1) - 1)..Len(s) /\ b \in k..Len(s)
  OBVIOUS
<1> QED
  BY <1>1, ConcatAdjacentSubSeq DEF Part

LEMMA PartFirst ==
  ASSUME NEW S, NEW s \in Seq(S), NEW k \in 1..Len(s), NEW m \in k..Len(s)
  PROVE  <<s[k]>> \o Part(s, k, m) = Part(s, k - 1, m)
<1>1. SubSeq(s, k, m) = <<s[k]>> \o SubSeq(s, k + 1, m)
  BY SubSeqRecursiveFirst
<1>2. (k - 1) + 1 = k
  OBVIOUS
<1> QED
  BY <1>1, <1>2 DEF Part

LEMMA PartLast ==
  ASSUME NEW S, NEW s \in Seq(S), NEW k \in 1..Len(s)
  PROVE  /\ Part(s, 0, k - 1) \in Seq(S)
         /\ Append(Part(s, 0, k - 1), s[k]) = Part(s, 0, k)
<1> DEFINE j == k - 1
<1>1. j \in Nat /\ 0 \in Nat /\ 0 <= j /\ j <= Len(s) /\ s[k] \in S /\ 1 \in 1..Len(s) /\ k \in 1..Len(s)
  OBVIOUS
<1>2. 0 + 1 = 1
  OBVIOUS
<1> HIDE DEF j
<1>3. Part(s, 0, j) \in Seq(S)
  BY ONLY <1>1, s \in Seq(S), PartIs
<1>4. Append(Part(s, 0, j), s[k]) = Part(s, 0, j) \o <<s[k]>>
  BY ONLY <1>1, <1>3, AppendIsConcat
<1>5. SubSeq(s, 1, k) = SubSeq(s, 1, k - 1) \o <<s[k]>>
  BY SubSeqRecursiveSecond
<1> QED
  BY <1>2, <1>3, <1>4, <1>5 DEF Part, j
-----------------------------------------------------------------------------
(* Flattening, by induction on the number of sequences.                    *)

IsFlat(f, s, n) ==
  f = [i \in 1..n |-> IF i = 1 THEN s[i] ELSE f[i - 1] \o s[i]]

LEMMA FlatExists ==
  ASSUME NEW s, NEW n \in Nat
  PROVE  \E f : IsFlat(f, s, n)
<1> DEFINE T == {k \in Nat : ~ \E f : IsFlat(f, s, k)}
<1> SUFFICES T = {}
  OBVIOUS
<1>1. 0 \notin T
  <2> DEFINE f == [i \in 1..0 |-> s[i]]
  <2>1. IsFlat(f, s, 0)
    <3>1. \A i \in 1..0 : FALSE
      OBVIOUS
    <3> QED
      BY <3>1 DEF IsFlat
  <2> QED
    BY <2>1
<1>2. ASSUME NEW k \in Nat, k \notin T PROVE k + 1 \notin T
  <2>1. PICK f : IsFlat(f, s, k)
    BY <1>2
  <2>2. f = [i \in 1..k |-> IF i = 1 THEN s[i] ELSE f[i - 1] \o s[i]]
    BY <2>1 DEF IsFlat
  <2> DEFINE g == [i \in 1..(k + 1) |->
                     IF i = k + 1
                     THEN (IF k = 0 THEN s[i] ELSE f[k] \o s[i]) ELSE f[i]]
  <2>3. ASSUME NEW i \in 1..(k + 1)
        PROVE  g[i] = IF i = 1 THEN s[i] ELSE g[i - 1] \o s[i]
    <3>1. CASE i = k + 1
      <4>1. CASE k = 0
        BY <3>1, <4>1
      <4>2. CASE k # 0
        <5>1. i - 1 = k /\ k \in 1..(k + 1) /\ k # k + 1 /\ i # 1
          BY <3>1, <4>2
        <5>2. g[k] = f[k]
          BY <5>1
        <5> QED
          BY <3>1, <4>2, <5>1, <5>2
      <4> QED
        BY <4>1, <4>2
    <3>2. CASE i # k + 1
      <4>1. i \in 1..k /\ (i # 1 => i - 1 \in 1..(k + 1) /\ i - 1 # k + 1)
        BY <3>2
      <4>2. f[i] = IF i = 1 THEN s[i] ELSE f[i - 1] \o s[i]
        BY <2>2, <4>1
      <4> QED
        BY <3>2, <4>1, <4>2
    <3> QED
      BY <3>1, <3>2
  <2>4. IsFlat(g, s, k + 1)
    BY <2>3 DEF IsFlat
  <2> QED
    BY <2>4
<1>3. T \subseteq Nat
  OBVIOUS
<1> HIDE DEF T
<1>4. ASSUME T # {} PROVE FALSE
  <2>1. PICK t \in T : \A m \in T : t <= m
    BY <1>3, <1>4, Least
  <2>2. t # 0 /\ t \in Nat
    BY <1>1, <1>3
  <2>3. t - 1 \in Nat /\ t - 1 \notin T
    BY <2>1, <2>2
  <2>4. (t - 1) + 1 \notin T
    BY <1>2, <2>3
  <2> QED
    BY <2>2, <2>4
<1> QED
  BY <1>4

\* Two such functions agree where their sequences do.
LEMMA FlatAgrees ==
  ASSUME NEW s, NEW t, NEW n \in Nat, NEW m \in Nat, n <= m,
         NEW f, IsFlat(f, s, n), NEW g, IsFlat(g, t, m),
         \A i \in 1..n : s[i] = t[i]
  PROVE  \A i \in 1..n : f[i] = g[i]
<1> DEFINE T == {i \in 1..n : f[i] # g[i]}
<1>1. T \subseteq Nat
  OBVIOUS
<1>2. ASSUME T # {} PROVE FALSE
  <2>1. PICK i \in T : \A j \in T : i <= j
    <3> HIDE DEF T
    <3> QED
      BY <1>1, <1>2, Least
  <2>2. i \in 1..n /\ i \in 1..m /\ (i # 1 => i - 1 \in 1..n)
    OBVIOUS
  <2>3. /\ f[i] = IF i = 1 THEN s[i] ELSE f[i - 1] \o s[i]
        /\ g[i] = IF i = 1 THEN t[i] ELSE g[i - 1] \o t[i]
    BY <2>2 DEF IsFlat
  <2>4. i # 1 => f[i - 1] = g[i - 1]
    BY <2>1, <2>2
  <2> QED
    BY <2>2, <2>3, <2>4
<1> QED
  BY <1>2

LEMMA FlattenEmpty == FlattenSeq(<<>>) = <<>>
BY DEF FlattenSeq

\* FlattenSeq is the last value of such a function.
LEMMA FlattenValue ==
  ASSUME NEW S, NEW s \in Seq(S), s # <<>>
  PROVE  \E f : IsFlat(f, s, Len(s)) /\ FlattenSeq(s) = f[Len(s)]
<1>1. Len(s) \in Nat /\ Len(s) # 0
  OBVIOUS
<1> DEFINE f == CHOOSE h : IsFlat(h, s, Len(s))
<1>2. FlattenSeq(s) = f[Len(s)]
  BY <1>1 DEF FlattenSeq, IsFlat
<1>3. IsFlat(f, s, Len(s))
  BY <1>1, FlatExists
<1> QED
  BY <1>2, <1>3

LEMMA FlattenAppend ==
  ASSUME NEW S, NEW P, NEW s \in Seq(S), NEW e \in S, e \in Seq(P)
  PROVE  FlattenSeq(Append(s, e)) = FlattenSeq(s) \o e
<1> DEFINE n == Len(s)
           t == Append(s, e)
<1>1. /\ n \in Nat /\ t \in Seq(S) /\ t # <<>> /\ Len(t) = n + 1
      /\ t[n + 1] = e
      /\ \A i \in 1..n : s[i] = t[i]
  OBVIOUS
<1>2. PICK g : IsFlat(g, t, n + 1) /\ FlattenSeq(t) = g[n + 1]
  <2> HIDE DEF t, n
  <2> QED
    BY <1>1, FlattenValue
<1>3. g[n + 1] = IF n + 1 = 1 THEN e ELSE g[(n + 1) - 1] \o e
  <2>1. n + 1 \in 1..(n + 1)
    BY <1>1
  <2> HIDE DEF t, n
  <2> QED
    BY <1>1, <1>2, <2>1 DEF IsFlat
<1>4. CASE s = <<>>
  <2>1. n = 0 /\ FlattenSeq(s) = <<>>
    BY <1>4, FlattenEmpty
  <2>2. <<>> \o e = e
    OBVIOUS
  <2> QED
    BY <1>2, <1>3, <1>4, <2>1, <2>2
<1>5. CASE s # <<>>
  <2>1. PICK f : IsFlat(f, s, n) /\ FlattenSeq(s) = f[n]
    BY <1>5, FlattenValue
  <2>2. n \in 1..n /\ n + 1 # 1 /\ (n + 1) - 1 = n /\ n <= n + 1 /\ n + 1 \in Nat
    BY <1>5
  <2>3. f[n] = g[n]
    <3> HIDE DEF n, t
    <3>1. n \in Nat /\ \A i \in 1..n : s[i] = t[i]
      BY <1>1
    <3>2. IsFlat(f, s, n) /\ IsFlat(g, t, n + 1)
      BY <1>2, <2>1
    <3>3. \A i \in 1..n : f[i] = g[i]
      BY <2>2, <3>1, <3>2, FlatAgrees
    <3> QED
      BY <2>2, <3>3
  <2> QED
    BY <1>2, <1>3, <2>1, <2>2, <2>3
<1> QED
  BY <1>4, <1>5
-----------------------------------------------------------------------------
(* The stream of a client: its packages, one after the other.              *)

LEMMA DivHas ==
  ASSUME NEW x \in Nat, NEW n \in Nat, n > 0
  PROVE  /\ x \div n \in Nat /\ x % n \in Nat /\ x % n < n
         /\ x = n * (x \div n) + (x % n)
<1>1. x % n \in 0..(n - 1)
  OBVIOUS
<1>2. x \div n \in Nat
  OBVIOUS
<1>3. x = n * (x \div n) + (x % n)
  OBVIOUS
<1> QED
  BY <1>1, <1>2, <1>3

\* write_size and read_size: the two bytes of a length give the length back.
LEMMA HeaderIs ==
  ASSUME NEW i \in 1..Packages, NEW len \in Size
  PROVE  /\ len \in Nat
         /\ HeaderOf(i, len) \in Seq(Byte) /\ Len(HeaderOf(i, len)) = 2
         /\ ReadSize(HeaderOf(i, len)[1], HeaderOf(i, len)[2]) = len
<1>1. Base \in Nat /\ Base > 1 /\ len \in 0..(Base * Base - 1)
  BY NetpackAssumption
<1>2. len \in Nat /\ len < Base * Base /\ Base * Base \in Nat
  BY <1>1
<1> DEFINE d == len \div Base
           r == len % Base
<1>3. d \in Nat /\ r \in Nat /\ r < Base /\ len = Base * d + r
  BY <1>1, <1>2, DivHas
<1> HIDE DEF d, r
<1>4. d < Base
  <2>1. ASSUME ~ (d < Base) PROVE FALSE
    <3>1. d >= Base
      BY <1>1, <1>3, <2>1
    <3>2. Base * d >= Base * Base
      BY <1>1, <1>3, <3>1
    <3>3. Base * d \in Nat
      BY <1>1, <1>3
    <3> QED
      BY <1>2, <1>3, <3>2, <3>3
  <2> QED
    BY <2>1
<1> DEFINE x == [pack |-> i, at |-> 1, val |-> d]
           y == [pack |-> i, at |-> 2, val |-> r]
<1>5. 1 \in 1..(Base * Base + 1) /\ 2 \in 1..(Base * Base + 1)
  <2>1. Base * Base >= 1
    BY <1>1
  <2> QED
    BY <1>2, <2>1
<1>6. d \in 0..(Base - 1) /\ r \in 0..(Base - 1)
  BY <1>1, <1>3, <1>4
<1>7. x \in Byte /\ y \in Byte /\ x.val = d /\ y.val = r
  BY <1>5, <1>6 DEF Byte
<1>8. HeaderOf(i, len) = <<x, y>>
  BY DEF HeaderOf, d, r
<1>9. ReadSize(x, y) = len
  <2>1. d * Base + r = len
    BY <1>1, <1>3
  <2> QED
    BY <1>7, <2>1 DEF ReadSize
<1> HIDE DEF x, y
<1> QED
  BY <1>2, <1>7, <1>8, <1>9

\* lpack: two bytes of length, then the body.
LEMMA PackedIs ==
  ASSUME NEW i \in 1..Packages, NEW len \in Size
  PROVE  /\ len \in Nat
         /\ BodyOf(i, len) \in Seq(Byte) /\ Len(BodyOf(i, len)) = len
         /\ Packed(i, len) \in Seq(Byte) /\ Len(Packed(i, len)) = len + 2
         /\ ReadSize(Packed(i, len)[1], Packed(i, len)[2]) = len
         /\ \A k \in 1..len : Packed(i, len)[2 + k] = BodyOf(i, len)[k]
<1> DEFINE h == HeaderOf(i, len)
           b == BodyOf(i, len)
<1>1. len \in Nat /\ h \in Seq(Byte) /\ Len(h) = 2 /\ ReadSize(h[1], h[2]) = len
  BY HeaderIs
<1>2. Base \in Nat /\ Base > 1 /\ len \in 0..(Base * Base - 1) /\ Base * Base \in Nat
  BY NetpackAssumption
<1>3. b = [k \in 1..len |-> [pack |-> i, at |-> k + 2, val |-> 1]]
  BY DEF BodyOf
<1>4. \A k \in 1..len : [pack |-> i, at |-> k + 2, val |-> 1] \in Byte
  <2> SUFFICES ASSUME NEW k \in 1..len
               PROVE  [pack |-> i, at |-> k + 2, val |-> 1] \in Byte
    OBVIOUS
  <2>1. k + 2 \in 1..(Base * Base + 1) /\ 1 \in 0..(Base - 1)
    BY <1>1, <1>2
  <2> QED
    BY <2>1 DEF Byte
<1>5. b \in Seq(Byte) /\ Len(b) = len
  BY <1>1, <1>3, <1>4
<1> HIDE DEF h, b
<1>6. /\ h \o b \in Seq(Byte) /\ Len(h \o b) = len + 2
      /\ (h \o b)[1] = h[1] /\ (h \o b)[2] = h[2]
      /\ \A k \in 1..len : (h \o b)[2 + k] = b[k]
  <2>1. /\ h \o b \in Seq(Byte) /\ Len(h \o b) = Len(h) + Len(b)
        /\ \A j \in 1..(Len(h) + Len(b)) :
             (h \o b)[j] = IF j <= Len(h) THEN h[j] ELSE b[j - Len(h)]
    BY ONLY <1>1, <1>5, ConcatProperties
  <2>2. \A j \in 1..(2 + len) : (h \o b)[j] = IF j <= 2 THEN h[j] ELSE b[j - 2]
    BY <1>1, <1>5, <2>1
  <2>3. ASSUME NEW k \in 1..len PROVE (h \o b)[2 + k] = b[k]
    <3>1. 2 + k \in 1..(2 + len) /\ ~ (2 + k <= 2) /\ (2 + k) - 2 = k
      BY <1>1
    <3> QED
      BY <2>2, <3>1
  <2>4. 1 \in 1..(2 + len) /\ 2 \in 1..(2 + len) /\ 1 <= 2 /\ 2 <= 2
    BY <1>1
  <2>5. (h \o b)[1] = h[1] /\ (h \o b)[2] = h[2]
    BY <2>2, <2>4
  <2> QED
    BY <1>1, <1>5, <2>1, <2>3, <2>5
<1>7. Packed(i, len) = h \o b
  BY DEF Packed, h, b
<1> QED
  BY <1>1, <1>5, <1>6, <1>7 DEF b

Lens == [1..Packages -> Size]

\* The first n packages of a client that sends packages of the lengths z.
StreamOf(z, n) == FlattenSeq([i \in 1..n |-> Packed(i, z[i])])

\* The bytes that they take.
Off(z, n) == Len(StreamOf(z, n))

LEMMA StreamOfStep ==
  ASSUME NEW z \in Lens, NEW n \in 1..Packages, StreamOf(z, n - 1) \in Seq(Byte)
  PROVE  /\ StreamOf(z, n) \in Seq(Byte)
         /\ StreamOf(z, n) = StreamOf(z, n - 1) \o Packed(n, z[n])
<1> DEFINE s == [i \in 1..(n - 1) |-> Packed(i, z[i])]
           t == [i \in 1..n |-> Packed(i, z[i])]
           e == Packed(n, z[n])
           S == Seq(Byte)
<1>1. Packages \in Nat
  BY NetpackAssumption
<1>2. \A i \in 1..n : Packed(i, z[i]) \in S
  <2> SUFFICES ASSUME NEW i \in 1..n PROVE Packed(i, z[i]) \in S
    OBVIOUS
  <2>1. i \in 1..Packages /\ z[i] \in Size
    BY <1>1 DEF Lens
  <2> QED
    BY <2>1, PackedIs
<1>3. e \in S
  BY <1>2
<1>4. n - 1 \in Nat /\ n \in Nat /\ \A i \in 1..(n - 1) : i \in 1..n
  BY <1>1
<1> HIDE DEF S
<1>5. s \in Seq(S) /\ Len(s) = n - 1 /\ \A i \in 1..(n - 1) : s[i] = Packed(i, z[i])
  <2>1. \A i \in 1..(n - 1) : Packed(i, z[i]) \in S
    BY <1>2, <1>4
  <2> QED
    BY <1>4, <2>1
<1>6. t \in Seq(S) /\ Len(t) = n /\ \A i \in 1..n : t[i] = Packed(i, z[i])
  BY <1>2, <1>4
<1> HIDE DEF s, t
<1>7. t = Append(s, e)
  <2> DEFINE a == Append(s, e)
  <2>1. /\ a \in Seq(S) /\ Len(a) = Len(s) + 1
        /\ \A i \in 1..Len(s) : a[i] = s[i]
        /\ a[Len(s) + 1] = e
    BY ONLY <1>3, <1>5, AppendProperties
  <2>2. Len(a) = n /\ \A i \in 1..n : t[i] = a[i]
    BY <1>4, <1>5, <1>6, <2>1
  <2> HIDE DEF a
  <2>3. t = a
    <3>1. t \in Seq(S) /\ a \in Seq(S) /\ Len(t) = Len(a) /\ \A i \in 1..Len(t) : t[i] = a[i]
      BY <1>6, <2>1, <2>2
    <3> QED
      BY ONLY <3>1, SeqEqual
  <2> QED
    BY <2>3 DEF a
<1>8. FlattenSeq(Append(s, e)) = FlattenSeq(s) \o e
  <2>1. e \in Seq(Byte)
    BY <1>3 DEF S
  <2> QED
    BY ONLY <1>3, <1>5, <2>1, FlattenAppend
<1>9. StreamOf(z, n) = FlattenSeq(t) /\ StreamOf(z, n - 1) = FlattenSeq(s)
  BY DEF StreamOf, s, t
<1>10. StreamOf(z, n - 1) \o e \in Seq(Byte)
  <2>1. e \in Seq(Byte)
    BY <1>3 DEF S
  <2> QED
    BY <2>1, ConcatProperties
<1> QED
  BY <1>7, <1>8, <1>9, <1>10

LEMMA StreamOfIs ==
  ASSUME NEW z \in Lens
  PROVE  /\ StreamOf(z, 0) = <<>>
         /\ \A n \in 0..Packages : StreamOf(z, n) \in Seq(Byte) /\ Off(z, n) \in Nat
         /\ \A n \in 1..Packages : /\ StreamOf(z, n) = StreamOf(z, n - 1) \o Packed(n, z[n])
                                   /\ Off(z, n) = Off(z, n - 1) + (z[n] + 2)
<1>1. Packages \in Nat
  BY NetpackAssumption
<1>2. StreamOf(z, 0) = <<>>
  <2>1. [i \in 1..0 |-> Packed(i, z[i])] = <<>>
    OBVIOUS
  <2> QED
    BY <2>1, FlattenEmpty DEF StreamOf
<1> DEFINE G == {k \in 0..Packages : StreamOf(z, k) \in Seq(Byte)}
<1>3. 0 \in G
  <2>1. <<>> \in Seq(Byte) /\ 0 \in 0..Packages
    BY <1>1, EmptySeq
  <2> QED
    BY <1>2, <2>1
<1>4. ASSUME NEW k \in 1..Packages, k - 1 \in G PROVE k \in G
  BY <1>1, <1>4, StreamOfStep
<1> HIDE DEF G
<1>5. \A n \in 0..Packages : n \in G
  BY <1>1, <1>3, <1>4, Climb
<1>6. \A n \in 0..Packages : StreamOf(z, n) \in Seq(Byte)
  BY <1>5 DEF G
<1>7. \A n \in 0..Packages : Off(z, n) \in Nat
  BY <1>6, LenProperties DEF Off
<1>8. ASSUME NEW n \in 1..Packages
      PROVE  /\ StreamOf(z, n) = StreamOf(z, n - 1) \o Packed(n, z[n])
             /\ Off(z, n) = Off(z, n - 1) + (z[n] + 2)
  <2>1. n - 1 \in 0..Packages /\ z[n] \in Size
    BY <1>1 DEF Lens
  <2>2. StreamOf(z, n - 1) \in Seq(Byte)
    BY <1>6, <2>1
  <2>3. StreamOf(z, n) = StreamOf(z, n - 1) \o Packed(n, z[n])
    BY <2>2, StreamOfStep
  <2>4. Packed(n, z[n]) \in Seq(Byte) /\ Len(Packed(n, z[n])) = z[n] + 2
    BY <2>1, PackedIs
  <2>5. Len(StreamOf(z, n - 1) \o Packed(n, z[n])) = Len(StreamOf(z, n - 1)) + Len(Packed(n, z[n]))
    BY ONLY <2>2, <2>4, ConcatProperties
  <2> QED
    BY <2>3, <2>4, <2>5 DEF Off
<1> QED
  BY <1>2, <1>6, <1>7, <1>8

LEMMA OffUp ==
  ASSUME NEW z \in Lens, NEW n \in 1..Packages
  PROVE  /\ z[n] \in Nat /\ Off(z, n - 1) \in Nat /\ Off(z, n) \in Nat
         /\ Off(z, n) = Off(z, n - 1) + z[n] + 2
<1>1. n - 1 \in 0..Packages /\ n \in 0..Packages /\ z[n] \in Size
  BY NetpackAssumption DEF Lens
<1>2. z[n] \in Nat
  BY <1>1, HeaderIs
<1> QED
  BY <1>1, <1>2, StreamOfIs

LEMMA OffZero ==
  ASSUME NEW z \in Lens
  PROVE  Off(z, 0) = 0
BY StreamOfIs DEF Off

LEMMA OffMono ==
  ASSUME NEW z \in Lens, NEW m \in 0..Packages, NEW n \in 0..m
  PROVE  Off(z, n) <= Off(z, m)
<1>1. Packages \in Nat
  BY NetpackAssumption
<1> DEFINE G == {k \in 0..m : Off(z, k) <= Off(z, m)}
<1>2. \A k \in 0..Packages : Off(z, k) \in Nat
  BY StreamOfIs
<1>3. m \in G
  BY <1>1, <1>2
<1>4. ASSUME NEW k \in 1..m, k \in G PROVE k - 1 \in G
  <2>1. k \in 1..Packages /\ k - 1 \in 0..m
    BY <1>1
  <2>2. Off(z, k - 1) <= Off(z, k) /\ Off(z, k - 1) \in Nat /\ Off(z, k) \in Nat
    BY <2>1, OffUp
  <2>3. m \in 0..Packages /\ Off(z, m) \in Nat /\ Off(z, k) <= Off(z, m)
    BY <1>2, <1>4
  <2> QED
    BY <2>1, <2>2, <2>3
<1> HIDE DEF G
<1>5. n \in G
  <2>1. m \in Nat
    BY <1>1
  <2> QED
    BY <2>1, <1>3, <1>4, Descend
<1> QED
  BY <1>5 DEF G

\* The packages that have come are not changed by those that follow.
LEMMA StreamOfPrefix ==
  ASSUME NEW z \in Lens, NEW m \in 0..Packages, NEW n \in 0..m, NEW i \in 1..Off(z, n)
  PROVE  StreamOf(z, m)[i] = StreamOf(z, n)[i]
<1>1. Packages \in Nat /\ m \in Nat
  BY NetpackAssumption
<1>2. n \in 0..Packages /\ Off(z, n) \in Nat
  BY <1>1, StreamOfIs
<1> DEFINE G == {k \in 0..(m - n) : StreamOf(z, n + k)[i] = StreamOf(z, n)[i]}
           d == m - n
<1>3. d \in Nat /\ 0 \in G
  <2>1. d \in Nat /\ n + 0 = n /\ 0 \in 0..d
    BY <1>1, <1>2
  <2> QED
    BY <2>1
<1>4. ASSUME NEW k \in 1..d, k - 1 \in G PROVE k \in G
  <2> DEFINE j == n + k
  <2>1. /\ j \in 1..Packages /\ j - 1 \in 0..Packages /\ j - 1 = n + (k - 1)
        /\ n \in 0..(j - 1) /\ k \in 0..d
    BY <1>1, <1>2
  <2>2. StreamOf(z, j - 1)[i] = StreamOf(z, n)[i]
    BY <1>4, <2>1
  <2>3. StreamOf(z, j) = StreamOf(z, j - 1) \o Packed(j, z[j])
    BY <2>1, StreamOfIs
  <2>4. StreamOf(z, j - 1) \in Seq(Byte) /\ Packed(j, z[j]) \in Seq(Byte)
    <3>1. z[j] \in Size
      BY <2>1 DEF Lens
    <3> QED
      BY <2>1, <3>1, StreamOfIs, PackedIs
  <2>5. Off(z, n) <= Off(z, j - 1) /\ Off(z, j - 1) \in Nat
    BY <2>1, OffMono, StreamOfIs
  <2>6. i <= Len(StreamOf(z, j - 1)) /\ i \in Nat /\ 1 <= i
    BY <1>2, <2>5 DEF Off
  <2> DEFINE p == StreamOf(z, j - 1)
             q == Packed(j, z[j])
  <2>7. (p \o q)[i] = p[i]
    <3> HIDE DEF p, q
    <3>1. p \in Seq(Byte) /\ q \in Seq(Byte) /\ i <= Len(p) /\ i \in Nat /\ 1 <= i
      BY <2>4, <2>6 DEF p, q
    <3> QED
      BY ONLY <3>1, ConcatProperties
  <2> QED
    BY <2>1, <2>2, <2>3, <2>7
<1> HIDE DEF G
<1>5. d \in G
  <2> HIDE DEF d
  <2>1. \A k \in 0..d : k \in G
    BY ONLY <1>3, <1>4, Climb
  <2> QED
    BY <1>3, <2>1
<1>6. n + (m - n) = m
  BY <1>1, <1>2
<1> QED
  BY <1>5, <1>6 DEF G

\* Package n in the stream: its length, then its body.
LEMMA StreamAt ==
  ASSUME NEW z \in Lens, NEW n \in 1..Packages, NEW S, S = StreamOf(z, Packages)
  PROVE  /\ S \in Seq(Byte)
         /\ Off(z, n - 1) + 2 <= Off(z, n) /\ Off(z, n) <= Len(S)
         /\ ReadSize(S[Off(z, n - 1) + 1], S[Off(z, n - 1) + 2]) = z[n]
         /\ Part(S, Off(z, n - 1) + 2, Off(z, n)) = BodyOf(n, z[n])
<1> DEFINE a == Off(z, n - 1)
           l == z[n]
           p == Packed(n, l)
           f == StreamOf(z, n - 1)
<1>1. /\ Packages \in Nat /\ n - 1 \in 0..Packages /\ n \in 0..Packages
      /\ Packages \in 0..Packages /\ l \in Size
  BY NetpackAssumption DEF Lens
<1>2. S \in Seq(Byte) /\ Len(S) = Off(z, Packages)
  BY <1>1, StreamOfIs DEF Off
<1>3. a \in Nat /\ Off(z, n) \in Nat /\ l \in Nat /\ Off(z, n) = a + l + 2
  BY OffUp
<1>4. Off(z, n) <= Off(z, Packages)
  BY <1>1, OffMono
<1>5. f \in Seq(Byte) /\ Len(f) = a /\ StreamOf(z, n) = f \o p
  BY <1>1, StreamOfIs DEF Off
<1>6. /\ BodyOf(n, l) \in Seq(Byte) /\ Len(BodyOf(n, l)) = l
      /\ p \in Seq(Byte) /\ Len(p) = l + 2 /\ ReadSize(p[1], p[2]) = l
      /\ \A k \in 1..l : p[2 + k] = BodyOf(n, l)[k]
  BY <1>1, PackedIs
<1>7. \A i \in 1..Off(z, n) : S[i] = StreamOf(z, n)[i]
  <2>1. n \in 0..Packages /\ Packages \in 0..Packages
    BY <1>1
  <2> QED
    BY <2>1, StreamOfPrefix
<1> HIDE DEF p, f, l
<1>8. ASSUME NEW k \in 1..(l + 2) PROVE S[a + k] = p[k]
  <2> HIDE DEF a
  <2>1. (f \o p)[a + k] = p[k]
    <3>1. /\ Len(f \o p) = Len(f) + Len(p)
          /\ \A j \in 1..(Len(f) + Len(p)) :
               (f \o p)[j] = IF j <= Len(f) THEN f[j] ELSE p[j - Len(f)]
      BY ONLY <1>5, <1>6, ConcatProperties
    <3>2. a + k \in 1..(a + (l + 2)) /\ ~ (a + k <= a) /\ (a + k) - a = k
      BY <1>3
    <3> QED
      BY <1>5, <1>6, <3>1, <3>2
  <2>2. a + k \in 1..Off(z, n)
    BY <1>3
  <2> QED
    BY <1>5, <1>7, <2>1, <2>2
<1> HIDE DEF a
<1>9. ReadSize(S[a + 1], S[a + 2]) = l
  <2>1. 1 \in 1..(l + 2) /\ 2 \in 1..(l + 2)
    BY <1>3
  <2> QED
    BY <1>6, <1>8, <2>1
<1> DEFINE x == a + 2
           y == Off(z, n)
           r == Part(S, x, y)
           b == BodyOf(n, l)
<1>10. x \in Nat /\ y \in Nat /\ x <= y /\ y <= Len(S) /\ y - x = l
  BY <1>2, <1>3, <1>4
<1>11. \A k \in 1..l : S[x + k] = p[2 + k]
  <2> SUFFICES ASSUME NEW k \in 1..l PROVE S[x + k] = p[2 + k]
    OBVIOUS
  <2>1. 2 + k \in 1..(l + 2) /\ x + k = a + (2 + k)
    BY <1>3
  <2> QED
    BY <1>8, <2>1
<1> HIDE DEF x, y, b
<1>12. r \in Seq(Byte) /\ Len(r) = y - x /\ \A k \in 1..(y - x) : r[k] = S[x + k]
  BY ONLY <1>2, <1>10, PartIs
<1> HIDE DEF r
<1>13. r = b
  <2>1. /\ r \in Seq(Byte) /\ b \in Seq(Byte) /\ Len(r) = Len(b)
        /\ \A k \in 1..Len(r) : r[k] = b[k]
    BY <1>6, <1>10, <1>11, <1>12 DEF b
  <2> QED
    BY ONLY <2>1, SeqEqual
<1>14. a + 2 <= Off(z, n) /\ Off(z, n) <= Len(S)
  BY <1>10 DEF x, y
<1> QED
  BY <1>2, <1>9, <1>13, <1>14 DEF r, b, x, y, a, l

\* The packages of a client, as the handler should get them.
Whole(z) == [i \in 1..Packages |-> BodyOf(i, z[i])]

LEMMA WholeIs ==
  ASSUME NEW z \in Lens
  PROVE  /\ Whole(z) \in Seq(Seq(Byte)) /\ Len(Whole(z)) = Packages
         /\ \A i \in 1..Packages : Whole(z)[i] = BodyOf(i, z[i])
<1>1. Packages \in Nat
  BY NetpackAssumption
<1>2. \A i \in 1..Packages : BodyOf(i, z[i]) \in Seq(Byte)
  BY PackedIs DEF Lens
<1> QED
  BY <1>1, <1>2 DEF Whole

\* Of the first g bytes the first m packages are whole.
Have(z, m, g) ==
  /\ m \in 0..Packages
  /\ g \in 0..Off(z, Packages)
  /\ Off(z, m) <= g
  /\ m < Packages => g < Off(z, m + 1)

LEMMA HaveSome ==
  ASSUME NEW z \in Lens, NEW g \in 0..Off(z, Packages)
  PROVE  \E m \in 0..Packages : Have(z, m, g)
<1>1. Packages \in Nat /\ \A k \in 0..Packages : Off(z, k) \in Nat
  BY NetpackAssumption, StreamOfIs
<1> DEFINE T == {k \in 0..Packages : Off(z, Packages - k) <= g}
<1>2. T \subseteq Nat
  OBVIOUS
<1>3. Packages \in T
  <2>1. Packages \in 0..Packages /\ Packages - Packages = 0 /\ Off(z, 0) <= g
    BY <1>1, OffZero
  <2> QED
    BY <2>1
<1>4. PICK t \in T : \A k \in T : t <= k
  <2> HIDE DEF T
  <2> QED
    BY <1>2, <1>3, Least
<1> DEFINE m == Packages - t
<1>5. m \in 0..Packages /\ Off(z, m) <= g
  BY <1>1
<1>6. ASSUME m < Packages PROVE g < Off(z, m + 1)
  <2>1. t - 1 \in 0..Packages /\ t - 1 \notin T /\ Packages - (t - 1) = m + 1
    BY <1>1, <1>4, <1>6
  <2>2. ~ (Off(z, m + 1) <= g)
    BY <2>1
  <2>3. Off(z, m + 1) \in Nat /\ g \in Nat
    <3>1. m + 1 \in 0..Packages /\ Packages \in 0..Packages
      BY <1>1, <1>6
    <3>2. Off(z, Packages) \in Nat
      BY <1>1, <3>1
    <3> QED
      BY <1>1, <3>1, <3>2
  <2> QED
    BY <2>2, <2>3
<1> QED
  BY <1>5, <1>6 DEF Have

LEMMA HaveOrder ==
  ASSUME NEW z \in Lens, NEW m, NEW g, NEW k, NEW h,
         Have(z, m, g), Have(z, k, h), g <= h
  PROVE  m <= k
<1>1. /\ Packages \in Nat /\ m \in 0..Packages /\ k \in 0..Packages
      /\ g \in Nat /\ h \in Nat /\ Off(z, m) \in Nat
  <2>1. Packages \in 0..Packages
    BY NetpackAssumption
  <2>2. Off(z, Packages) \in Nat
    BY <2>1, StreamOfIs
  <2> QED
    BY <2>1, <2>2, NetpackAssumption, StreamOfIs DEF Have
<1> SUFFICES ASSUME k < m PROVE FALSE
  BY <1>1
<1>2. h < Off(z, k + 1) /\ Off(z, k + 1) \in Nat
  BY <1>1, StreamOfIs DEF Have
<1>3. Off(z, k + 1) <= Off(z, m)
  <2>1. k + 1 \in 0..m
    BY <1>1
  <2> QED
    BY <1>1, <2>1, OffMono
<1>4. Off(z, m) <= g
  BY DEF Have
<1> QED
  BY <1>1, <1>2, <1>3, <1>4

LEMMA HaveBounds ==
  ASSUME NEW z \in Lens, NEW m, NEW g, Have(z, m, g)
  PROVE  /\ m \in Nat /\ m <= Packages /\ g \in Nat /\ Packages \in Nat
         /\ Off(z, m) \in Nat /\ Off(z, m) <= g
         /\ g <= Len(StreamOf(z, Packages))
         /\ StreamOf(z, Packages) \in Seq(Byte)
<1>1. Packages \in Nat /\ Packages \in 0..Packages /\ m \in 0..Packages
  BY NetpackAssumption DEF Have
<1>2. Off(z, m) \in Nat /\ Off(z, Packages) \in Nat /\ StreamOf(z, Packages) \in Seq(Byte)
  BY <1>1, StreamOfIs
<1>3. g \in 0..Off(z, Packages) /\ Off(z, m) <= g
  BY DEF Have
<1>4. Len(StreamOf(z, Packages)) = Off(z, Packages)
  BY DEF Off
<1> QED
  BY <1>1, <1>2, <1>3, <1>4
-----------------------------------------------------------------------------
(* push_more: the packages that Cut finds, by induction from the last.     *)

\* The function that Cut computes on the places of b.
CutFrom(f, b, n) ==
  LET left == Len(b) - n
      end  == n + 2 + ReadSize(b[n + 1], b[n + 2])
  IN  IF left < 2 \/ end > Len(b)
      THEN [packs |-> <<>>, used |-> n]
      ELSE [packs |-> <<SubSeq(b, n + 3, end)>> \o f[end].packs, used |-> f[end].used]

LEMMA ReadIs ==
  ASSUME NEW x \in Byte, NEW y \in Byte
  PROVE  ReadSize(x, y) \in Nat
<1>1. Base \in Nat /\ x.val \in Nat /\ y.val \in Nat
  <2>1. x.val \in 0..(Base - 1) /\ y.val \in 0..(Base - 1)
    BY DEF Byte
  <2> QED
    BY <2>1, NetpackAssumption
<1>2. x.val * Base \in Nat
  BY <1>1
<1> QED
  BY <1>1, <1>2 DEF ReadSize

\* It looks only at what comes later.
LEMMA CutSame ==
  ASSUME NEW b \in Seq(Byte), NEW n \in 0..Len(b), NEW f, NEW g,
         \A k \in 0..Len(b) : n < k => f[k] = g[k]
  PROVE  CutFrom(f, b, n) = CutFrom(g, b, n)
<1> DEFINE end == n + 2 + ReadSize(b[n + 1], b[n + 2])
<1>1. CASE Len(b) - n < 2 \/ end > Len(b)
  BY <1>1 DEF CutFrom
<1>2. CASE ~ (Len(b) - n < 2 \/ end > Len(b))
  <2>1. Len(b) \in Nat /\ n \in Nat /\ ~ (Len(b) - n < 2)
    BY <1>2
  <2>2. b[n + 1] \in Byte /\ b[n + 2] \in Byte
    BY <2>1
  <2>3. ReadSize(b[n + 1], b[n + 2]) \in Nat
    BY <2>2, ReadIs
  <2>4. end \in 0..Len(b) /\ n < end
    BY <1>2, <2>1, <2>3
  <2>5. f[end] = g[end]
    BY <2>4
  <2> QED
    BY <1>2, <2>5 DEF CutFrom
<1> QED
  BY <1>1, <1>2

IsCut(f, b, m) ==
  f = [n \in 0..Len(b) |-> IF m <= n THEN CutFrom(f, b, n) ELSE 0]

\* There is such a function, from the last place down to the first.
LEMMA CutExists ==
  ASSUME NEW b \in Seq(Byte)
  PROVE  \E f : f = [n \in 0..Len(b) |-> CutFrom(f, b, n)]
<1> DEFINE N == Len(b)
           G == {m \in 0..N : \E f : IsCut(f, b, m)}
<1>1. N \in Nat
  OBVIOUS
<1>2. N \in G
  <2> DEFINE e == [n \in 0..N |-> 0]
             f == [n \in 0..N |-> IF N <= n THEN CutFrom(e, b, n) ELSE 0]
  <2>1. CutFrom(f, b, N) = CutFrom(e, b, N)
    <3>1. N \in 0..Len(b) /\ \A k \in 0..Len(b) : N < k => f[k] = e[k]
      BY <1>1
    <3> HIDE DEF N, e, f
    <3> QED
      BY <3>1, CutSame
  <2>2. ASSUME NEW n \in 0..N
        PROVE  (IF N <= n THEN CutFrom(e, b, n) ELSE 0) = IF N <= n THEN CutFrom(f, b, n) ELSE 0
    <3>1. N <= n => n = N
      BY <1>1
    <3> HIDE DEF N, e, f
    <3> QED
      BY <2>1, <3>1
  <2>3. IsCut(f, b, N)
    BY <2>2 DEF IsCut
  <2> HIDE DEF f
  <2> QED
    BY <1>1, <2>3
<1>3. ASSUME NEW m \in 1..N, m \in G PROVE m - 1 \in G
  <2>1. PICK e : IsCut(e, b, m)
    BY <1>3
  <2> DEFINE F(n) == IF m - 1 <= n THEN CutFrom(e, b, n) ELSE 0
             f == [n \in 0..N |-> F(n)]
  <2>2. ASSUME NEW n \in 0..N, m <= n PROVE f[n] = e[n]
    <3>1. e[n] = CutFrom(e, b, n)
      BY <2>1, <2>2 DEF IsCut
    <3>2. m - 1 <= n
      BY <1>1, <2>2
    <3> QED
      BY <3>1, <3>2
  <2>3. ASSUME NEW n \in 0..N, m - 1 <= n PROVE CutFrom(e, b, n) = CutFrom(f, b, n)
    <3>1. ASSUME NEW k \in 0..N, n < k PROVE e[k] = f[k]
      <4>1. m <= k
        BY <1>1, <2>3, <3>1
      <4> QED
        BY <2>2, <4>1
    <3>2. n \in 0..Len(b) /\ \A k \in 0..Len(b) : n < k => e[k] = f[k]
      BY <3>1
    <3> HIDE DEF N, f
    <3> QED
      BY <3>2, CutSame
  <2>4. ASSUME NEW n \in 0..N PROVE F(n) = IF m - 1 <= n THEN CutFrom(f, b, n) ELSE 0
    BY <2>3
  <2>5. IsCut(f, b, m - 1)
    BY <2>4 DEF IsCut
  <2>6. m - 1 \in 0..N
    BY <1>1
  <2> HIDE DEF f
  <2> QED
    BY <2>5, <2>6
<1> HIDE DEF G
<1>4. 0 \in G
  <2> HIDE DEF N
  <2>1. \A k \in 0..N : k \in G
    BY <1>1, <1>2, <1>3, Descend
  <2> QED
    BY <1>1, <2>1
<1>5. PICK f : IsCut(f, b, 0)
  BY <1>4 DEF G
<1>6. \A n \in 0..Len(b) : 0 <= n
  OBVIOUS
<1>7. f = [n \in 0..Len(b) |-> CutFrom(f, b, n)]
  BY <1>5, <1>6 DEF IsCut
<1> QED
  BY <1>7

\* Cut is the value of that function at the first place.
LEMMA CutHas ==
  ASSUME NEW b \in Seq(Byte)
  PROVE  \E f : Cut(b) = f[0] /\ \A n \in 0..Len(b) : f[n] = CutFrom(f, b, n)
<1> DEFINE cut == CHOOSE f : f = [n \in 0..Len(b) |-> CutFrom(f, b, n)]
<1>1. Cut(b) = cut[0]
  BY DEF Cut, CutFrom
<1>2. cut = [n \in 0..Len(b) |-> CutFrom(cut, b, n)]
  BY CutExists
<1> HIDE DEF cut
<1>3. \A n \in 0..Len(b) : cut[n] = CutFrom(cut, b, n)
  BY <1>2
<1> QED
  BY <1>1, <1>3

\* The loop stops where no whole package is left.
LEMMA CutStop ==
  ASSUME NEW b \in Seq(Byte), NEW f, NEW p \in Nat, NEW x, NEW e,
         x = CutFrom(f, b, p), e = p + 2 + ReadSize(b[p + 1], b[p + 2]),
         Len(b) - p < 2 \/ e > Len(b)
  PROVE  x.packs = <<>> /\ x.used = p
<1>1. x = [packs |-> <<>>, used |-> p]
  BY DEF CutFrom
<1> QED
  BY ONLY <1>1

\* From the start of package n + 1 on, the bytes are cut into the packages
\* that are whole.
LEMMA CutIs ==
  ASSUME NEW z \in Lens, NEW m, NEW g, Have(z, m, g), NEW n \in 0..m,
         NEW b, b = Part(StreamOf(z, Packages), Off(z, n), g)
  PROVE  /\ b \in Seq(Byte) /\ Len(b) = g - Off(z, n)
         /\ Cut(b).packs = Part(Whole(z), n, m)
         /\ Cut(b).used = Off(z, m) - Off(z, n)
<1> DEFINE S == StreamOf(z, Packages)
           a == Off(z, n)
           L == g - a
           W == Whole(z)
<1>1. /\ m \in Nat /\ m <= Packages /\ g \in Nat /\ Packages \in Nat
      /\ Off(z, m) \in Nat /\ Off(z, m) <= g
      /\ g <= Len(S) /\ S \in Seq(Byte)
  BY HaveBounds
<1>2. a \in Nat /\ a <= Off(z, m) /\ a <= g
  <2>1. n \in 0..Packages /\ m \in 0..Packages
    BY <1>1
  <2>2. a \in Nat /\ a <= Off(z, m)
    BY <2>1, StreamOfIs, OffMono
  <2> QED
    BY <1>1, <2>2
<1>3. W \in Seq(Seq(Byte)) /\ Len(W) = Packages /\ \A i \in 1..Packages : W[i] = BodyOf(i, z[i])
  BY WholeIs
<1>4. m < Packages => g < Off(z, m + 1)
  BY DEF Have
<1>5. g <= Off(z, Packages)
  BY <1>1 DEF Off
<1>6. \A k \in 0..m : Off(z, k) \in Nat /\ Off(z, k) <= Off(z, m)
  <2> SUFFICES ASSUME NEW k \in 0..m PROVE Off(z, k) \in Nat /\ Off(z, k) <= Off(z, m)
    OBVIOUS
  <2>1. k \in 0..Packages /\ m \in 0..Packages
    BY <1>1
  <2> QED
    BY <2>1, StreamOfIs, OffMono
<1>7. \A k \in n..m : a <= Off(z, k)
  <2> SUFFICES ASSUME NEW k \in n..m PROVE a <= Off(z, k)
    OBVIOUS
  <2>1. k \in 0..Packages /\ n \in 0..k
    BY <1>1
  <2> QED
    BY <2>1, OffMono
<1>8. \A k \in 1..Packages :
         /\ z[k] \in Nat /\ Off(z, k) \in Nat /\ Off(z, k) = Off(z, k - 1) + z[k] + 2
         /\ ReadSize(S[Off(z, k - 1) + 1], S[Off(z, k - 1) + 2]) = z[k]
         /\ Part(S, Off(z, k - 1) + 2, Off(z, k)) = BodyOf(k, z[k])
  BY OffUp, StreamAt
<1> HIDE DEF S, a, W
<1>9. b \in Seq(Byte) /\ Len(b) = L /\ L \in Nat /\ \A i \in 1..L : b[i] = S[a + i]
  <2>1. b = Part(S, a, g)
    BY DEF S, a
  <2>2. Part(S, a, g) \in Seq(Byte) /\ Len(Part(S, a, g)) = g - a
        /\ \A i \in 1..(g - a) : Part(S, a, g)[i] = S[a + i]
    BY ONLY <1>1, <1>2, PartIs
  <2> QED
    BY <1>1, <1>2, <2>1, <2>2
<1>10. PICK f : Cut(b) = f[0] /\ \A k \in 0..Len(b) : f[k] = CutFrom(f, b, k)
  BY <1>9, CutHas
<1> DEFINE Fine(k) == /\ f[Off(z, k) - a].packs = Part(W, k, m)
                      /\ f[Off(z, k) - a].used = Off(z, m) - a
           d == m - n
           G == {j \in 0..d : Fine(n + j)}
\* what the loop reads at the start of a package
<1>11. ASSUME NEW k \in n..m, NEW p, p = Off(z, k) - a, k < Packages, L - p >= 2
       PROVE  ReadSize(b[p + 1], b[p + 2]) = z[k + 1]
  <2>1. /\ p \in Nat /\ p + 1 \in 1..L /\ p + 2 \in 1..L
        /\ a + (p + 1) = Off(z, k) + 1 /\ a + (p + 2) = Off(z, k) + 2
    <3>1. k \in 0..m
      BY <1>1
    <3> DEFINE u == Off(z, k)
    <3>2. u \in Nat /\ a <= u
      BY <1>6, <1>7, <3>1
    <3>3. p = u - a /\ L - p >= 2
      BY <1>11
    <3> HIDE DEF u, L
    <3>4. /\ p \in Nat /\ p + 1 \in 1..L /\ p + 2 \in 1..L
          /\ a + (p + 1) = u + 1 /\ a + (p + 2) = u + 2
      BY ONLY <1>2, <1>9, <3>2, <3>3
    <3> QED
      BY <3>4 DEF u
  <2>2. b[p + 1] = S[Off(z, k) + 1] /\ b[p + 2] = S[Off(z, k) + 2]
    BY <1>9, <2>1
  <2>3. k + 1 \in 1..Packages /\ (k + 1) - 1 = k
    BY <1>1, <1>11
  <2>4. ReadSize(S[Off(z, k) + 1], S[Off(z, k) + 2]) = z[k + 1]
    BY <1>8, <2>3
  <2> QED
    BY <2>2, <2>4
<1>12. Fine(m)
  <2> DEFINE p == Off(z, m) - a
             e == p + 2 + ReadSize(b[p + 1], b[p + 2])
             x == CutFrom(f, b, p)
  <2>1. p \in Nat /\ p \in 0..L
    BY <1>1, <1>2
  <2>2. f[p] = x
    BY <1>9, <1>10, <2>1
  <2>3. L - p < 2 \/ e > L
    <3> SUFFICES ASSUME ~ (L - p < 2) PROVE e > L
      OBVIOUS
    <3>1. m < Packages
      <4> SUFFICES ASSUME m = Packages PROVE FALSE
        BY <1>1
      <4>1. g <= Off(z, m)
        BY <1>5
      <4> QED
        BY <1>1, <1>2, <4>1
    <3>2. m \in n..m /\ L - p >= 2
      BY <1>1, <2>1, <1>9
    <3>3. ReadSize(b[p + 1], b[p + 2]) = z[m + 1]
      BY <1>11, <3>1, <3>2
    <3>4. m + 1 \in 1..Packages /\ (m + 1) - 1 = m
      BY <1>1, <3>1
    <3>5. /\ z[m + 1] \in Nat /\ Off(z, m + 1) \in Nat
          /\ Off(z, m + 1) = Off(z, m) + z[m + 1] + 2
      BY <1>8, <3>4
    <3> DEFINE u == Off(z, m)
               v == Off(z, m + 1)
               w == z[m + 1]
    <3>6. /\ p = u - a /\ e = p + 2 + w /\ L = g - a /\ u \in Nat /\ w \in Nat
          /\ v = u + w + 2 /\ g \in Nat /\ a \in Nat
      BY <1>1, <1>2, <3>3, <3>5
    <3>7. g < v
      BY <1>4, <3>1
    <3> HIDE DEF p, e, L, u, v, w
    <3> QED
      BY ONLY <3>6, <3>7
  <2>4. x.packs = <<>> /\ x.used = p
    <3>1. Len(b) - p < 2 \/ e > Len(b)
      BY <1>9, <2>3
    <3> HIDE DEF p
    <3>2. /\ b \in Seq(Byte) /\ p \in Nat /\ x = CutFrom(f, b, p)
          /\ e = p + 2 + ReadSize(b[p + 1], b[p + 2])
      BY <1>9, <2>1
    <3> HIDE DEF x, e
    <3> QED
      BY ONLY <3>1, <3>2, CutStop
  <2>5. Part(W, m, m) = <<>>
    BY <1>1, PartNone
  <2> HIDE DEF x
  <2> QED
    BY <2>2, <2>4, <2>5
<1>13. ASSUME NEW k \in (n + 1)..m, Fine(k) PROVE Fine(k - 1)
  <2> DEFINE p == Off(z, k - 1) - a
             e == p + 2 + ReadSize(b[p + 1], b[p + 2])
             x == CutFrom(f, b, p)
             y == Off(z, k) - a
  <2>1. /\ k \in 1..Packages /\ k \in 0..m /\ k - 1 \in 0..m /\ k - 1 \in n..m
        /\ k - 1 < Packages /\ (k - 1) + 1 = k
    BY <1>1
  <2>2. /\ z[k] \in Nat /\ Off(z, k) \in Nat /\ Off(z, k) = Off(z, k - 1) + z[k] + 2
        /\ Part(S, Off(z, k - 1) + 2, Off(z, k)) = BodyOf(k, z[k])
    BY <1>8, <2>1
  <2>3. Off(z, k - 1) \in Nat /\ a <= Off(z, k - 1) /\ Off(z, k) <= Off(z, m)
    BY <1>6, <1>7, <2>1
  <2>4. p \in Nat /\ p \in 0..L /\ L - p >= 2 /\ y \in Nat /\ y <= L /\ y = p + 2 + z[k]
    <3> DEFINE u == Off(z, k - 1)
               v == Off(z, k)
               w == Off(z, m)
               l == z[k]
    <3>1. /\ u \in Nat /\ v \in Nat /\ w \in Nat /\ l \in Nat
          /\ a <= u /\ v = u + l + 2 /\ v <= w /\ w <= g
      BY <1>1, <2>2, <2>3
    <3> HIDE DEF u, v, w, l
    <3>2. /\ u - a \in Nat /\ u - a \in 0..L /\ L - (u - a) >= 2
          /\ v - a \in Nat /\ v - a <= L /\ v - a = (u - a) + 2 + l
      BY ONLY <1>1, <1>2, <3>1
    <3> QED
      BY <3>2 DEF u, v, l
  <2>5. ReadSize(b[p + 1], b[p + 2]) = z[k]
    BY <1>11, <2>1, <2>4
  <2>6. e = y
    BY <2>4, <2>5
  <2>7. f[p] = x
    BY <1>9, <1>10, <2>4
  <2>8. x.packs = <<Part(b, p + 2, e)>> \o f[e].packs /\ x.used = f[e].used
    <3>1. ~ (Len(b) - p < 2 \/ e > Len(b))
      BY <1>9, <2>4, <2>6
    <3>2. (p + 2) + 1 = p + 3
      BY <2>4
    <3>3. Part(b, p + 2, e) = SubSeq(b, p + 3, e)
      BY <3>2 DEF Part
    <3>4. x = [packs |-> <<SubSeq(b, p + 3, e)>> \o f[e].packs, used |-> f[e].used]
      BY <3>1 DEF CutFrom
    <3> DEFINE w == <<SubSeq(b, p + 3, e)>> \o f[e].packs
               u == f[e].used
    <3>5. x = [packs |-> w, used |-> u]
      BY <3>4
    <3> HIDE DEF w, u, x
    <3>6. x.packs = w /\ x.used = u
      BY ONLY <3>5
    <3> QED
      BY <3>3, <3>6 DEF w, u
  <2>9. Part(b, p + 2, y) = W[k]
    <3> DEFINE i == p + 2
    <3>1. i \in Nat /\ y \in Nat /\ i <= y /\ a + y <= g /\ a + i = Off(z, k - 1) + 2
          /\ a + y = Off(z, k)
      <4> DEFINE u == Off(z, k - 1)
                 v == Off(z, k)
                 l == z[k]
      <4>1. /\ u \in Nat /\ v \in Nat /\ l \in Nat /\ v = u + l + 2
            /\ p = u - a /\ y = v - a /\ p \in Nat /\ y \in Nat /\ y <= L
        BY <2>2, <2>3, <2>4
      <4> HIDE DEF u, v, l, p, y
      <4>2. p + 2 \in Nat /\ p + 2 <= y /\ a + y <= g /\ a + (p + 2) = u + 2 /\ a + y = v
        BY ONLY <1>1, <1>2, <4>1
      <4> QED
        BY <4>1, <4>2 DEF u, v
    <3>2. b = Part(S, a, g)
      BY DEF S, a
    <3> HIDE DEF i, y
    <3>3. Part(Part(S, a, g), i, y) = Part(S, a + i, a + y)
      BY ONLY <1>1, <1>2, <3>1, PartPart
    <3>4. W[k] = BodyOf(k, z[k])
      BY <1>3, <2>1
    <3>5. Part(b, i, y) = W[k]
      BY <2>2, <3>1, <3>2, <3>3, <3>4
    <3> QED
      BY <3>5 DEF i
  <2>10. <<W[k]>> \o Part(W, k, m) = Part(W, k - 1, m)
    <3>1. k \in 1..Len(W) /\ m \in k..Len(W)
      BY <1>1, <1>3, <2>1
    <3> QED
      BY ONLY <1>3, <3>1, PartFirst
  <2>11. f[y].packs = Part(W, k, m) /\ f[y].used = Off(z, m) - a
    BY <1>13
  <2> HIDE DEF x, e, y
  <2>12. f[p].packs = Part(W, k - 1, m) /\ f[p].used = Off(z, m) - a
    BY <2>6, <2>7, <2>8, <2>9, <2>10, <2>11
  <2> QED
    BY <2>12
<1>14. d \in Nat /\ n + d = m /\ 0 \in 0..d /\ n + 0 = n
  BY <1>1
<1>15. d \in G
  BY <1>12, <1>14
<1>16. ASSUME NEW j \in 1..d, j \in G PROVE j - 1 \in G
  <2>1. n + j \in (n + 1)..m /\ (n + j) - 1 = n + (j - 1) /\ j - 1 \in 0..d
    BY <1>1
  <2>2. Fine(n + j)
    BY <1>16
  <2> HIDE DEF Fine, d
  <2>3. Fine((n + j) - 1)
    BY <1>13, <2>1, <2>2
  <2> QED
    BY <2>1, <2>3
<1> HIDE DEF d, G
<1>17. \A j \in 0..d : j \in G
  BY <1>14, <1>15, <1>16, Descend
<1>18. Fine(n)
  <2>1. 0 \in G
    BY <1>14, <1>17
  <2>2. Fine(n + 0)
    BY <2>1 DEF G
  <2> QED
    BY <1>14, <2>2
<1>19. Off(z, n) - a = 0
  BY <1>2 DEF a
<1>20. Cut(b).packs = Part(W, n, m) /\ Cut(b).used = Off(z, m) - a
  BY <1>10, <1>18, <1>19
<1> QED
  BY <1>9, <1>20 DEF W, a

\* The bytes after the packages that were cut.
RestOf(b) == SubSeq(b, Cut(b).used + 1, Len(b))

LEMMA RestIs ==
  ASSUME NEW z \in Lens, NEW m, NEW g, Have(z, m, g), NEW n \in 0..m,
         NEW b, b = Part(StreamOf(z, Packages), Off(z, n), g)
  PROVE  /\ Cut(b).packs = Part(Whole(z), n, m)
         /\ RestOf(b) = Part(StreamOf(z, Packages), Off(z, m), g)
         /\ RestOf(b) = <<>> <=> g = Off(z, m)
<1> DEFINE S == StreamOf(z, Packages)
           a == Off(z, n)
           o == Off(z, m)
<1>1. /\ m \in Nat /\ m <= Packages /\ g \in Nat /\ Packages \in Nat
      /\ o \in Nat /\ o <= g /\ g <= Len(S) /\ S \in Seq(Byte)
  BY HaveBounds
<1>2. a \in Nat /\ a <= o
  <2>1. n \in 0..Packages /\ m \in 0..Packages
    BY <1>1
  <2> QED
    BY <2>1, StreamOfIs, OffMono
<1>3. /\ Len(b) = g - a /\ Cut(b).packs = Part(Whole(z), n, m) /\ Cut(b).used = o - a
  BY CutIs
<1> DEFINE i == o - a
           j == g - a
<1>4. /\ i \in Nat /\ j \in Nat /\ i <= j /\ a <= g /\ a + j <= g
      /\ a + i = o /\ a + j = g
  BY <1>1, <1>2
<1>5. b = Part(S, a, g)
  OBVIOUS
<1>6. RestOf(b) = Part(b, i, j)
  BY <1>3 DEF RestOf, Part
<1> HIDE DEF i, j, S, a, o
<1>7. Part(Part(S, a, g), i, j) = Part(S, a + i, a + j)
  BY ONLY <1>1, <1>2, <1>4, PartPart
<1>8. RestOf(b) = Part(S, o, g)
  BY <1>4, <1>5, <1>6, <1>7
<1>9. Len(Part(S, o, g)) = g - o /\ Part(S, o, g) \in Seq(Byte)
  BY ONLY <1>1, PartIs
<1>10. Part(S, o, g) = <<>> <=> g = o
  <2>1. g = o => Part(S, o, g) = <<>>
    BY <1>1, PartNone
  <2>2. Part(S, o, g) = <<>> => g = o
    <3> SUFFICES ASSUME Part(S, o, g) = <<>> PROVE g = o
      OBVIOUS
    <3>1. Len(Part(S, o, g)) = 0
      OBVIOUS
    <3> QED
      BY <1>1, <1>9, <3>1
  <2> QED
    BY <2>1, <2>2
<1> QED
  BY <1>3, <1>8, <1>10 DEF S, o
-----------------------------------------------------------------------------
(* The remainder, and the bytes that complete it.                          *)

\* What Kept makes of the bytes of a package of which o bytes of the stream
\* come before and g are there: one byte of the length, or all of it.
LEMMA KeptIs ==
  ASSUME NEW S \in Seq(Byte), NEW o \in Nat, NEW g \in Nat, o < g, g <= Len(S),
         NEW c, NEW x, x = Kept(c, Part(S, o, g))
  PROVE  /\ g = o + 1 => x = Uncomplete(c, -1, 0, Part(S, o, g))
         /\ o + 2 <= g =>
              x = Uncomplete(c, g - (o + 2), ReadSize(S[o + 1], S[o + 2]), Part(S, o + 2, g))
<1> DEFINE p == Part(S, o, g)
           e == g - o
<1>1. p \in Seq(Byte) /\ Len(p) = g - o /\ \A i \in 1..(g - o) : p[i] = S[o + i]
  <2>1. o <= g
    OBVIOUS
  <2> QED
    BY ONLY <2>1, S \in Seq(Byte), o \in Nat, g \in Nat, g <= Len(S), PartIs
<1>2. ASSUME g = o + 1 PROVE x = Uncomplete(c, -1, 0, p)
  <2>1. Len(p) = 1
    BY <1>1, <1>2
  <2> HIDE DEF p
  <2>2. Kept(c, p) = Uncomplete(c, -1, 0, p)
    BY <2>1 DEF Kept
  <2> QED
    BY <2>2 DEF p
<1>3. ASSUME o + 2 <= g
      PROVE  x = Uncomplete(c, g - (o + 2), ReadSize(S[o + 1], S[o + 2]), Part(S, o + 2, g))
  <2>1. Len(p) # 1 /\ Len(p) - 2 = g - (o + 2) /\ 1 \in 1..(g - o) /\ 2 \in 1..(g - o)
    BY <1>1, <1>3
  <2>2. p[1] = S[o + 1] /\ p[2] = S[o + 2]
    BY <1>1, <2>1
  <2>3. e \in Nat /\ 2 \in Nat /\ 2 <= e /\ o + e = g /\ o + e <= g /\ o <= g
    BY <1>3
  <2> HIDE DEF e
  <2>4. Part(Part(S, o, g), 2, e) = Part(S, o + 2, o + e)
    BY ONLY <2>3, S \in Seq(Byte), o \in Nat, g \in Nat, g <= Len(S), PartPart
  <2>5. SubSeq(p, 3, Len(p)) = Part(p, 2, e)
    <3>1. 2 + 1 = 3 /\ e = Len(p)
      BY <1>1 DEF e
    <3> QED
      BY ONLY <3>1 DEF Part
  <2>6. SubSeq(p, 3, Len(p)) = Part(S, o + 2, g)
    BY <2>3, <2>4, <2>5
  <2> HIDE DEF p
  <2>7. Kept(c, p) = Uncomplete(c, Len(p) - 2, ReadSize(p[1], p[2]), SubSeq(p, 3, Len(p)))
    BY <2>1 DEF Kept
  <2>8. x = Kept(c, p)
    BY DEF p
  <2> QED
    BY <2>1, <2>2, <2>6, <2>7, <2>8
<1> QED
  BY <1>2, <1>3

\* What is kept of a client, as a sequence of one entry at most.
Keep(c, z, m, g) ==
  IF g = Off(z, m) THEN <<>> ELSE <<Kept(c, Part(StreamOf(z, Packages), Off(z, m), g))>>

LEMMA JoinedIs ==
  ASSUME NEW z \in Lens, NEW m, NEW g, Have(z, m, g), NEW h \in Nat,
         g < h, h <= Off(z, Packages), g # Off(z, m),
         NEW c, NEW u, u = Kept(c, Part(StreamOf(z, Packages), Off(z, m), g)),
         NEW b, b = Part(StreamOf(z, Packages), g, h)
  PROVE  /\ m < Packages
         /\ Joined(u, b) = [size |-> z[m + 1],
                            data |-> Part(StreamOf(z, Packages), Off(z, m) + 2, h)]
<1> DEFINE S == StreamOf(z, Packages)
           o == Off(z, m)
           x == o + 2
<1>1. /\ Packages \in Nat /\ m \in Nat /\ m <= Packages /\ g \in Nat
      /\ o \in Nat /\ o <= g /\ S \in Seq(Byte) /\ g <= Len(S)
  BY HaveBounds
<1>2. h <= Len(S)
  BY DEF Off
<1>3. m < Packages
  <2> SUFFICES ASSUME m = Packages PROVE FALSE
    BY <1>1
  <2>1. g <= Off(z, Packages)
    BY <1>1 DEF Off
  <2> QED
    BY <1>1, <2>1
<1>4. ReadSize(S[o + 1], S[o + 2]) = z[m + 1]
  <2>1. m + 1 \in 1..Packages /\ (m + 1) - 1 = m
    BY <1>1, <1>3
  <2> QED
    BY <2>1, StreamAt
<1>5. o < g
  BY <1>1
<1>6. u = Kept(c, Part(S, o, g)) /\ b = Part(S, g, h)
  OBVIOUS
<1> HIDE DEF S, o
<1>7. b \in Seq(Byte) /\ Len(b) = h - g /\ \A i \in 1..(h - g) : b[i] = S[g + i]
  <2>1. g <= h
    BY <1>1
  <2>2. /\ Part(S, g, h) \in Seq(Byte) /\ Len(Part(S, g, h)) = h - g
        /\ \A i \in 1..(h - g) : Part(S, g, h)[i] = S[g + i]
    BY ONLY <1>1, <1>2, <2>1, h \in Nat, PartIs
  <2> QED
    BY <1>6, <2>2
<1>8. CASE g = o + 1
  <2>1. u = Uncomplete(c, -1, 0, Part(S, o, g))
    BY ONLY <1>1, <1>5, <1>6, <1>8, KeptIs
  <2>2. Part(S, o, g)[1] = S[o + 1]
    <3>1. \A i \in 1..(g - o) : Part(S, o, g)[i] = S[o + i]
      BY ONLY <1>1, PartIs
    <3>2. 1 \in 1..(g - o)
      BY <1>1, <1>8
    <3> QED
      BY <3>1, <3>2
  <2>3. b[1] = S[o + 2]
    <3>1. 1 \in 1..(h - g) /\ g + 1 = o + 2
      BY <1>1, <1>8
    <3> QED
      BY <1>7, <3>1
  <2> DEFINE y == h - g
  <2>4. y \in Nat /\ 1 \in Nat /\ 1 <= y /\ g + y = h /\ g + y <= h /\ g <= h
    BY <1>1
  <2>5. Tail(b) = SubSeq(b, 2, Len(b))
    <3>1. b # <<>>
      BY <1>1, <1>7
    <3> QED
      BY ONLY <1>7, <3>1, TailIsSubSeq
  <2>6. SubSeq(b, 2, Len(b)) = Part(b, 1, y)
    BY <1>7 DEF Part
  <2> HIDE DEF y
  <2>7. Part(Part(S, g, h), 1, y) = Part(S, g + 1, g + y)
    BY ONLY <1>1, <1>2, <2>4, h \in Nat, PartPart
  <2>8. g + 1 = x
    BY <1>1, <1>8
  <2>9. Tail(b) = Part(S, x, h)
    BY <1>6, <2>4, <2>5, <2>6, <2>7, <2>8
  <2> DEFINE p == Part(S, o, g)
  <2> HIDE DEF p
  <2>10. u.read = -1 /\ u.data = p
    BY <2>1 DEF Uncomplete, p
  <2>11. Joined(u, b) = [size |-> ReadSize(p[1], b[1]), data |-> Tail(b)]
    BY <2>10 DEF Joined
  <2> QED
    BY <1>3, <1>4, <2>2, <2>3, <2>9, <2>11 DEF p, S, o
<1>9. CASE g # o + 1
  <2>1. x \in Nat /\ x <= g /\ o + 2 <= g /\ g <= h /\ g - x \in Nat
    <3>1. x \in Nat /\ x <= g /\ o + 2 <= g /\ g - x \in Nat
      BY ONLY <1>1, <1>5, <1>9
    <3>2. g <= h
      BY <1>1
    <3> QED
      BY <3>1, <3>2
  <2>2. u = Uncomplete(c, g - x, ReadSize(S[o + 1], S[o + 2]), Part(S, x, g))
    BY ONLY <1>1, <1>5, <1>6, <2>1, KeptIs
  <2> HIDE DEF x
  <2>3. Part(S, x, g) \o Part(S, g, h) = Part(S, x, h)
    BY ONLY <1>1, <1>2, <2>1, h \in Nat, PartJoin
  <2> DEFINE p == Part(S, x, g)
             s == ReadSize(S[o + 1], S[o + 2])
             r == g - x
  <2> HIDE DEF p, s, r
  <2>4. r # -1
    BY <2>1 DEF r
  <2>5. u = Uncomplete(c, r, s, p)
    BY <2>2 DEF p, s, r
  <2>6. u.read = r /\ u.size = s /\ u.data = p
    BY <2>5 DEF Uncomplete
  <2>7. Joined(u, b) = [size |-> s, data |-> p \o b]
    BY <2>4, <2>6 DEF Joined
  <2> QED
    BY <1>3, <1>4, <1>6, <2>3, <2>7 DEF p, s, x, S, o
<1> QED
  BY <1>8, <1>9

\* The bytes from g to h complete the packages m + 1 to k, and nothing of the
\* bytes is lost: what is left is kept.
LEMMA CompletedIs ==
  ASSUME NEW z \in Lens, NEW m, NEW g, Have(z, m, g), NEW k, NEW h, Have(z, k, h),
         g < h, NEW c, NEW q, FindUncomplete(q, c) = Keep(c, z, m, g),
         NEW b, b = Part(StreamOf(z, Packages), g, h)
  PROVE  /\ m <= k
         /\ Completed(q, c, b).packs = Part(Whole(z), m, k)
         /\ Completed(q, c, b).keep = Keep(c, z, k, h)
<1> DEFINE S == StreamOf(z, Packages)
           o == Off(z, m)
           l == z[m + 1]
           u == FindUncomplete(q, c)
<1>1. /\ Packages \in Nat /\ m \in Nat /\ m <= Packages /\ g \in Nat
      /\ o \in Nat /\ o <= g /\ S \in Seq(Byte) /\ g <= Len(S)
  BY HaveBounds
<1>2. /\ k \in Nat /\ k <= Packages /\ h \in Nat /\ Off(z, k) \in Nat /\ Off(z, k) <= h
      /\ h <= Len(S) /\ h <= Off(z, Packages)
  BY HaveBounds DEF Off
<1>3. m <= k
  <2>1. g <= h
    BY <1>1, <1>2
  <2> QED
    BY <2>1, HaveOrder
<1>4. /\ Whole(z) \in Seq(Seq(Byte)) /\ Len(Whole(z)) = Packages
      /\ \A i \in 1..Packages : Whole(z)[i] = BodyOf(i, z[i])
  BY WholeIs
<1>5. CASE g = o
  <2>1. u = <<>>
    BY <1>5 DEF Keep
  <2> DEFINE rest == RestOf(b)
  <2>2. Completed(q, c, b) = [packs |-> <<>> \o Cut(b).packs,
                              keep |-> IF rest = <<>> THEN <<>> ELSE <<Kept(c, rest)>>]
    BY <2>1 DEF Completed, RestOf
  <2>3. m \in 0..k /\ b = Part(StreamOf(z, Packages), Off(z, m), h)
    BY <1>1, <1>2, <1>3, <1>5
  <2>4. /\ Cut(b).packs = Part(Whole(z), m, k)
        /\ (IF rest = <<>> THEN <<>> ELSE <<Kept(c, rest)>>) = Keep(c, z, k, h)
    <3>2. /\ Cut(b).packs = Part(Whole(z), m, k)
          /\ rest = Part(StreamOf(z, Packages), Off(z, k), h)
          /\ rest = <<>> <=> h = Off(z, k)
      BY <2>3, RestIs
    <3> QED
      BY <3>2 DEF Keep
  <2>5. Part(Whole(z), m, k) \in Seq(Seq(Byte))
    <3>1. k <= Len(Whole(z))
      BY <1>2, <1>4
    <3> QED
      BY ONLY <1>1, <1>2, <1>3, <1>4, <3>1, PartIs
  <2>6. <<>> \o Cut(b).packs = Part(Whole(z), m, k)
    BY <2>4, <2>5, ConcatEmptySeq
  <2> HIDE DEF rest
  <2> QED
    BY <1>3, <2>2, <2>4, <2>6
<1>6. CASE g # o
  <2> DEFINE d == Part(S, o + 2, h)
             j == Joined(u[1], b)
             w == Kept(c, Part(S, o, g))
  <2>1. u # <<>> /\ u[1] = w
    <3>1. u = <<w>>
      BY <1>6 DEF Keep
    <3> QED
      BY <3>1
  <2>2. m < Packages /\ j = [size |-> l, data |-> d]
    <3>1. /\ m < Packages
          /\ Joined(w, b) = [size |-> z[m + 1],
                             data |-> Part(StreamOf(z, Packages), Off(z, m) + 2, h)]
      BY <1>2, <1>6, JoinedIs
    <3> QED
      BY <2>1, <3>1
  <2>3. /\ l \in Nat /\ Off(z, m + 1) \in Nat /\ Off(z, m + 1) = o + l + 2
        /\ Part(S, o + 2, Off(z, m + 1)) = BodyOf(m + 1, l)
        /\ ReadSize(S[o + 1], S[o + 2]) = l
    <3>1. m + 1 \in 1..Packages /\ (m + 1) - 1 = m
      BY <1>1, <2>2
    <3> QED
      BY <3>1, OffUp, StreamAt
  <2>4. j.size = l /\ j.data = d
    BY <2>2
  <2> HIDE DEF j, l, o, S, u, w
  <2>5. d \in Seq(Byte) /\ Len(d) = h - (o + 2) /\ o + 2 <= h
    <3> DEFINE x == o + 2
    <3>1. x \in Nat /\ x <= h
      BY <1>1, <1>2, <1>6
    <3> HIDE DEF x
    <3>2. Part(S, x, h) \in Seq(Byte) /\ Len(Part(S, x, h)) = h - x
      BY ONLY <1>1, <1>2, <3>1, PartIs
    <3> QED
      BY <3>1, <3>2 DEF x
  <2> HIDE DEF d
  <2>6. CASE Len(d) < l
    <3> DEFINE v == Uncomplete(c, Len(d), l, d)
    <3>1. Completed(q, c, b) = [packs |-> <<>>, keep |-> <<v>>]
      BY <2>1, <2>4, <2>6 DEF Completed, u, j
    <3>2. k = m
      <4>1. h < Off(z, m + 1)
        BY <1>1, <1>2, <2>3, <2>5, <2>6
      <4>2. ~ (m + 1 <= k)
        <5> SUFFICES ASSUME m + 1 <= k PROVE FALSE
          OBVIOUS
        <5>1. Off(z, m + 1) <= Off(z, k)
          <6>1. k \in 0..Packages /\ m + 1 \in 0..k
            BY <1>1, <1>2
          <6> QED
            BY <6>1, OffMono
        <5> QED
          BY <1>2, <2>3, <4>1, <5>1
      <4> QED
        BY <1>1, <1>2, <1>3, <4>2
    <3>3. Part(Whole(z), m, k) = <<>>
      BY <1>1, <3>2, PartNone
    <3> DEFINE y == Kept(c, Part(S, o, h))
    <3>4. y = Uncomplete(c, h - (o + 2), ReadSize(S[o + 1], S[o + 2]), Part(S, o + 2, h))
      <4>1. o < h /\ o + 2 <= h
        BY <1>1, <1>2, <2>5
      <4>2. y = Kept(c, Part(S, o, h))
        OBVIOUS
      <4> HIDE DEF y
      <4> QED
        BY ONLY <1>1, <1>2, <4>1, <4>2, KeptIs
    <3>5. y = v
      BY <2>3, <2>5, <3>4 DEF d
    <3>6. h # o
      BY <1>1, <1>2, <2>5
    <3>7. Keep(c, z, m, h) = <<y>>
      BY <3>6 DEF Keep, S, o
    <3> HIDE DEF v, y
    <3> QED
      BY <1>3, <3>1, <3>2, <3>3, <3>5, <3>7
  <2>7. CASE ~ (Len(d) < l)
    <3> DEFINE more == SubSeq(d, l + 1, Len(d))
               rest == RestOf(more)
    <3>1. Completed(q, c, b) = [packs |-> <<SubSeq(d, 1, l)>> \o Cut(more).packs,
                                keep |-> IF rest = <<>> THEN <<>> ELSE <<Kept(c, rest)>>]
      BY <2>1, <2>4, <2>7 DEF Completed, RestOf, u, j
    <3>2. Off(z, m + 1) <= h
      BY <1>1, <1>2, <2>3, <2>5, <2>7
    <3>3. m + 1 <= k
      <4> SUFFICES ASSUME ~ (m + 1 <= k) PROVE FALSE
        OBVIOUS
      <4>1. k = m
        BY <1>1, <1>2, <1>3
      <4>2. h < Off(z, m + 1)
        BY <2>2, <4>1 DEF Have
      <4> QED
        BY <1>2, <2>3, <3>2, <4>2
    <3> DEFINE x == o + 2
               y == h - x
    <3>4. /\ x \in Nat /\ x <= h /\ y \in Nat /\ l <= y /\ x + y = h /\ x + y <= h
          /\ x + l = Off(z, m + 1) /\ x + l <= h /\ Len(d) = y /\ 0 <= l /\ x + 0 = x
          /\ 0 \in Nat
      BY <1>1, <1>2, <2>3, <2>5, <2>7, <3>2
    <3>5. d = Part(S, x, h)
      BY DEF d
    <3> HIDE DEF x, y
    <3>6. SubSeq(d, 1, l) = BodyOf(m + 1, l)
      <4>1. Part(Part(S, x, h), 0, l) = Part(S, x + 0, x + l)
        BY ONLY <1>1, <1>2, <2>3, <3>4, PartPart
      <4>2. Part(S, x, Off(z, m + 1)) = BodyOf(m + 1, l)
        BY <2>3 DEF x
      <4>3. SubSeq(d, 1, l) = Part(d, 0, l)
        BY DEF Part
      <4> QED
        BY <3>4, <3>5, <4>1, <4>2, <4>3
    <3>7. more = Part(StreamOf(z, Packages), Off(z, m + 1), h)
      <4>1. Part(Part(S, x, h), l, y) = Part(S, x + l, x + y)
        BY ONLY <1>1, <1>2, <2>3, <3>4, PartPart
      <4>2. more = Part(d, l, y)
        BY <3>4 DEF Part
      <4> QED
        BY <3>4, <3>5, <4>1, <4>2 DEF S
    <3>8. m + 1 \in 0..k
      BY <1>1, <1>2, <3>3
    <3> HIDE DEF more
    <3>9. /\ Cut(more).packs = Part(Whole(z), m + 1, k)
          /\ (IF rest = <<>> THEN <<>> ELSE <<Kept(c, rest)>>) = Keep(c, z, k, h)
      <4>1. /\ Cut(more).packs = Part(Whole(z), m + 1, k)
            /\ rest = Part(StreamOf(z, Packages), Off(z, k), h)
            /\ rest = <<>> <=> h = Off(z, k)
        BY <3>7, <3>8, RestIs
      <4> QED
        BY <4>1 DEF Keep
    <3>10. Whole(z)[m + 1] = BodyOf(m + 1, l)
      <4>1. m + 1 \in 1..Packages
        BY <1>1, <2>2
      <4> QED
        BY <1>4, <4>1 DEF l
    <3>11. <<Whole(z)[m + 1]>> \o Part(Whole(z), m + 1, k) = Part(Whole(z), m, k)
      <4>1. /\ m + 1 \in 1..Len(Whole(z)) /\ k \in (m + 1)..Len(Whole(z))
            /\ (m + 1) - 1 = m
        BY <1>1, <1>2, <1>4, <2>2, <3>3
      <4> QED
        BY <1>4, <4>1, PartFirst
    <3> HIDE DEF rest
    <3>12. <<SubSeq(d, 1, l)>> \o Cut(more).packs = Part(Whole(z), m, k)
      BY <3>6, <3>9, <3>10, <3>11
    <3> DEFINE keep == IF rest = <<>> THEN <<>> ELSE <<Kept(c, rest)>>
    <3>13. keep = Keep(c, z, k, h)
      BY <3>9
    <3>14. Completed(q, c, b) = [packs |-> Part(Whole(z), m, k), keep |-> keep]
      BY <3>1, <3>12
    <3> HIDE DEF keep
    <3> QED
      BY <1>3, <3>13, <3>14
  <2> QED
    BY <2>6, <2>7
<1> QED
  BY <1>5, <1>6
-----------------------------------------------------------------------------
(* The ring.                                                               *)

LEMMA Wrap ==
  ASSUME NEW n \in Nat \ {0}, NEW a \in Int
  PROVE  /\ a \in 0..(n - 1) => a % n = a
         /\ n <= a /\ a < 2 * n => a % n = a - n
         /\ 0 - n <= a /\ a < 0 => a % n = a + n
<1> DEFINE r == a % n
           d == a \div n
<1>1. r \in 0..(n - 1) /\ d \in Int /\ a = d * n + r
  OBVIOUS
<1> HIDE DEF r, d
<1>2. a \in 0..(n - 1) => r = a
  <2> SUFFICES ASSUME a \in 0..(n - 1) PROVE r = a
    OBVIOUS
  <2>1. d < 1
    <3>1. d >= 1 => d * n >= n
      BY <1>1
    <3> QED
      BY <1>1, <3>1
  <2>2. d > -1
    <3>1. d <= -1 => d * n <= -n
      BY <1>1
    <3> QED
      BY <1>1, <3>1
  <2>3. d = 0
    BY <1>1, <2>1, <2>2
  <2> QED
    BY <1>1, <2>3
<1>3. n <= a /\ a < 2 * n => r = a - n
  <2> SUFFICES ASSUME n <= a, a < 2 * n PROVE r = a - n
    OBVIOUS
  <2>1. d < 2
    <3>1. d >= 2 => d * n >= 2 * n
      BY <1>1
    <3> QED
      BY <1>1, <3>1
  <2>2. d > 0
    <3>1. d <= 0 => d * n <= 0
      BY <1>1
    <3> QED
      BY <1>1, <3>1
  <2>3. d = 1
    BY <1>1, <2>1, <2>2
  <2> QED
    BY <1>1, <2>3
<1>4. 0 - n <= a /\ a < 0 => r = a + n
  <2> SUFFICES ASSUME 0 - n <= a, a < 0 PROVE r = a + n
    OBVIOUS
  <2>1. d < 0
    <3>1. d >= 0 => d * n >= 0
      BY <1>1
    <3> QED
      BY <1>1, <3>1
  <2>2. d > -2
    <3>1. d <= -2 => d * n <= -2 * n
      BY <1>1
    <3> QED
      BY <1>1, <3>1
  <2>3. d = -1
    BY <1>1, <2>1, <2>2
  <2> QED
    BY <1>1, <2>3
<1> QED
  BY <1>2, <1>3, <1>4 DEF r

\* The place of the j-th package of a ring, from the place h of the first.
InRing(n, h, t, j) ==
  /\ (h + j) % n \in 0..(n - 1)
  /\ (t - h) % n \in 0..(n - 1)
  /\ (h + j) % n = t <=> j = (t - h) % n

LEMMA RingPlace ==
  ASSUME NEW n \in Nat \ {0}, NEW h \in 0..(n - 1), NEW t \in 0..(n - 1), NEW j \in 0..(n - 1)
  PROVE  InRing(n, h, t, j)
<1>1. \/ h + j < n /\ (h + j) % n = h + j
      \/ n <= h + j /\ (h + j) % n = h + j - n
  <2> DEFINE a == h + j
  <2>2. a \in Int /\ 0 <= a /\ a < 2 * n /\ (a < n => a \in 0..(n - 1))
    OBVIOUS
  <2> HIDE DEF a
  <2>3. /\ a \in 0..(n - 1) => a % n = a
        /\ n <= a /\ a < 2 * n => a % n = a - n
    BY ONLY <2>2, n \in Nat \ {0}, Wrap
  <2>4. \/ a < n /\ a % n = a
        \/ n <= a /\ a % n = a - n
    BY ONLY <2>2, <2>3, n \in Nat
  <2> QED
    BY <2>4 DEF a
<1>2. \/ 0 <= t - h /\ (t - h) % n = t - h
      \/ t - h < 0 /\ (t - h) % n = t - h + n
  <2> DEFINE a == t - h
  <2>2. a \in Int /\ 0 - n <= a /\ (0 <= a => a \in 0..(n - 1)) /\ (0 <= a \/ a < 0)
    OBVIOUS
  <2> HIDE DEF a
  <2>3. /\ a \in 0..(n - 1) => a % n = a
        /\ 0 - n <= a /\ a < 0 => a % n = a + n
    BY ONLY <2>2, n \in Nat \ {0}, Wrap
  <2>4. \/ 0 <= a /\ a % n = a
        \/ a < 0 /\ a % n = a + n
    BY ONLY <2>2, <2>3
  <2> QED
    BY <2>4 DEF a
<1> DEFINE x == (h + j) % n
           y == (t - h) % n
<1>3. \/ h + j < n /\ x = h + j
      \/ n <= h + j /\ x = h + j - n
  BY <1>1
<1>4. \/ 0 <= t - h /\ y = t - h
      \/ t - h < 0 /\ y = t - h + n
  BY <1>2
<1> HIDE DEF x, y
<1>5. x \in 0..(n - 1) /\ y \in 0..(n - 1) /\ (x = t <=> j = y)
  BY <1>3, <1>4
<1> QED
  BY <1>5 DEF x, y, InRing

\* Moving the tail on by one fills one place more, or the last one.
LEMMA RingNext ==
  ASSUME NEW n \in Nat \ {0}, NEW h \in 0..(n - 1), NEW t \in 0..(n - 1),
         NEW u, u = (t + 1) % n
  PROVE  /\ u \in 0..(n - 1)
         /\ h = u => (t - h) % n = n - 1
         /\ h # u => (u - h) % n = ((t - h) % n) + 1
<1> DEFINE y == (t - h) % n
           w == (u - h) % n
<1>1. u = IF t + 1 = n THEN 0 ELSE t + 1
  <2> DEFINE a == t + 1
  <2>1. a \in Int /\ (a # n => a \in 0..(n - 1)) /\ (a = n => n <= a /\ a < 2 * n)
    OBVIOUS
  <2>2. u = a % n
    OBVIOUS
  <2> HIDE DEF a
  <2>3. /\ a \in 0..(n - 1) => a % n = a
        /\ n <= a /\ a < 2 * n => a % n = a - n
    BY ONLY <2>1, n \in Nat \ {0}, Wrap
  <2>4. u = IF a = n THEN 0 ELSE a
    BY ONLY <2>1, <2>2, <2>3, n \in Nat
  <2> QED
    BY <2>4 DEF a
<1>2. u \in 0..(n - 1)
  BY ONLY <1>1, n \in Nat \ {0}, t \in 0..(n - 1)
<1>3. y = IF h <= t THEN t - h ELSE t - h + n
  <2> DEFINE a == t - h
  <2>1. a \in Int /\ 0 - n <= a /\ (h <= t => a \in 0..(n - 1)) /\ (~ (h <= t) => a < 0)
    OBVIOUS
  <2> HIDE DEF a
  <2>2. /\ a \in 0..(n - 1) => a % n = a
        /\ 0 - n <= a /\ a < 0 => a % n = a + n
    BY ONLY <2>1, n \in Nat \ {0}, Wrap
  <2>3. a % n = IF h <= t THEN a ELSE a + n
    BY ONLY <2>1, <2>2
  <2> QED
    BY <2>3 DEF a
<1>4. w = IF h <= u THEN u - h ELSE u - h + n
  <2> DEFINE a == u - h
  <2>1. a \in Int /\ 0 - n <= a /\ (h <= u => a \in 0..(n - 1)) /\ (~ (h <= u) => a < 0)
    BY ONLY <1>2, n \in Nat \ {0}, h \in 0..(n - 1)
  <2> HIDE DEF a
  <2>2. /\ a \in 0..(n - 1) => a % n = a
        /\ 0 - n <= a /\ a < 0 => a % n = a + n
    BY ONLY <2>1, n \in Nat \ {0}, Wrap
  <2>3. a % n = IF h <= u THEN a ELSE a + n
    BY ONLY <2>1, <2>2
  <2> QED
    BY <2>3 DEF a
<1> HIDE DEF y, w
<1>5. (h = u => y = n - 1) /\ (h # u => w = y + 1)
  BY ONLY <1>1, <1>3, <1>4, n \in Nat \ {0}, h \in 0..(n - 1), t \in 0..(n - 1)
<1> QED
  BY <1>2, <1>5 DEF y, w

\* What lpop takes from a ring, one place after the other.
LEMMA PoppedIs ==
  ASSUME NEW q, QueueOK(q)
  PROVE  /\ (q.tail - q.head) % q.cap \in 0..(q.cap - 1)
         /\ Popped(q) \in Seq(Slot)
         /\ Len(Popped(q)) = (q.tail - q.head) % q.cap
         /\ \A j \in 0..(q.cap - 1) : j < (q.tail - q.head) % q.cap =>
              Popped(q)[j + 1] = q.ring[(q.head + j) % q.cap]
<1> DEFINE n == q.cap
           h == q.head
           t == q.tail
           f == q.ring
           y == (t - h) % n
<1>1. n \in Nat \ {0} /\ h \in 0..(n - 1) /\ t \in 0..(n - 1) /\ f \in [0..(n - 1) -> Slot]
  BY DEF QueueOK
<1>2. Popped(q) = [k \in 1..y |-> f[(h + k - 1) % n]]
  BY DEF Popped
<1> HIDE DEF n, h, t, f
<1>3. y \in 0..(n - 1)
  <2>1. 0 \in 0..(n - 1)
    BY <1>1
  <2> QED
    <3>1. InRing(n, h, t, 0)
      BY ONLY <1>1, <2>1, RingPlace
    <3> QED
      BY ONLY <3>1 DEF InRing
<1> HIDE DEF y
<1>4. ASSUME NEW k \in 1..y
      PROVE  (h + k - 1) % n \in 0..(n - 1) /\ (h + k - 1) % n = (h + (k - 1)) % n
  <2>1. k - 1 \in 0..(n - 1) /\ h + k - 1 = h + (k - 1)
    BY <1>1, <1>3
  <2> DEFINE j == k - 1
  <2> HIDE DEF j
  <2>2. j \in 0..(n - 1) => (h + j) % n \in 0..(n - 1)
    <3>1. j \in 0..(n - 1) => InRing(n, h, t, j)
      BY ONLY <1>1, RingPlace
    <3> QED
      BY ONLY <3>1 DEF InRing
  <2> QED
    BY <2>1, <2>2 DEF j
<1>5. \A k \in 1..y : f[(h + k - 1) % n] \in Slot
  BY <1>1, <1>4
<1>6. Popped(q) \in Seq(Slot) /\ Len(Popped(q)) = y
  BY <1>2, <1>3, <1>5
<1>7. ASSUME NEW j \in 0..(n - 1), j < y PROVE Popped(q)[j + 1] = f[(h + j) % n]
  <2>1. j + 1 \in 1..y /\ h + (j + 1) - 1 = h + j
    BY <1>1, <1>3, <1>7
  <2> QED
    BY <1>2, <2>1
<1>8. y \in 0..(q.cap - 1) /\ Len(Popped(q)) = y
  BY <1>3, <1>6 DEF n
<1> QED
  BY <1>6, <1>7, <1>8 DEF n, h, t, f, y

LEMMA GetQueueIs ==
  ASSUME NEW q, QueueOK(q)
  PROVE  q # NoQueue /\ GetQueue(q) = q
<1>1. q.cap # 0
  BY DEF QueueOK
<1>2. NoQueue.cap = 0
  BY DEF NoQueue
<1> QED
  BY <1>1, <1>2 DEF GetQueue

LEMMA QueueFields ==
  ASSUME NEW n \in Nat \ {0}, NEW h \in 0..(n - 1), NEW t \in 0..(n - 1),
         NEW f \in [0..(n - 1) -> Slot], NEW b, HashTable(b),
         NEW q, q = [cap |-> n, head |-> h, tail |-> t, ring |-> f, hash |-> b]
  PROVE  /\ QueueOK(q) /\ q.cap = n /\ q.head = h /\ q.tail = t
         /\ q.ring = f /\ q.hash = b
BY DEF QueueOK

\* push_data: the package comes last in the ring, also when the ring grows.
LEMMA PushIs ==
  ASSUME NEW q, QueueOK(q), NEW c \in Conn, NEW data \in Seq(Byte),
         NEW e, e = [id |-> c, data |-> data], NEW p, p = PushData(q, c, data)
  PROVE  QueueOK(p) /\ p.hash = q.hash /\ Popped(p) = Append(Popped(q), e)
<1> DEFINE n == q.cap
           h == q.head
           t == q.tail
           f == q.ring
           b == q.hash
           y == (t - h) % n
           u == (t + 1) % n
           g == [f EXCEPT ![t] = e]
           m == [cap |-> n, head |-> h, tail |-> u, ring |-> g, hash |-> b]
<1>1. /\ n \in Nat \ {0} /\ h \in 0..(n - 1) /\ t \in 0..(n - 1)
      /\ f \in [0..(n - 1) -> Slot] /\ HashTable(b)
      /\ q = [cap |-> n, head |-> h, tail |-> t, ring |-> f, hash |-> b]
  BY DEF QueueOK
<1>2. e \in Slot
  BY DEF Slot
<1>3. /\ (t - h) % n = y /\ y = (t - h) % n /\ u = (t + 1) % n /\ g = [f EXCEPT ![t] = e]
      /\ q.cap = n /\ q.head = h /\ q.tail = t /\ q.ring = f /\ q.hash = b
      /\ m = [cap |-> n, head |-> h, tail |-> u, ring |-> g, hash |-> b]
  OBVIOUS
<1>5. /\ y \in 0..(n - 1) /\ Popped(q) \in Seq(Slot) /\ Len(Popped(q)) = y
      /\ \A j \in 0..(n - 1) : j < y => Popped(q)[j + 1] = f[(h + j) % n]
  BY PoppedIs
<1> HIDE DEF n, h, t, f, b, y, u, g, m
<1>4. p = IF h = u THEN ExpandQueue(m) ELSE m
  <2>1. GetQueue(q) = q
    BY GetQueueIs
  <2>2. [q EXCEPT !.ring[t] = e, !.tail = u] = m
    <3>1. [q EXCEPT !.ring[t] = e, !.tail = u] = [q EXCEPT !.ring = g, !.tail = u]
      BY <1>3
    <3>2. [q EXCEPT !.ring = g, !.tail = u] = m
      <4>1. q = [cap |-> n, head |-> h, tail |-> t, ring |-> f, hash |-> b]
        BY <1>1
      <4>2. m = [cap |-> n, head |-> h, tail |-> u, ring |-> g, hash |-> b]
        BY <1>3
      <4>3. [q EXCEPT !.ring = g] = [cap |-> n, head |-> h, tail |-> t, ring |-> g, hash |-> b]
        BY ONLY <4>1
      <4> DEFINE v == [q EXCEPT !.ring = g]
      <4>4. v = [cap |-> n, head |-> h, tail |-> t, ring |-> g, hash |-> b]
        BY <4>3
      <4> HIDE DEF v
      <4>5. [v EXCEPT !.tail = u] = m
        BY ONLY <4>2, <4>4
      <4> QED
        BY <4>5 DEF v
    <3> QED
      BY <3>1, <3>2
  <2>3. m.head = h /\ m.tail = u
    BY <1>3
  <2>4. PushData(q, c, data) =
          LET v == [q EXCEPT !.ring[q.tail] = e, !.tail = (q.tail + 1) % q.cap]
          IN  IF v.head = v.tail THEN ExpandQueue(v) ELSE v
    BY <2>1 DEF PushData
  <2>5. [q EXCEPT !.ring[q.tail] = e, !.tail = (q.tail + 1) % q.cap] = m
    BY <1>3, <2>2
  <2> QED
    BY <2>3, <2>4, <2>5
<1>6. /\ g \in [0..(n - 1) -> Slot] /\ g[(h + y) % n] = e
      /\ \A j \in 0..(n - 1) : j # y => g[(h + j) % n] = f[(h + j) % n]
  <2>1. g \in [0..(n - 1) -> Slot] /\ g[t] = e /\ \A i \in 0..(n - 1) : i # t => g[i] = f[i]
    BY <1>1, <1>2, <1>3
  <2>2. y \in 0..(n - 1)
    BY <1>5
  <2>3. ASSUME NEW j \in 0..(n - 1)
        PROVE  (h + j) % n \in 0..(n - 1) /\ ((h + j) % n = t <=> j = y)
    <3>1. (h + j) % n \in 0..(n - 1) /\ ((h + j) % n = t <=> j = (t - h) % n)
      <4>1. n \in Nat \ {0} /\ h \in 0..(n - 1) /\ t \in 0..(n - 1)
        BY <1>1
      <4>2. InRing(n, h, t, j)
        BY ONLY <4>1, j \in 0..(n - 1), RingPlace
      <4> QED
        BY ONLY <4>2 DEF InRing
    <3> QED
      BY ONLY <3>1, <1>3
  <2>4. (h + y) % n = t
    BY <2>2, <2>3
  <2>5. ASSUME NEW j \in 0..(n - 1), j # y PROVE g[(h + j) % n] = f[(h + j) % n]
    <3>1. (h + j) % n \in 0..(n - 1) /\ (h + j) % n # t
      BY <2>3, <2>5
    <3> QED
      BY <2>1, <3>1
  <2> QED
    BY <2>1, <2>4, <2>5
<1>7. u \in 0..(n - 1) /\ (h = u => y = n - 1) /\ (h # u => (u - h) % n = y + 1)
  <2>1. /\ u \in 0..(n - 1)
        /\ h = u => (t - h) % n = n - 1
        /\ h # u => (u - h) % n = ((t - h) % n) + 1
    BY ONLY <1>1, <1>3, RingNext
  <2> QED
    BY ONLY <2>1, <1>3
<1>8. ASSUME NEW r \in Seq(Slot), Len(r) = y + 1, \A j \in 0..y : r[j + 1] = g[(h + j) % n]
      PROVE  r = Append(Popped(q), e)
  <2> DEFINE a == Append(Popped(q), e)
  <2>1. /\ a \in Seq(Slot) /\ Len(a) = y + 1 /\ a[y + 1] = e
        /\ \A i \in 1..y : a[i] = Popped(q)[i]
    BY <1>2, <1>5, AppendProperties
  <2>2. ASSUME NEW i \in 1..(y + 1) PROVE r[i] = a[i]
    <3> DEFINE j == i - 1
    <3>1. j \in 0..y /\ j \in 0..(n - 1) /\ j + 1 = i
      BY <1>1, <1>5
    <3>2. r[i] = g[(h + j) % n]
      <4> HIDE DEF j
      <4>1. r[j + 1] = g[(h + j) % n]
        BY <1>8, <3>1
      <4> QED
        BY <3>1, <4>1
    <3>3. CASE i = y + 1
      <4>1. j = y
        BY <1>5, <3>3
      <4> HIDE DEF j
      <4> QED
        BY <1>6, <2>1, <3>2, <3>3, <4>1
    <3>4. CASE i # y + 1
      <4>1. i \in 1..y /\ j # y /\ j < y
        BY <1>5, <3>4
      <4> HIDE DEF j, a
      <4>2. a[i] = Popped(q)[j + 1]
        BY <2>1, <3>1, <4>1
      <4>3. Popped(q)[j + 1] = f[(h + j) % n]
        BY <1>5, <3>1, <4>1
      <4>4. g[(h + j) % n] = f[(h + j) % n]
        BY <1>6, <3>1, <4>1
      <4> QED
        BY <3>2, <4>2, <4>3, <4>4
    <3> QED
      BY <3>3, <3>4
  <2> HIDE DEF a
  <2>3. r = a
    <3>1. Len(r) = Len(a) /\ \A i \in 1..Len(r) : r[i] = a[i]
      BY <1>8, <2>1, <2>2
    <3> QED
      BY ONLY <1>8, r \in Seq(Slot), <2>1, <3>1, SeqEqual
  <2> QED
    BY <2>3 DEF a
<1>9. CASE h # u
  <2>1. p = m
    BY <1>4, <1>9
  <2>2. /\ QueueOK(p) /\ p.hash = b
        /\ p.cap = n /\ p.head = h /\ p.tail = u /\ p.ring = g
    <3>1. p = [cap |-> n, head |-> h, tail |-> u, ring |-> g, hash |-> b]
      BY <1>3, <2>1
    <3>2. HashTable(b) /\ g \in [0..(n - 1) -> Slot]
      BY <1>1, <1>6
    <3> QED
      BY ONLY <1>1, <3>1, <3>2, <1>7, QueueFields
  <2>3. /\ Popped(p) \in Seq(Slot) /\ Len(Popped(p)) = (u - h) % n
        /\ \A j \in 0..(n - 1) : j < (u - h) % n => Popped(p)[j + 1] = g[(h + j) % n]
    BY <2>2, PoppedIs
  <2>4. Len(Popped(p)) = y + 1 /\ \A j \in 0..y : Popped(p)[j + 1] = g[(h + j) % n]
    <3>1. (u - h) % n = y + 1
      BY <1>7, <1>9
    <3>2. \A j \in 0..y : j \in 0..(n - 1) /\ j < y + 1
      BY <1>1, <1>5
    <3> QED
      BY <2>3, <3>1, <3>2
  <2> QED
    BY <1>8, <2>2, <2>3, <2>4 DEF b
<1>10. CASE h = u
  <2> DEFINE w == n + QueueSize
             r == [k \in 0..(m.cap + QueueSize - 1) |->
                     IF k < m.cap THEN m.ring[(m.head + k) % m.cap] ELSE NoPackage]
  <2>0. m.cap = n /\ m.head = h /\ m.ring = g
    BY <1>3
  <2>1. p = [cap |-> w, head |-> 0, tail |-> n, ring |-> r, hash |-> b]
    <3>1. p = ExpandQueue(m)
      BY <1>4, <1>10
    <3>3. ExpandQueue(m) = [m EXCEPT !.cap = m.cap + QueueSize, !.head = 0,
                                     !.tail = m.cap, !.ring = r]
      BY DEF ExpandQueue
    <3> HIDE DEF r
    <3>5. ExpandQueue(m) = [m EXCEPT !.cap = w, !.head = 0, !.tail = n, !.ring = r]
      BY <2>0, <3>3
    <3> HIDE DEF w
    <3> QED
      BY <1>3, <3>1, <3>5
  <2>2. /\ w \in Nat \ {0} /\ 0 \in 0..(w - 1) /\ n \in 0..(w - 1)
        /\ \A k \in 0..(n - 1) : k \in 0..(w - 1) /\ k < n
    BY <1>1, NetpackAssumption
  <2>9. m.cap + QueueSize - 1 = w - 1
    BY <1>1, <2>0, NetpackAssumption
  <2>3. r \in [0..(w - 1) -> Slot]
    <3>1. NoPackage \in Slot
      BY DEF Slot
    <3>2. ASSUME NEW k \in 0..(w - 1), k < n PROVE m.ring[(m.head + k) % m.cap] \in Slot
      <4>1. k \in 0..(n - 1)
        BY <1>1, <3>2
      <4>2. (h + k) % n \in 0..(n - 1)
        <5>1. InRing(n, h, t, k)
          BY ONLY <1>1, <4>1, RingPlace
        <5> QED
          BY ONLY <5>1 DEF InRing
      <4>3. g[(h + k) % n] \in Slot
        BY <1>6, <4>2
      <4> QED
        BY <2>0, <4>3
    <3>3. r = [k \in 0..(w - 1) |-> IF k < n THEN m.ring[(m.head + k) % m.cap] ELSE NoPackage]
      BY <2>0, <2>9
    <3> HIDE DEF w, r
    <3> QED
      BY ONLY <3>1, <3>2, <3>3
  <2>4. ASSUME NEW k \in 0..(n - 1) PROVE r[k] = g[(h + k) % n]
    <3>1. k \in 0..(m.cap + QueueSize - 1) /\ k < m.cap
      BY <2>0, <2>2, <2>9
    <3>2. r[k] = m.ring[(m.head + k) % m.cap]
      BY <3>1
    <3> QED
      BY <2>0, <3>2
  <2> HIDE DEF r, w
  <2>5. QueueOK(p) /\ p.cap = w /\ p.head = 0 /\ p.tail = n /\ p.ring = r /\ p.hash = b
    BY ONLY <1>1, <2>1, <2>2, <2>3, QueueFields
  <2>6. /\ Popped(p) \in Seq(Slot) /\ Len(Popped(p)) = (n - 0) % w
        /\ \A j \in 0..(w - 1) : j < (n - 0) % w => Popped(p)[j + 1] = r[(0 + j) % w]
    BY <2>5, PoppedIs
  <2>7. (n - 0) % w = n /\ n = y + 1
    <3>1. n - 0 = n /\ n \in Int /\ y = n - 1
      BY <1>1, <1>7, <1>10
    <3>2. n % w = n
      BY ONLY <2>2, <3>1, Wrap
    <3>3. n = y + 1
      BY ONLY <1>1, <3>1
    <3> QED
      BY <3>1, <3>2, <3>3
  <2>8. ASSUME NEW j \in 0..y PROVE Popped(p)[j + 1] = g[(h + j) % n]
    <3>1. j \in 0..(n - 1) /\ j \in Int /\ 0 + j = j
      BY ONLY <1>1, <2>7, <1>5, j \in 0..y
    <3>2. j \in 0..(w - 1) /\ j < n
      BY <2>2, <3>1
    <3>3. j % w = j
      BY ONLY <2>2, <3>1, <3>2, Wrap
    <3>4. Popped(p)[j + 1] = r[j]
      BY <2>6, <2>7, <3>1, <3>2, <3>3
    <3> QED
      BY <2>4, <3>1, <3>4
  <2> QED
    BY <1>8, <2>5, <2>6, <2>7, <2>8 DEF b
<1> QED
  BY <1>9, <1>10
-----------------------------------------------------------------------------
(* The folds that push several packages and hand several over.             *)

\* One step of the folds: a package is pushed, or given to its handler.
FoldOne(kind, u, x, c) ==
  IF kind = "push" THEN PushData(u, c, x) ELSE [u EXCEPT ![x.id] = Append(@, x.data)]

\* The function by which FoldLeft handles the elements of s at the places D.
IsFold(f, s, b, kind, c, D) ==
  f = [v \in SUBSET D |->
         IF v = {} THEN b ELSE FoldOne(kind, f[v \ {Max(v)}], s[Max(v)], c)]

\* There is such a function, by induction on the number of elements.
LEMMA FoldExists ==
  ASSUME NEW s, NEW b, NEW kind, NEW c, NEW n \in Nat
  PROVE  \E f : IsFold(f, s, b, kind, c, 1..n)
<1> DEFINE T == {k \in Nat : ~ \E f : IsFold(f, s, b, kind, c, 1..k)}
<1> SUFFICES T = {}
  OBVIOUS
<1>1. 0 \notin T
  <2> DEFINE f == [v \in SUBSET (1..0) |-> b]
  <2>1. SUBSET (1..0) = {{}}
    OBVIOUS
  <2>2. IsFold(f, s, b, kind, c, 1..0)
    BY <2>1 DEF IsFold
  <2> QED
    BY <2>2
<1>2. ASSUME NEW k \in Nat, k \notin T PROVE k + 1 \notin T
  <2>1. PICK f : IsFold(f, s, b, kind, c, 1..k)
    BY <1>2
  <2> DEFINE g == [v \in SUBSET (1..(k+1)) |->
                     IF k + 1 \in v THEN FoldOne(kind, f[v \ {k+1}], s[k+1], c) ELSE f[v]]
  <2>2. ASSUME NEW v \in SUBSET (1..(k+1)), k + 1 \in v PROVE Max(v) = k + 1
    <3>1. \A y \in v : k + 1 >= y /\ y \in Int
      OBVIOUS
    <3>2. \A x \in v : (\A y \in v : x >= y) => x = k + 1
      BY <2>2, <3>1
    <3> QED
      BY <2>2, <3>1, <3>2 DEF Max
  <2>3. ASSUME NEW v \in SUBSET (1..(k+1)), k + 1 \notin v
        PROVE  v \in SUBSET (1..k)
    BY <2>3
  <2>4. ASSUME NEW v \in SUBSET (1..k)
        PROVE  /\ v \in SUBSET (1..(k+1)) /\ k + 1 \notin v
               /\ v \ {Max(v)} \in SUBSET (1..k)
    <3>1. \A x \in 1..k : x \in 1..(k + 1) /\ x # k + 1
      OBVIOUS
    <3>2. \A x \in v \ {Max(v)} : x \in 1..k
      OBVIOUS
    <3> QED
      BY <3>1, <3>2
  <2>5. ASSUME NEW v \in SUBSET (1..k) PROVE g[v] = f[v]
    BY <2>4
  <2>6. ASSUME NEW v \in SUBSET (1..(k+1))
        PROVE  g[v] = IF v = {} THEN b ELSE FoldOne(kind, g[v \ {Max(v)}], s[Max(v)], c)
    <3>1. CASE k + 1 \in v
      <4>1. v \ {k+1} \in SUBSET (1..k)
        OBVIOUS
      <4> QED
        BY <2>2, <2>5, <3>1, <4>1
    <3>2. CASE k + 1 \notin v
      <4>1. v \in SUBSET (1..k) /\ v \ {Max(v)} \in SUBSET (1..k)
        BY <2>3, <2>4, <3>2
      <4>2. f[v] = IF v = {} THEN b ELSE FoldOne(kind, f[v \ {Max(v)}], s[Max(v)], c)
        BY <2>1, <4>1 DEF IsFold
      <4> QED
        BY <2>5, <4>1, <4>2
    <3> QED
      BY <3>1, <3>2
  <2>7. IsFold(g, s, b, kind, c, 1..(k + 1))
    BY <2>6 DEF IsFold
  <2> QED
    BY <2>7
<1>3. T \subseteq Nat
  OBVIOUS
<1> HIDE DEF T
<1>4. ASSUME T # {} PROVE FALSE
  <2>1. PICK m \in T : \A j \in T : m <= j
    BY <1>3, <1>4, Least
  <2>2. m # 0 /\ m \in Nat
    BY <1>1, <1>3
  <2>3. m - 1 \in Nat /\ m - 1 \notin T
    BY <2>1, <2>2
  <2>4. (m - 1) + 1 \notin T
    BY <1>2, <2>3
  <2> QED
    BY <2>2, <2>4
<1> QED
  BY <1>4

\* One more element.
LEMMA FoldStep ==
  ASSUME NEW s, NEW b, NEW kind, NEW c, NEW n \in Nat, NEW iter, IsFold(iter, s, b, kind, c, 1..n),
         NEW k \in 1..n
  PROVE  iter[1..k] = FoldOne(kind, iter[1..(k - 1)], s[k], c)
<1>1. iter = [v \in SUBSET (1..n) |->
             IF v = {} THEN b ELSE FoldOne(kind, iter[v \ {Max(v)}], s[Max(v)], c)]
  BY DEF IsFold
<1>2. Max(1..k) = k
  <2>1. \A x \in 1..k : (\A y \in 1..k : x >= y) => x = k
    OBVIOUS
  <2>2. k \in 1..k /\ \A y \in 1..k : k >= y
    OBVIOUS
  <2> QED
    BY <2>1, <2>2 DEF Max
<1>3. \A x : x \in 1..k => x \in 1..n
  OBVIOUS
<1>4. k \in 1..k
  OBVIOUS
<1>5. (1..k) \ {k} = 1..(k - 1)
  OBVIOUS
<1>6. 1..k \in SUBSET (1..n) /\ 1..k # {}
  BY <1>3, <1>4
<1> QED
  BY <1>1, <1>2, <1>5, <1>6

\* What the fold has reached before, between and after the elements.
LEMMA FoldHasRun ==
  ASSUME NEW S, NEW s \in Seq(S), NEW b, NEW kind, NEW c,
         NEW iter, IsFold(iter, s, b, kind, c, DOMAIN s)
  PROVE  \E g : /\ g[0] = b
                /\ \A n \in 1..Len(s) : g[n] = FoldOne(kind, g[n - 1], s[n], c)
                /\ iter[DOMAIN s] = g[Len(s)]
<1>1. DOMAIN s = 1..Len(s) /\ Len(s) \in Nat
  OBVIOUS
<1>4. iter[{}] = b
  BY <1>1 DEF IsFold
<1>5. ASSUME NEW n \in 1..Len(s) PROVE iter[1..n] = FoldOne(kind, iter[1..(n - 1)], s[n], c)
  BY <1>1, FoldStep
<1> DEFINE g == [n \in 0..Len(s) |-> iter[1..n]]
<1>6. g[0] = b
  <2>1. 1..0 = {}
    OBVIOUS
  <2> QED
    BY <1>1, <1>4, <2>1
<1>7. ASSUME NEW n \in 1..Len(s) PROVE g[n] = FoldOne(kind, g[n - 1], s[n], c)
  <2>1. n - 1 \in 0..Len(s) /\ n \in 0..Len(s)
    BY <1>1
  <2> QED
    BY <1>5, <2>1
<1>8. iter[DOMAIN s] = g[Len(s)]
  BY <1>1
<1> HIDE DEF g
<1> QED
  BY <1>6, <1>7, <1>8

LEMMA PushAllRun ==
  ASSUME NEW S, NEW s \in Seq(S), NEW q, NEW c
  PROVE  \E g : /\ g[0] = q
                /\ \A n \in 1..Len(s) : g[n] = PushData(g[n - 1], c, s[n])
                /\ PushAll(q, c, s) = g[Len(s)]
<1> DEFINE kind == "push"
           iter == CHOOSE f : IsFold(f, s, q, kind, c, DOMAIN s)
<1>1. PushAll(q, c, s) = iter[DOMAIN s]
  BY DEF PushAll, FoldLeft, MapThenFoldSet, IsFold, FoldOne
<1>2. \A u, x : FoldOne(kind, u, x, c) = PushData(u, c, x)
  BY DEF FoldOne
<1> HIDE DEF kind
<1>3. IsFold(iter, s, q, kind, c, DOMAIN s)
  <2>1. DOMAIN s = 1..Len(s) /\ Len(s) \in Nat
    OBVIOUS
  <2>2. \E f : IsFold(f, s, q, kind, c, 1..Len(s))
    BY <2>1, FoldExists
  <2> QED
    BY <2>1, <2>2
<1> HIDE DEF iter
<1>4. \E g : /\ g[0] = q
             /\ \A n \in 1..Len(s) : g[n] = FoldOne(kind, g[n - 1], s[n], c)
             /\ iter[DOMAIN s] = g[Len(s)]
  BY <1>3, FoldHasRun
<1> QED
  BY <1>1, <1>2, <1>4

LEMMA HandedRun ==
  ASSUME NEW S, NEW s \in Seq(S)
  PROVE  \E g : /\ g[0] = handed
                /\ \A n \in 1..Len(s) :
                     g[n] = [g[n - 1] EXCEPT ![s[n].id] = Append(@, s[n].data)]
                /\ Handed(s) = g[Len(s)]
<1> DEFINE b == handed
           kind == "hand"
           c == 0
           iter == CHOOSE f : IsFold(f, s, b, kind, c, DOMAIN s)
<1>1. Handed(s) = iter[DOMAIN s]
  BY DEF Handed, FoldLeft, MapThenFoldSet, IsFold, FoldOne
<1>2. \A u, x : FoldOne(kind, u, x, c) = [u EXCEPT ![x.id] = Append(@, x.data)]
  BY DEF FoldOne
<1> HIDE DEF kind, c, b
<1>3. IsFold(iter, s, b, kind, c, DOMAIN s)
  <2>1. DOMAIN s = 1..Len(s) /\ Len(s) \in Nat
    OBVIOUS
  <2>2. \E f : IsFold(f, s, b, kind, c, 1..Len(s))
    BY <2>1, FoldExists
  <2> QED
    BY <2>1, <2>2
<1> HIDE DEF iter
<1>4. \E g : /\ g[0] = b
             /\ \A n \in 1..Len(s) : g[n] = FoldOne(kind, g[n - 1], s[n], c)
             /\ iter[DOMAIN s] = g[Len(s)]
  BY <1>3, FoldHasRun
<1> QED
  BY <1>1, <1>2, <1>4 DEF b

Entry(c, d) == [id |-> c, data |-> d]

\* The ring entries of several packages of one client.
Entries(c, packs) == [i \in 1..Len(packs) |-> Entry(c, packs[i])]

LEMMA EntriesIs ==
  ASSUME NEW c \in Conn, NEW s \in Seq(Seq(Byte)), NEW E, E = Entries(c, s)
  PROVE  /\ E \in Seq(Slot) /\ Len(E) = Len(s)
         /\ \A i \in 1..Len(s) : E[i] = Entry(c, s[i]) /\ s[i] \in Seq(Byte)
<1>1. Len(s) \in Nat /\ \A i \in 1..Len(s) : s[i] \in Seq(Byte)
  OBVIOUS
<1>2. \A i \in 1..Len(s) : Entry(c, s[i]) \in Slot
  BY <1>1 DEF Entry, Slot
<1>3. E = [i \in 1..Len(s) |-> Entry(c, s[i])]
  BY DEF Entries
<1> QED
  BY <1>1, <1>2, <1>3

\* A queue between two dispatches: its ring is empty, or there is none.
Resting(q) == q = NoQueue \/ (QueueOK(q) /\ q.head = q.tail)

LEMMA PoppedNone ==
  ASSUME NEW q, QueueOK(q), q.head = q.tail
  PROVE  Popped(q) = <<>>
<1> DEFINE n == q.cap
           h == q.head
           y == (q.tail - q.head) % q.cap
<1>1. n \in Nat \ {0} /\ h \in 0..(n - 1)
  BY DEF QueueOK
<1>2. y = 0
  <2>1. q.tail - q.head = 0
    BY <1>1
  <2>2. 0 \in Int /\ 0 \in 0..(n - 1)
    BY <1>1
  <2> HIDE DEF n
  <2>3. 0 % n = 0
    BY ONLY <1>1, <2>2, Wrap
  <2> QED
    BY <2>1, <2>3 DEF n
<1>3. Popped(q) = [k \in 1..y |-> q.ring[(q.head + k - 1) % q.cap]]
  BY DEF Popped
<1>4. Popped(q) \in Seq(Slot) /\ Len(Popped(q)) = y
  BY PoppedIs
<1> HIDE DEF y
<1> QED
  BY <1>2, <1>4

LEMMA HashFdIs ==
  ASSUME NEW c \in Conn
  PROVE  HashFd(c) \in 0..(HashSize - 1)
<1>1. c \in Nat /\ HashSize \in Nat /\ HashSize > 0
  BY NetpackAssumption
<1>2. c % HashSize \in Nat /\ c % HashSize < HashSize
  BY <1>1, DivHas
<1> QED
  BY <1>1, <1>2 DEF HashFd

LEMMA EmptyIs == QueueOK(EmptyQueue) /\ EmptyQueue.head = EmptyQueue.tail
<1> DEFINE n == QueueSize
           f == [k \in 0..(QueueSize - 1) |-> NoPackage]
           b == [h \in 0..(HashSize - 1) |-> <<>>]
<1>1. n \in Nat \ {0} /\ 0 \in 0..(n - 1) /\ HashSize \in Nat
  BY NetpackAssumption
<1>2. f \in [0..(n - 1) -> Slot]
  BY DEF Slot
<1>3. HashTable(b)
  <2>1. <<>> \in Seq(Uncompletes) /\ DOMAIN <<>> = {}
    BY EmptySeq
  <2>2. \A h \in 0..(HashSize - 1) : b[h] = <<>>
    OBVIOUS
  <2>3. b \in [0..(HashSize - 1) -> Seq(Uncompletes)]
    BY <2>1
  <2> HIDE DEF b
  <2>4. \A h \in 0..(HashSize - 1) : Bucket(b[h], h)
    BY <2>1, <2>2 DEF Bucket
  <2> QED
    BY <2>3, <2>4 DEF HashTable
<1>4. EmptyQueue = [cap |-> n, head |-> 0, tail |-> 0, ring |-> f, hash |-> b]
  BY DEF EmptyQueue
<1> HIDE DEF n, f, b
<1> QED
  BY <1>1, <1>2, <1>3, <1>4, QueueFields

LEMMA RestingIs ==
  ASSUME NEW q, Resting(q), NEW w, w = GetQueue(q)
  PROVE  /\ QueueOK(w) /\ w.head = w.tail /\ Popped(w) = <<>>
         /\ \A c, d : PushData(q, c, d) = PushData(w, c, d)
<1>1. QueueOK(w) /\ w.head = w.tail
  <2>1. CASE q = NoQueue
    BY <2>1, EmptyIs DEF GetQueue
  <2>2. CASE QueueOK(q) /\ q.head = q.tail
    BY <2>2, GetQueueIs
  <2> QED
    BY <2>1, <2>2 DEF Resting
<1>2. GetQueue(w) = w
  BY <1>1, GetQueueIs
<1>3. Popped(w) = <<>>
  BY <1>1, PoppedNone
<1>4. \A c, d : PushData(q, c, d) = PushData(w, c, d)
  BY <1>2 DEF PushData
<1> QED
  BY <1>1, <1>3, <1>4

\* push_data of several packages: they are in the ring, in order.
LEMMA PushAllIs ==
  ASSUME NEW q, Resting(q), NEW c \in Conn, NEW s \in Seq(Seq(Byte)),
         NEW p, p = PushAll(q, c, s), NEW w, w = GetQueue(q)
  PROVE  /\ s = <<>> => p = q
         /\ s # <<>> => QueueOK(p) /\ p.hash = w.hash /\ Popped(p) = Entries(c, s)
<1> DEFINE E == Entries(c, s)
           N == Len(s)
<1>1. PICK g : /\ g[0] = q
               /\ \A n \in 1..Len(s) : g[n] = PushData(g[n - 1], c, s[n])
               /\ PushAll(q, c, s) = g[Len(s)]
  BY PushAllRun
<1>2. s = <<>> => p = q
  BY <1>1
<1>3. QueueOK(w) /\ Popped(w) = <<>> /\ \A x, d : PushData(q, x, d) = PushData(w, x, d)
  BY RestingIs
<1>4. /\ E \in Seq(Slot) /\ Len(E) = Len(s)
      /\ \A i \in 1..Len(s) : E[i] = Entry(c, s[i]) /\ s[i] \in Seq(Byte)
  BY EntriesIs
<1>5. N \in Nat
  OBVIOUS
<1> HIDE DEF E
<1> DEFINE Q(a, n) == QueueOK(a) /\ a.hash = w.hash /\ Popped(a) = Part(E, 0, n)
           at(n) == IF n = 0 THEN w ELSE g[n]
           G == {n \in 0..N : Q(at(n), n)}
<1>6. 0 \in G
  <2>1. Part(E, 0, 0) = <<>>
    BY PartNone
  <2>2. Q(w, 0)
    BY <1>3, <2>1
  <2> HIDE DEF Q
  <2> QED
    BY <1>5, <2>2
<1>7. ASSUME NEW n \in 1..N, n - 1 \in G PROVE n \in G
  <2> DEFINE a == at(n - 1)
             d == s[n]
             e == Entry(c, s[n])
  <2>1. n \in 0..N /\ n # 0 /\ n \in 1..Len(s) /\ n \in 1..Len(E)
    BY <1>4, <1>5
  <2>2. Q(a, n - 1)
    BY <1>7
  <2>3. at(n) = PushData(a, c, d)
    <3>1. at(n) = PushData(g[n - 1], c, d)
      BY <1>1, <2>1
    <3>2. CASE n - 1 = 0
      BY <1>1, <1>3, <3>1, <3>2
    <3>3. CASE n - 1 # 0
      BY <3>1, <3>3
    <3> QED
      BY <3>2, <3>3
  <2>4. d \in Seq(Byte) /\ e = [id |-> c, data |-> d] /\ E[n] = e
    BY <1>4, <2>1 DEF Entry
  <2> DEFINE x == at(n)
  <2>5. x = PushData(a, c, d) /\ QueueOK(a)
    BY <2>2, <2>3
  <2> HIDE DEF x, a, d, e, at
  <2>6. QueueOK(x) /\ x.hash = a.hash /\ Popped(x) = Append(Popped(a), e)
    BY ONLY <2>4, <2>5, c \in Conn, PushIs
  <2>7. Append(Part(E, 0, n - 1), E[n]) = Part(E, 0, n)
    BY ONLY <1>4, <2>1, PartLast
  <2>8. Q(x, n)
    BY <2>2, <2>4, <2>6, <2>7
  <2> HIDE DEF Q
  <2> QED
    BY <2>1, <2>8 DEF x
<1> HIDE DEF G, N
<1>8. \A n \in 0..N : n \in G
  BY ONLY <1>5, <1>6, <1>7, Climb
<1>9. N \in G
  BY <1>5, <1>8
<1>10. Q(at(N), N)
  BY <1>9 DEF G
<1>11. ASSUME s # <<>> PROVE QueueOK(p) /\ p.hash = w.hash /\ Popped(p) = Entries(c, s)
  <2>1. N # 0
    BY <1>11 DEF N
  <2>2. p = at(N)
    BY <1>1, <2>1 DEF N
  <2>3. Part(E, 0, N) = E
    BY <1>4, PartAll DEF N
  <2> HIDE DEF at
  <2> QED
    BY <1>10, <2>2, <2>3 DEF E
<1> QED
  BY <1>2, <1>11

LEMMA ConcatAppend ==
  ASSUME NEW s \in Seq(Seq(Byte)), NEW t \in Seq(Seq(Byte)), NEW e \in Seq(Byte)
  PROVE  Append(s \o t, e) = s \o Append(t, e)
<1> DEFINE S == Seq(Byte)
           r == <<e>>
<1>1. s \in Seq(S) /\ t \in Seq(S) /\ e \in S
  OBVIOUS
<1> HIDE DEF S
<1>2. r \in Seq(S)
  BY <1>1
<1>3. s \o t \in Seq(S)
  BY <1>1, ConcatProperties
<1>4. Append(s \o t, e) = (s \o t) \o r /\ Append(t, e) = t \o r
  BY <1>1, <1>3, AppendIsConcat
<1> HIDE DEF r
<1>5. (s \o t) \o r = s \o (t \o r)
  BY <1>1, <1>2, ConcatAssociative
<1> QED
  BY <1>4, <1>5

\* The handler was also given s from c.
Given(r, c, s) ==
  /\ r \in [Conn -> Seq(Seq(Byte))]
  /\ r[c] = handed[c] \o s
  /\ \A d \in Conn : d # c => r[d] = handed[d]

\* The handler gets the packages of the ring behind those it had.
LEMMA HandedIs ==
  ASSUME handed \in [Conn -> Seq(Seq(Byte))], NEW c \in Conn,
         NEW s \in Seq(Seq(Byte)), NEW r, r = Handed(Entries(c, s))
  PROVE  Given(r, c, s)
<1> DEFINE E == Entries(c, s)
           N == Len(s)
           B == handed[c]
<1>1. /\ E \in Seq(Slot) /\ Len(E) = Len(s)
      /\ \A i \in 1..Len(s) : E[i] = Entry(c, s[i]) /\ s[i] \in Seq(Byte)
  BY EntriesIs
<1>2. N \in Nat /\ B \in Seq(Seq(Byte))
  OBVIOUS
<1>3. r = Handed(E)
  OBVIOUS
<1> HIDE DEF E
<1>4. PICK g : /\ g[0] = handed
               /\ \A n \in 1..Len(E) : g[n] = [g[n - 1] EXCEPT ![E[n].id] = Append(@, E[n].data)]
               /\ Handed(E) = g[Len(E)]
  BY <1>1, HandedRun
<1> DEFINE H(a, n) == /\ a \in [Conn -> Seq(Seq(Byte))]
                      /\ a[c] = B \o Part(s, 0, n)
                      /\ \A d \in Conn : d # c => a[d] = handed[d]
           G == {n \in 0..N : H(g[n], n)}
<1>5. 0 \in G
  <2>1. Part(s, 0, 0) = <<>>
    BY PartNone
  <2>2. B \o <<>> = B
    BY <1>2, ConcatEmptySeq
  <2>3. H(handed, 0)
    BY <2>1, <2>2
  <2> HIDE DEF H
  <2> QED
    BY <1>2, <1>4, <2>3
<1>6. ASSUME NEW n \in 1..N, n - 1 \in G PROVE n \in G
  <2> DEFINE a == g[n - 1]
             x == g[n]
             e == s[n]
             P == Part(s, 0, n - 1)
  <2>1. n \in 0..N /\ n \in 1..Len(s) /\ n \in 1..Len(E)
    BY <1>1, <1>2
  <2>2. H(a, n - 1)
    BY <1>6
  <2>3. E[n].id = c /\ E[n].data = e /\ e \in Seq(Byte)
    <3>1. E[n] = Entry(c, e) /\ e \in Seq(Byte)
      BY <1>1, <2>1
    <3> HIDE DEF e
    <3>2. Entry(c, e) = [id |-> c, data |-> e]
      BY DEF Entry
    <3> QED
      BY ONLY <3>1, <3>2
  <2>4. x = [a EXCEPT ![c] = Append(@, e)]
    BY <1>4, <2>1, <2>3
  <2>5. P \in Seq(Seq(Byte)) /\ Append(P, e) = Part(s, 0, n)
    BY ONLY <2>1, s \in Seq(Seq(Byte)), PartLast
  <2> HIDE DEF x, a, e, P, B
  <2>6. a \in [Conn -> Seq(Seq(Byte))] /\ a[c] = B \o P
    BY <2>2 DEF P
  <2>7. Append(B \o P, e) = B \o Append(P, e)
    BY ONLY <1>2, <2>3, <2>5, ConcatAppend
  <2>8. Append(B \o P, e) \in Seq(Seq(Byte))
    <3> DEFINE S == Seq(Byte)
    <3>1. B \in Seq(S) /\ P \in Seq(S) /\ e \in S
      BY <1>2, <2>3, <2>5
    <3> HIDE DEF S
    <3>2. B \o P \in Seq(S)
      BY ONLY <3>1, ConcatProperties
    <3>3. Append(B \o P, e) \in Seq(S)
      BY ONLY <3>1, <3>2, AppendProperties
    <3> QED
      BY <3>3 DEF S
  <2> DEFINE v == Append(B \o P, e)
  <2>9. x = [a EXCEPT ![c] = v] /\ v \in Seq(Seq(Byte)) /\ v = B \o Part(s, 0, n)
    BY <2>4, <2>5, <2>6, <2>7, <2>8
  <2> HIDE DEF v
  <2>10. x \in [Conn -> Seq(Seq(Byte))] /\ x[c] = v
    BY <2>6, <2>9
  <2>11. \A d \in Conn : d # c => x[d] = handed[d]
    BY <2>2, <2>6, <2>9
  <2>12. H(x, n)
    BY <2>9, <2>10, <2>11
  <2> HIDE DEF H
  <2> QED
    BY <2>1, <2>12 DEF x
<1> HIDE DEF G
<1>7. \A n \in 0..N : n \in G
  BY <1>2, <1>5, <1>6, Climb
<1>8. H(g[N], N)
  <2>1. N \in G
    BY <1>2, <1>7
  <2> HIDE DEF H
  <2> QED
    BY <2>1 DEF G
<1>9. Part(s, 0, N) = s
  BY PartAll
<1>10. r = g[N]
  BY <1>1, <1>3, <1>4
<1> QED
  BY <1>8, <1>9, <1>10 DEF B, Given
-----------------------------------------------------------------------------
(* The hash table.                                                         *)

LEMMA FindBucket ==
  ASSUME NEW q, QueueOK(q), NEW c \in Conn, NEW b, b = q.hash[HashFd(c)]
  PROVE  /\ HashFd(c) \in 0..(HashSize - 1)
         /\ b \in Seq(Uncompletes) /\ Bucket(b, HashFd(c))
<1>1. HashFd(c) \in 0..(HashSize - 1)
  BY HashFdIs
<1>2. HashTable(q.hash)
  BY DEF QueueOK
<1> QED
  BY <1>1, <1>2 DEF HashTable

\* find_uncomplete finds the entry of a client if there is one.
LEMMA FindIs ==
  ASSUME NEW q, QueueOK(q), NEW c \in Conn, NEW b, b = q.hash[HashFd(c)]
  PROVE  /\ \A i \in DOMAIN b : b[i].id = c =>
              FindUncomplete(q, c) = <<b[i]>> /\ Places(q, c) = {i} /\ Min(Places(q, c)) = i
         /\ (\A i \in DOMAIN b : b[i].id # c) => FindUncomplete(q, c) = <<>> /\ Places(q, c) = {}
<1>3. b \in Seq(Uncompletes) /\ Bucket(b, HashFd(c))
  BY FindBucket
<1>4. \A i, j \in DOMAIN b : b[i].id = b[j].id => i = j
  BY <1>3 DEF Bucket
<1>5. Places(q, c) = {i \in DOMAIN b : b[i].id = c}
  BY GetQueueIs DEF Places
<1>6. ASSUME NEW i \in DOMAIN b, b[i].id = c
      PROVE  FindUncomplete(q, c) = <<b[i]>> /\ Places(q, c) = {i} /\ Min(Places(q, c)) = i
  <2>1. Places(q, c) = {i}
    BY <1>4, <1>5, <1>6
  <2>2. i \in Nat
    BY <1>3
  <2>3. Min({i}) = i
    <3>1. \A x \in {i} : (\A y \in {i} : x <= y) => x = i
      OBVIOUS
    <3>2. i \in {i} /\ \A y \in {i} : i <= y
      BY <2>2
    <3> QED
      BY <3>1, <3>2 DEF Min
  <2> QED
    BY <2>1, <2>3 DEF FindUncomplete
<1>7. ASSUME \A i \in DOMAIN b : b[i].id # c PROVE FindUncomplete(q, c) = <<>> /\ Places(q, c) = {}
  <2>1. Places(q, c) = {}
    BY <1>5, <1>7
  <2> QED
    BY <2>1 DEF FindUncomplete
<1> QED
  BY <1>6, <1>7

LEMMA FindPlaces ==
  ASSUME NEW q, QueueOK(q), NEW c \in Conn, NEW b, b = q.hash[HashFd(c)],
         NEW i \in DOMAIN b, b[i].id = c
  PROVE  Places(q, c) = {i} /\ Min(Places(q, c)) = i
BY FindIs

LEMMA FindHas ==
  ASSUME NEW q, QueueOK(q), NEW c \in Conn, NEW b, b = q.hash[HashFd(c)],
         NEW i \in DOMAIN b, NEW u, u = b[i], u.id = c
  PROVE  FindUncomplete(q, c) = <<u>>
BY FindIs

LEMMA FindNot ==
  ASSUME NEW q, QueueOK(q), NEW c \in Conn, NEW b, b = q.hash[HashFd(c)],
         \A i \in DOMAIN b : b[i].id # c
  PROVE  FindUncomplete(q, c) = <<>>
BY FindIs

LEMMA FindSame ==
  ASSUME NEW p, QueueOK(p), NEW q, QueueOK(q), p.hash = q.hash
  PROVE  \A d : FindUncomplete(p, d) = FindUncomplete(q, d)
<1>1. p # NoQueue /\ q # NoQueue
  BY GetQueueIs
<1>2. \A d : Places(p, d) = Places(q, d)
  BY <1>1 DEF Places
<1> QED
  BY <1>2 DEF FindUncomplete

LEMMA FindNone == \A d : FindUncomplete(NoQueue, d) = <<>>
BY DEF FindUncomplete, Places

LEMMA FindGet ==
  ASSUME NEW q, Resting(q)
  PROVE  \A d \in Conn : FindUncomplete(GetQueue(q), d) = FindUncomplete(q, d)
<1>1. CASE q = NoQueue
  <2>1. GetQueue(q) = EmptyQueue
    BY <1>1 DEF GetQueue
  <2>2. ASSUME NEW d \in Conn PROVE FindUncomplete(EmptyQueue, d) = <<>>
    <3>1. EmptyQueue.hash[HashFd(d)] = <<>>
      BY HashFdIs DEF EmptyQueue
    <3>2. DOMAIN <<>> = {}
      OBVIOUS
    <3> DEFINE b == EmptyQueue.hash[HashFd(d)]
    <3>3. b = EmptyQueue.hash[HashFd(d)] /\ \A i \in DOMAIN b : b[i].id # d
      BY <3>1, <3>2
    <3>4. QueueOK(EmptyQueue)
      BY EmptyIs
    <3> HIDE DEF b
    <3> QED
      BY ONLY <3>3, <3>4, d \in Conn, FindNot
  <2> QED
    BY <1>1, <2>1, <2>2, FindNone
<1>2. CASE QueueOK(q)
  BY <1>2, GetQueueIs
<1> QED
  BY <1>1, <1>2 DEF Resting

OthersKept(p, q, c) ==
  \A d \in Conn : d # c => FindUncomplete(p, d) = FindUncomplete(q, d)

\* The entries of d in the bucket b are in the bucket x.
Finds(x, b, d) == \A i \in DOMAIN b : b[i].id = d => \E j \in DOMAIN x : x[j] = b[i]

\* Two queues whose buckets have the same entry of a client.
LEMMA FindBy ==
  ASSUME NEW p, QueueOK(p), NEW q, QueueOK(q), NEW d \in Conn,
         NEW b, b = q.hash[HashFd(d)], NEW x, x = p.hash[HashFd(d)],
         Finds(x, b, d), Finds(b, x, d)
  PROVE  FindUncomplete(p, d) = FindUncomplete(q, d)
<1>1. CASE \E i \in DOMAIN b : b[i].id = d
  <2>1. PICK i \in DOMAIN b : b[i].id = d
    BY <1>1
  <2>2. PICK j \in DOMAIN x : x[j] = b[i]
    BY <2>1 DEF Finds
  <2> DEFINE u == b[i]
  <2>3. u = b[i] /\ u.id = d
    BY <2>1
  <2>6. u = x[j] /\ u.id = d
    BY <2>1, <2>2
  <2> HIDE DEF u
  <2>4. FindUncomplete(q, d) = <<u>>
    BY ONLY QueueOK(q), d \in Conn, b = q.hash[HashFd(d)], i \in DOMAIN b, <2>3, FindHas
  <2>5. FindUncomplete(p, d) = <<u>>
    BY ONLY QueueOK(p), d \in Conn, x = p.hash[HashFd(d)], j \in DOMAIN x, <2>6, FindHas
  <2> QED
    BY <2>4, <2>5
<1>2. CASE ~ \E i \in DOMAIN b : b[i].id = d
  <2>1. \A i \in DOMAIN b : b[i].id # d
    BY <1>2
  <2>2. \A j \in DOMAIN x : x[j].id # d
    BY <2>1 DEF Finds
  <2>3. FindUncomplete(q, d) = <<>>
    BY ONLY QueueOK(q), d \in Conn, b = q.hash[HashFd(d)], <2>1, FindNot
  <2>4. FindUncomplete(p, d) = <<>>
    BY ONLY QueueOK(p), d \in Conn, x = p.hash[HashFd(d)], <2>2, FindNot
  <2> QED
    BY <2>3, <2>4
<1> QED
  BY <1>1, <1>2

HashPut(q, h, x) == [q EXCEPT !.hash[h] = x]

LEMMA HashPutIs ==
  ASSUME NEW q, QueueOK(q), NEW h \in 0..(HashSize - 1), NEW x, Bucket(x, h),
         NEW p, p = HashPut(q, h, x)
  PROVE  /\ QueueOK(p) /\ p.cap = q.cap /\ p.head = q.head /\ p.tail = q.tail
         /\ p.ring = q.ring /\ p.hash[h] = x
         /\ \A g \in 0..(HashSize - 1) : g # h => p.hash[g] = q.hash[g]
<1> DEFINE n == q.cap
           a == q.head
           t == q.tail
           f == q.ring
           b == q.hash
           y == [b EXCEPT ![h] = x]
<1>1. /\ n \in Nat \ {0} /\ a \in 0..(n - 1) /\ t \in 0..(n - 1)
      /\ f \in [0..(n - 1) -> Slot] /\ HashTable(b)
      /\ q = [cap |-> n, head |-> a, tail |-> t, ring |-> f, hash |-> b]
  BY DEF QueueOK
<1>2. b \in [0..(HashSize - 1) -> Seq(Uncompletes)] /\ \A g \in 0..(HashSize - 1) : Bucket(b[g], g)
  BY <1>1 DEF HashTable
<1>3. x \in Seq(Uncompletes)
  BY DEF Bucket
<1> HIDE DEF n, a, t, f, b
<1>4. /\ y \in [0..(HashSize - 1) -> Seq(Uncompletes)] /\ y[h] = x
      /\ \A g \in 0..(HashSize - 1) : g # h => y[g] = b[g]
  BY <1>2, <1>3
<1>5. HashTable(y)
  <2> HIDE DEF y
  <2>1. \A g \in 0..(HashSize - 1) : Bucket(y[g], g)
    BY <1>2, <1>4
  <2> QED
    BY <1>4, <2>1 DEF HashTable
<1>6. p = [cap |-> n, head |-> a, tail |-> t, ring |-> f, hash |-> y]
  <2>1. p = [q EXCEPT !.hash = y]
    BY DEF HashPut, b
  <2> HIDE DEF y
  <2> QED
    BY ONLY <1>1, <2>1
<1> HIDE DEF y
<1>7. QueueOK(p) /\ p.cap = n /\ p.head = a /\ p.tail = t /\ p.ring = f /\ p.hash = y
  BY ONLY <1>1, <1>5, <1>6, QueueFields
<1> QED
  BY <1>4, <1>7 DEF n, a, t, f, b

\* Taking one element out of a sequence.
Without(r, s, k) ==
  /\ Len(r) = Len(s) - 1
  /\ \A i \in 1..(Len(s) - 1) : i < k => r[i] = s[i]
  /\ \A i \in 1..(Len(s) - 1) : ~ (i < k) => r[i] = s[i + 1]

LEMMA RemoveIs ==
  ASSUME NEW S, NEW s \in Seq(S), NEW k \in 1..Len(s), NEW r, r = RemoveAt(s, k)
  PROVE  r \in Seq(S) /\ Without(r, s, k)
<1> DEFINE a == k - 1
           n == Len(s)
           p == Part(s, 0, a)
           q == Part(s, k, n)
<1>1. a \in Nat /\ k \in Nat /\ n \in Nat /\ 0 \in Nat /\ 0 <= a /\ a <= Len(s)
      /\ k <= n /\ n <= Len(s) /\ a - 0 = a /\ 0 + 1 = 1 /\ a + (n - k) = n - 1
  OBVIOUS
<1>2. r = p \o q
  BY <1>1 DEF RemoveAt, Part
<1>3. n = Len(s) /\ a = k - 1
  OBVIOUS
<1> HIDE DEF a, n
<1>4. p \in Seq(S) /\ Len(p) = a - 0 /\ \A i \in 1..(a - 0) : p[i] = s[0 + i]
  <2>1. a \in Nat /\ 0 \in Nat /\ 0 <= a /\ a <= Len(s)
    BY <1>1
  <2> QED
    BY ONLY <2>1, s \in Seq(S), PartIs
<1>5. q \in Seq(S) /\ Len(q) = n - k /\ \A i \in 1..(n - k) : q[i] = s[k + i]
  <2>1. k \in Nat /\ n \in Nat /\ k <= n /\ n <= Len(s)
    BY <1>1
  <2> QED
    BY ONLY <2>1, s \in Seq(S), PartIs
<1> HIDE DEF p, q
<1>6. /\ p \o q \in Seq(S) /\ Len(p \o q) = Len(p) + Len(q)
      /\ \A i \in 1..(Len(p) + Len(q)) : (p \o q)[i] = IF i <= Len(p) THEN p[i] ELSE q[i - Len(p)]
  BY ONLY <1>4, <1>5, ConcatProperties
<1>7. Len(p) = a /\ Len(q) = n - k
  BY <1>1, <1>4, <1>5
<1>8. ASSUME NEW i \in 1..(n - 1) PROVE r[i] = s[IF i < k THEN i ELSE i + 1]
  <2>1. i \in 1..(a + (n - k))
    BY <1>1
  <2>2. r[i] = IF i <= a THEN p[i] ELSE q[i - a]
    BY <1>2, <1>6, <1>7, <2>1
  <2>3. CASE i <= a
    <3>1. i \in 1..(a - 0) /\ 0 + i = i /\ i < k
      BY <1>1, <1>3, <2>3
    <3> QED
      BY <1>4, <2>2, <2>3, <3>1
  <2>4. CASE ~ (i <= a)
    <3>1. i - a \in 1..(n - k) /\ k + (i - a) = i + 1 /\ ~ (i < k)
      BY <1>1, <1>3, <2>4
    <3>2. q[i - a] = s[k + (i - a)]
      BY <1>5, <3>1
    <3> QED
      BY <2>2, <2>4, <3>1, <3>2
  <2> QED
    BY <2>3, <2>4
<1> QED
  BY <1>1, <1>2, <1>3, <1>6, <1>7, <1>8 DEF Without

\* The entries of the other clients in bucket b are in bucket x.
Covers(x, b, c) == \A i \in DOMAIN b : b[i].id # c => \E j \in DOMAIN x : x[j] = b[i]

\* A queue of which one bucket was changed: the other clients keep what they
\* had if the bucket keeps it.
LEMMA PutKeeps ==
  ASSUME NEW q, QueueOK(q), NEW c \in Conn, NEW b, b = q.hash[HashFd(c)],
         NEW x, Bucket(x, HashFd(c)), NEW p, p = HashPut(q, HashFd(c), x),
         Covers(x, b, c), Covers(b, x, c)
  PROVE  OthersKept(p, q, c)
<1> SUFFICES ASSUME NEW d \in Conn, d # c PROVE FindUncomplete(p, d) = FindUncomplete(q, d)
  BY DEF OthersKept
<1> DEFINE h == HashFd(c)
           g == HashFd(d)
           s == q.hash[HashFd(d)]
           y == p.hash[HashFd(d)]
<1>1. h \in 0..(HashSize - 1) /\ g \in 0..(HashSize - 1)
  BY HashFdIs
<1>2. /\ QueueOK(p) /\ p.hash[h] = x
      /\ \A k \in 0..(HashSize - 1) : k # h => p.hash[k] = q.hash[k]
  <2>1. p = HashPut(q, h, x) /\ Bucket(x, h)
    OBVIOUS
  <2> HIDE DEF h
  <2> QED
    BY ONLY <1>1, <2>1, QueueOK(q), HashPutIs
<1>3. Finds(y, s, d) /\ Finds(s, y, d)
  <2>1. CASE g = h
    <3>1. s = b /\ y = x
      BY <1>2, <2>1
    <3> QED
      BY <3>1 DEF Covers, Finds
  <2>2. CASE g # h
    <3>1. y = s
      BY <1>1, <1>2, <2>2
    <3> HIDE DEF s, y
    <3> QED
      BY <3>1 DEF Finds
  <2> QED
    BY <2>1, <2>2
<1>4. s = q.hash[HashFd(d)] /\ y = p.hash[HashFd(d)]
  OBVIOUS
<1> HIDE DEF s, y
<1> QED
  BY ONLY <1>2, <1>3, <1>4, QueueOK(q), d \in Conn, FindBy

LEMMA UnlinkedHas ==
  ASSUME NEW q, QueueOK(q), NEW c \in Conn, NEW b, b = q.hash[HashFd(c)],
         NEW i \in DOMAIN b, b[i].id = c, NEW p, p = Unlinked(q, c)
  PROVE  /\ QueueOK(p) /\ p.head = q.head /\ p.tail = q.tail
         /\ FindUncomplete(p, c) = <<>> /\ OthersKept(p, q, c)
<1> DEFINE h == HashFd(c)
           x == RemoveAt(b, i)
<1>1. /\ h \in 0..(HashSize - 1) /\ b \in Seq(Uncompletes) /\ Bucket(b, h)
      /\ Places(q, c) = {i} /\ Min(Places(q, c)) = i
      /\ \A k, j \in DOMAIN b : b[k].id = b[j].id => k = j
  <2>1. h \in 0..(HashSize - 1) /\ b \in Seq(Uncompletes) /\ Bucket(b, h)
    BY FindBucket
  <2>2. Places(q, c) = {i} /\ Min(Places(q, c)) = i
    BY FindPlaces
  <2> QED
    BY <2>1, <2>2 DEF Bucket
<1>2. p = HashPut(q, h, x)
  BY <1>1 DEF Unlinked, HashPut
<1>3. DOMAIN b = 1..Len(b) /\ i \in 1..Len(b) /\ Len(b) \in Nat
  BY <1>1
<1>4. /\ x \in Seq(Uncompletes) /\ Len(x) = Len(b) - 1
      /\ \A j \in 1..(Len(b) - 1) : j < i => x[j] = b[j]
      /\ \A j \in 1..(Len(b) - 1) : ~ (j < i) => x[j] = b[j + 1]
  <2>1. x = RemoveAt(b, i)
    OBVIOUS
  <2> HIDE DEF x
  <2> QED
    <3>1. b \in Seq(Uncompletes) /\ i \in 1..Len(b)
      BY <1>1, <1>3
    <3>2. x \in Seq(Uncompletes) /\ Without(x, b, i)
      BY ONLY <2>1, <3>1, RemoveIs
    <3> QED
      BY <3>2 DEF Without
<1> HIDE DEF x
<1>5. DOMAIN x = 1..(Len(b) - 1)
  BY <1>3, <1>4
<1> DEFINE at(j) == IF j < i THEN j ELSE j + 1
<1>6. ASSUME NEW j \in DOMAIN x PROVE at(j) \in DOMAIN b /\ at(j) # i /\ x[j] = b[at(j)]
  BY <1>3, <1>4, <1>5
<1>7. ASSUME NEW k \in DOMAIN b, k # i PROVE \E j \in DOMAIN x : x[j] = b[k]
  <2> DEFINE j == IF k < i THEN k ELSE k - 1
  <2>1. j \in DOMAIN x /\ at(j) = k
    BY <1>3, <1>5, <1>7
  <2>2. x[j] = b[k]
    BY <1>6, <2>1
  <2> QED
    BY <2>1, <2>2
<1>8. \A j \in DOMAIN x : x[j].id # c
  BY <1>1, <1>6
<1>9. Bucket(x, h)
  <2>1. \A j \in DOMAIN x : HashFd(x[j].id) = h
    BY <1>1, <1>6 DEF Bucket
  <2>2. \A j, k \in DOMAIN x : x[j].id = x[k].id => j = k
    <3> SUFFICES ASSUME NEW j \in DOMAIN x, NEW k \in DOMAIN x, x[j].id = x[k].id PROVE j = k
      OBVIOUS
    <3>1. at(j) = at(k)
      BY <1>1, <1>6
    <3>2. j \in Nat /\ k \in Nat /\ i \in Nat
      BY <1>3, <1>5
    <3> QED
      BY <3>1, <3>2
  <2> QED
    BY <1>4, <2>1, <2>2 DEF Bucket
<1>10. OthersKept(p, q, c)
  <2>1. Covers(x, b, c)
    BY <1>7 DEF Covers
  <2>2. Covers(b, x, c)
    BY <1>6 DEF Covers
  <2>3. p = HashPut(q, HashFd(c), x) /\ Bucket(x, HashFd(c))
    BY <1>2, <1>9
  <2> QED
    BY ONLY QueueOK(q), c \in Conn, b = q.hash[HashFd(c)], <2>1, <2>2, <2>3, PutKeeps
<1> HIDE DEF h
<1>11. /\ QueueOK(p) /\ p.head = q.head /\ p.tail = q.tail /\ p.hash[h] = x
  BY ONLY <1>1, <1>2, <1>9, QueueOK(q), HashPutIs
<1>12. FindUncomplete(p, c) = <<>>
  <2>1. x = p.hash[HashFd(c)]
    BY <1>11 DEF h
  <2> QED
    BY ONLY <1>8, <1>11, <2>1, c \in Conn, FindNot
<1> QED
  BY <1>10, <1>11, <1>12

\* close_uncomplete, and the start of the filter: nothing is kept of the
\* client any more.
LEMMA UnlinkedIs ==
  ASSUME NEW q, Resting(q), NEW c \in Conn, NEW p, p = Unlinked(q, c)
  PROVE  Resting(p) /\ FindUncomplete(p, c) = <<>> /\ OthersKept(p, q, c)
<1>1. CASE q = NoQueue
  <2>1. p = q
    BY <1>1 DEF Unlinked, Places
  <2> QED
    BY <1>1, <2>1, FindNone DEF OthersKept
<1>2. CASE QueueOK(q) /\ q.head = q.tail
  <2> DEFINE b == q.hash[HashFd(c)]
  <2>1. CASE \E i \in DOMAIN b : b[i].id = c
    <3>1. PICK i \in DOMAIN b : b[i].id = c
      BY <2>1
    <3>2. b = q.hash[HashFd(c)]
      OBVIOUS
    <3> HIDE DEF b
    <3>3. /\ QueueOK(p) /\ p.head = q.head /\ p.tail = q.tail
          /\ FindUncomplete(p, c) = <<>> /\ OthersKept(p, q, c)
      BY <1>2, <3>1, <3>2, UnlinkedHas
    <3> QED
      BY <1>2, <3>3 DEF Resting
  <2>2. CASE ~ \E i \in DOMAIN b : b[i].id = c
    <3>1. FindUncomplete(q, c) = <<>> /\ Places(q, c) = {}
      BY <1>2, <2>2, FindIs
    <3>2. p = q
      BY <3>1 DEF Unlinked
    <3> QED
      BY <3>1, <3>2 DEF OthersKept
  <2> QED
    BY <2>1, <2>2
<1> QED
  BY <1>1, <1>2 DEF Resting

\* Keeping the remainder of a client of which nothing was kept.
LEMMA SaveIs ==
  ASSUME NEW q, NEW c \in Conn, NEW w, w = GetQueue(q), QueueOK(w),
         FindUncomplete(w, c) = <<>>,
         NEW u \in Uncompletes, u.id = c, NEW p, p = SaveUncomplete(q, u)
  PROVE  /\ QueueOK(p) /\ p.cap = w.cap /\ p.head = w.head /\ p.tail = w.tail
         /\ p.ring = w.ring
         /\ FindUncomplete(p, c) = <<u>> /\ OthersKept(p, w, c)
<1> DEFINE h == HashFd(c)
           b == w.hash[h]
           x == <<u>> \o b
<1>1. h \in 0..(HashSize - 1) /\ b \in Seq(Uncompletes) /\ Bucket(b, h)
  BY FindBucket
<1>2. \A i \in DOMAIN b : b[i].id # c
  <2> SUFFICES ASSUME NEW i \in DOMAIN b, b[i].id = c PROVE FALSE
    OBVIOUS
  <2> DEFINE e == b[i]
  <2>1. e = b[i] /\ e.id = c /\ b = w.hash[HashFd(c)]
    OBVIOUS
  <2> HIDE DEF e, b
  <2>2. FindUncomplete(w, c) = <<e>>
    BY ONLY QueueOK(w), c \in Conn, i \in DOMAIN b, <2>1, FindHas
  <2> QED
    BY <2>2
<1>3. p = HashPut(w, h, x)
  BY DEF SaveUncomplete, HashPut
<1>4. b = w.hash[HashFd(c)]
  OBVIOUS
<1> DEFINE v == <<u>>
<1>5. v \in Seq(Uncompletes) /\ Len(v) = 1 /\ v[1] = u
  OBVIOUS
<1>6. DOMAIN b = 1..Len(b) /\ Len(b) \in Nat
  BY <1>1
<1>7. x = v \o b
  OBVIOUS
<1> HIDE DEF b, v, x
<1>8. /\ x \in Seq(Uncompletes) /\ Len(x) = 1 + Len(b)
      /\ \A i \in 1..(1 + Len(b)) : x[i] = IF i <= 1 THEN v[i] ELSE b[i - 1]
  <2>1. /\ v \o b \in Seq(Uncompletes) /\ Len(v \o b) = Len(v) + Len(b)
        /\ \A i \in 1..(Len(v) + Len(b)) :
             (v \o b)[i] = IF i <= Len(v) THEN v[i] ELSE b[i - Len(v)]
    BY ONLY <1>1, <1>5, ConcatProperties
  <2> QED
    BY <1>5, <1>7, <2>1
<1>9. /\ DOMAIN x = 1..(1 + Len(b)) /\ 1 \in DOMAIN x /\ x[1] = u
      /\ \A i \in DOMAIN x : i # 1 => i - 1 \in DOMAIN b /\ x[i] = b[i - 1]
      /\ \A i \in DOMAIN b : i + 1 \in DOMAIN x /\ x[i + 1] = b[i]
  <2>1. DOMAIN x = 1..(1 + Len(b))
    BY <1>8
  <2>2. 1 \in DOMAIN x /\ x[1] = u
    BY <1>5, <1>6, <1>8, <2>1
  <2>3. ASSUME NEW i \in DOMAIN x, i # 1 PROVE i - 1 \in DOMAIN b /\ x[i] = b[i - 1]
    <3>1. i \in 1..(1 + Len(b)) /\ ~ (i <= 1) /\ i - 1 \in DOMAIN b
      BY <1>6, <2>1, <2>3
    <3> QED
      BY <1>8, <3>1
  <2>4. ASSUME NEW i \in DOMAIN b PROVE i + 1 \in DOMAIN x /\ x[i + 1] = b[i]
    <3>1. i + 1 \in 1..(1 + Len(b)) /\ ~ (i + 1 <= 1) /\ (i + 1) - 1 = i
      BY <1>6
    <3> QED
      BY <1>8, <2>1, <3>1
  <2> QED
    BY <2>1, <2>2, <2>3, <2>4
<1>10. Bucket(x, h)
  <2>1. \A i \in DOMAIN x : HashFd(x[i].id) = h
    BY <1>1, <1>9 DEF Bucket
  <2>2. \A i, j \in DOMAIN x : x[i].id = x[j].id => i = j
    <3> SUFFICES ASSUME NEW i \in DOMAIN x, NEW j \in DOMAIN x, x[i].id = x[j].id PROVE i = j
      OBVIOUS
    <3>1. CASE i = 1
      BY <1>2, <1>9, <3>1
    <3>2. CASE j = 1
      BY <1>2, <1>9, <3>2
    <3>3. CASE i # 1 /\ j # 1
      <4>1. i - 1 = j - 1
        BY <1>1, <1>9, <3>3 DEF Bucket
      <4>2. i \in Nat /\ j \in Nat
        BY <1>6, <1>9
      <4> QED
        BY <4>1, <4>2
    <3> QED
      BY <3>1, <3>2, <3>3
  <2> QED
    BY <1>8, <2>1, <2>2 DEF Bucket
<1>11. OthersKept(p, w, c)
  <2>1. Covers(x, b, c)
    BY <1>9 DEF Covers
  <2>2. Covers(b, x, c)
    <3>1. ASSUME NEW j \in DOMAIN x, x[j].id # c PROVE \E i \in DOMAIN b : b[i] = x[j]
      <4>1. j # 1
        BY <1>9, <3>1
      <4> QED
        BY <1>9, <4>1
    <3> QED
      BY <3>1 DEF Covers
  <2>3. p = HashPut(w, HashFd(c), x) /\ Bucket(x, HashFd(c))
    BY <1>3, <1>10
  <2> QED
    BY ONLY QueueOK(w), c \in Conn, <1>4, <2>1, <2>2, <2>3, PutKeeps
<1> HIDE DEF h
<1>12. /\ QueueOK(p) /\ p.cap = w.cap /\ p.head = w.head /\ p.tail = w.tail
       /\ p.ring = w.ring /\ p.hash[h] = x
  BY ONLY <1>1, <1>3, <1>10, QueueOK(w), HashPutIs
<1>13. FindUncomplete(p, c) = <<u>>
  <2>1. x = p.hash[HashFd(c)]
    BY <1>12 DEF h
  <2>2. 1 \in DOMAIN x /\ u = x[1] /\ u.id = c
    BY <1>9
  <2> QED
    BY ONLY <1>12, <2>1, <2>2, c \in Conn, FindHas
<1> QED
  BY <1>11, <1>12, <1>13
-----------------------------------------------------------------------------
(* filter_data_                                                            *)

KeepOK(c, keep) == keep = <<>> \/ \E u \in Uncompletes : u.id = c /\ keep = <<u>>

LEMMA PoppedSame ==
  ASSUME NEW p, NEW q, p.cap = q.cap, p.head = q.head, p.tail = q.tail, p.ring = q.ring
  PROVE  Popped(p) = Popped(q)
BY DEF Popped

LEMMA OthersTrans ==
  ASSUME NEW c, NEW p, NEW q, NEW r, OthersKept(p, q, c), OthersKept(q, r, c)
  PROVE  OthersKept(p, r, c)
BY DEF OthersKept

\* Storing what is left of a client in a queue in which nothing is kept of it.
LEMMA StoredIs ==
  ASSUME NEW q, NEW c \in Conn, Resting(q) \/ QueueOK(q), FindUncomplete(q, c) = <<>>,
         NEW keep, KeepOK(c, keep),
         NEW p, p = IF keep = <<>> THEN q ELSE SaveUncomplete(q, keep[1])
  PROVE  /\ FindUncomplete(p, c) = keep /\ OthersKept(p, q, c)
         /\ Resting(q) => Resting(p)
         /\ QueueOK(q) => QueueOK(p) /\ Popped(p) = Popped(q)
<1>1. CASE keep = <<>>
  BY <1>1 DEF OthersKept
<1>2. CASE keep # <<>>
  <2>1. PICK u \in Uncompletes : u.id = c /\ keep = <<u>>
    BY <1>2 DEF KeepOK
  <2>2. p = SaveUncomplete(q, u)
    BY <2>1
  <2> DEFINE w == GetQueue(q)
  <2>3. /\ QueueOK(w) /\ (Resting(q) => w.head = w.tail) /\ (QueueOK(q) => w = q)
        /\ \A d \in Conn : FindUncomplete(w, d) = FindUncomplete(q, d)
    <3>1. CASE Resting(q)
      <4>1. QueueOK(w) /\ w.head = w.tail
        BY <3>1, RestingIs
      <4>2. \A d \in Conn : FindUncomplete(w, d) = FindUncomplete(q, d)
        BY <3>1, FindGet
      <4>3. QueueOK(q) => w = q
        BY GetQueueIs
      <4> QED
        BY <4>1, <4>2, <4>3
    <3>2. CASE QueueOK(q) /\ ~ Resting(q)
      BY <3>2, GetQueueIs
    <3> QED
      BY <3>1, <3>2
  <2>4. w = GetQueue(q) /\ FindUncomplete(w, c) = <<>>
    BY <2>3
  <2> HIDE DEF w
  <2>5. /\ QueueOK(p) /\ p.cap = w.cap /\ p.head = w.head /\ p.tail = w.tail
        /\ p.ring = w.ring
        /\ FindUncomplete(p, c) = <<u>> /\ OthersKept(p, w, c)
    <3>1. u.id = c
      BY <2>1
    <3>2. QueueOK(w)
      BY <2>3
    <3> QED
      BY ONLY <2>2, <2>4, <3>1, <3>2, c \in Conn, u \in Uncompletes, SaveIs
  <2>6. OthersKept(p, q, c)
    BY <2>3, <2>5 DEF OthersKept
  <2>7. Resting(q) => Resting(p)
    BY <2>3, <2>5 DEF Resting
  <2>8. QueueOK(q) => Popped(p) = Popped(q)
    BY <2>3, <2>5, PoppedSame
  <2> QED
    BY <2>1, <2>5, <2>6, <2>7, <2>8
<1> QED
  BY <1>1, <1>2

\* The three results of the filter.
LEMMA FilteredIs ==
  ASSUME NEW q, Resting(q), NEW c \in Conn, NEW b,
         NEW packs, packs = Completed(q, c, b).packs, packs \in Seq(Seq(Byte)),
         NEW keep, keep = Completed(q, c, b).keep, KeepOK(c, keep),
         NEW r, r = Filtered(q, c, b)
  PROVE  /\ r.type \in {"nil", "data", "more"}
         /\ FindUncomplete(r.q, c) = keep /\ OthersKept(r.q, q, c)
         /\ r.type = "data" => Resting(r.q) /\ packs = <<r.msg>>
         /\ r.type = "nil" => Resting(r.q) /\ packs = <<>>
         /\ r.type = "more" => QueueOK(r.q) /\ Popped(r.q) = Entries(c, packs)
<1> DEFINE v == Unlinked(q, c)
           pushed == PushAll(v, c, packs)
           stored == IF keep = <<>> THEN pushed ELSE SaveUncomplete(pushed, keep[1])
           single == Len(packs) = 1 /\ keep = <<>>
<1>1. Resting(v) /\ FindUncomplete(v, c) = <<>> /\ OthersKept(v, q, c)
  BY UnlinkedIs
<1>2. r = IF single THEN [type |-> "data", q |-> v, msg |-> packs[1]]
          ELSE IF packs = <<>> THEN [type |-> "nil", q |-> stored, msg |-> <<>>]
          ELSE [type |-> "more", q |-> stored, msg |-> <<>>]
  BY DEF Filtered
<1>3. pushed = PushAll(v, c, packs)
  OBVIOUS
<1>4. stored = IF keep = <<>> THEN pushed ELSE SaveUncomplete(pushed, keep[1])
  OBVIOUS
<1> HIDE DEF v, pushed, stored
<1>5. /\ packs = <<>> => pushed = v
      /\ packs # <<>> => /\ QueueOK(pushed) /\ pushed.hash = GetQueue(v).hash
                         /\ Popped(pushed) = Entries(c, packs)
  BY <1>1, <1>3, PushAllIs
<1>6. CASE single
  <2>1. r = [type |-> "data", q |-> v, msg |-> packs[1]]
    BY <1>2, <1>6
  <2>2. r.type = "data" /\ r.q = v /\ r.msg = packs[1]
    BY ONLY <2>1
  <2>3. packs = <<packs[1]>>
    BY <1>6
  <2> QED
    BY <1>1, <1>6, <2>2, <2>3
<1>7. CASE ~ single /\ packs = <<>>
  <2>1. r = [type |-> "nil", q |-> stored, msg |-> <<>>]
    BY <1>2, <1>7
  <2>2. r.type = "nil" /\ r.q = stored
    BY ONLY <2>1
  <2>3. pushed = v
    BY <1>5, <1>7
  <2>4. stored = IF keep = <<>> THEN v ELSE SaveUncomplete(v, keep[1])
    BY <1>4, <2>3
  <2>5. FindUncomplete(stored, c) = keep /\ OthersKept(stored, v, c) /\ Resting(stored)
    <3>1. Resting(v) /\ FindUncomplete(v, c) = <<>>
      BY <1>1
    <3> QED
      BY ONLY <2>4, <3>1, c \in Conn, KeepOK(c, keep), StoredIs
  <2>6. OthersKept(stored, q, c)
    BY <1>1, <2>5, OthersTrans
  <2> QED
    BY <1>7, <2>2, <2>5, <2>6
<1>8. CASE ~ single /\ packs # <<>>
  <2>1. r = [type |-> "more", q |-> stored, msg |-> <<>>]
    BY <1>2, <1>8
  <2>2. r.type = "more" /\ r.q = stored
    BY ONLY <2>1
  <2>3. QueueOK(pushed) /\ pushed.hash = GetQueue(v).hash /\ Popped(pushed) = Entries(c, packs)
    BY <1>5, <1>8
  <2>4. QueueOK(GetQueue(v))
    BY <1>1, RestingIs
  <2>5. \A d \in Conn : FindUncomplete(pushed, d) = FindUncomplete(v, d)
    <3>1. \A d : FindUncomplete(pushed, d) = FindUncomplete(GetQueue(v), d)
      BY <2>3, <2>4, FindSame
    <3>2. \A d \in Conn : FindUncomplete(GetQueue(v), d) = FindUncomplete(v, d)
      BY <1>1, FindGet
    <3> QED
      BY <3>1, <3>2
  <2>6. FindUncomplete(pushed, c) = <<>> /\ OthersKept(pushed, v, c)
    BY <1>1, <2>5 DEF OthersKept
  <2>7. /\ FindUncomplete(stored, c) = keep /\ OthersKept(stored, pushed, c)
        /\ QueueOK(stored) /\ Popped(stored) = Popped(pushed)
    <3>1. QueueOK(pushed) /\ FindUncomplete(pushed, c) = <<>>
      BY <2>3, <2>6
    <3> QED
      BY ONLY <1>4, <3>1, c \in Conn, KeepOK(c, keep), StoredIs
  <2>8. OthersKept(stored, q, c)
    <3>1. OthersKept(stored, v, c)
      BY <2>6, <2>7, OthersTrans
    <3> QED
      BY <1>1, <3>1, OthersTrans
  <2> QED
    BY <2>2, <2>3, <2>7, <2>8
<1> QED
  BY <1>6, <1>7, <1>8

\* The dispatch empties the ring and leaves the hash table.
LEMMA AllPoppedIs ==
  ASSUME NEW q, QueueOK(q), NEW p, p = AllPopped(q)
  PROVE  Resting(p) /\ \A d : FindUncomplete(p, d) = FindUncomplete(q, d)
<1> DEFINE n == q.cap
           h == q.head
           t == q.tail
           f == q.ring
           b == q.hash
<1>1. /\ n \in Nat \ {0} /\ h \in 0..(n - 1) /\ t \in 0..(n - 1)
      /\ f \in [0..(n - 1) -> Slot] /\ HashTable(b)
      /\ q = [cap |-> n, head |-> h, tail |-> t, ring |-> f, hash |-> b]
  BY DEF QueueOK
<1>2. p = [q EXCEPT !.head = t]
  BY DEF AllPopped
<1> HIDE DEF n, h, t, f, b
<1>3. p = [cap |-> n, head |-> t, tail |-> t, ring |-> f, hash |-> b]
  BY ONLY <1>1, <1>2
<1>4. QueueOK(p) /\ p.head = t /\ p.tail = t /\ p.hash = b
  BY ONLY <1>1, <1>3, QueueFields
<1>5. \A d : FindUncomplete(p, d) = FindUncomplete(q, d)
  BY <1>4, FindSame DEF b
<1> QED
  BY <1>4, <1>5 DEF Resting

\* What is kept of a client is an entry of the hash table.
LEMMA KeepIs ==
  ASSUME NEW z \in Lens, NEW k, NEW h, Have(z, k, h), NEW c \in Conn
  PROVE  KeepOK(c, Keep(c, z, k, h))
<1> DEFINE S == StreamOf(z, Packages)
           o == Off(z, k)
           x == o + 2
           u == Kept(c, Part(S, o, h))
<1>1. /\ k \in Nat /\ k <= Packages /\ h \in Nat /\ Packages \in Nat
      /\ o \in Nat /\ o <= h /\ h <= Len(S) /\ S \in Seq(Byte)
  BY HaveBounds
<1>2. CASE h = o
  BY <1>2 DEF Keep, KeepOK
<1>3. CASE h # o
  <2>1. Keep(c, z, k, h) = <<u>>
    BY <1>3 DEF Keep
  <2>2. o < h /\ u = Kept(c, Part(S, o, h))
    BY <1>1, <1>3
  <2> HIDE DEF S, o, u
  <2>3. u \in Uncompletes /\ u.id = c
    <3>1. CASE h = o + 1
      <4>1. u = Uncomplete(c, -1, 0, Part(S, o, h))
        BY ONLY <1>1, <2>2, <3>1, KeptIs
      <4>2. Part(S, o, h) \in Seq(Byte)
        BY ONLY <1>1, PartIs
      <4> DEFINE d == Part(S, o, h)
      <4> HIDE DEF d
      <4>3. u = [id |-> c, read |-> -1, size |-> 0, data |-> d] /\ d \in Seq(Byte)
        BY <4>1, <4>2 DEF Uncomplete, d
      <4> QED
        BY ONLY <4>3, c \in Conn DEF Uncompletes
    <3>2. CASE h # o + 1
      <4>1. x \in Nat /\ x <= h /\ o + 2 <= h /\ h - x \in Nat
        BY ONLY <1>1, <2>2, <3>2
      <4>2. u = Uncomplete(c, h - x, ReadSize(S[o + 1], S[o + 2]), Part(S, x, h))
        BY ONLY <1>1, <2>2, <4>1, KeptIs
      <4>3. ReadSize(S[o + 1], S[o + 2]) \in Nat
        <5>1. o + 1 \in 1..Len(S) /\ o + 2 \in 1..Len(S)
          BY ONLY <1>1, <4>1
        <5>2. S[o + 1] \in Byte /\ S[o + 2] \in Byte
          BY <1>1, <5>1
        <5> QED
          BY <5>2, ReadIs
      <4> HIDE DEF x
      <4>4. Part(S, x, h) \in Seq(Byte)
        BY ONLY <1>1, <4>1, PartIs
      <4> DEFINE d == Part(S, x, h)
                 s == ReadSize(S[o + 1], S[o + 2])
                 e == h - x
      <4> HIDE DEF d, s, e
      <4>5. /\ u = [id |-> c, read |-> e, size |-> s, data |-> d]
            /\ d \in Seq(Byte) /\ s \in Nat /\ e \in Int
        BY <4>1, <4>2, <4>3, <4>4 DEF Uncomplete, d, s, e
      <4> QED
        BY ONLY <4>5, c \in Conn DEF Uncompletes
    <3> QED
      BY <3>1, <3>2
  <2> QED
    BY <2>1, <2>3 DEF KeepOK
<1> QED
  BY <1>2, <1>3
-----------------------------------------------------------------------------
(* The invariant, with the lemmas' words.                                  *)

\* The part of one client.
ConnInv(c) ==
  /\ phase[c] = "new" => got[c] = 0
  /\ \E m \in 0..Packages :
       /\ Have(sizes[c], m, got[c])
       /\ handed[c] = Part(Whole(sizes[c]), 0, m)
       /\ FindUncomplete(queue, c) =
            IF phase[c] = "open" THEN Keep(c, sizes[c], m, got[c]) ELSE <<>>

Typed ==
  /\ sizes \in [Conn -> Lens]
  /\ phase \in [Conn -> {"new", "open", "closed"}]
  /\ got \in [Conn -> Nat]
  /\ handed \in [Conn -> Seq(Seq(Byte))]
  /\ Resting(queue)

LEMMA Same ==
  ASSUME NEW c
  PROVE  /\ Stream(c) = StreamOf(sizes[c], Packages)
         /\ Bodies(c) = Whole(sizes[c])
         /\ \A n : Upto(c, n) = Off(sizes[c], n)
         /\ \A m : Remainder(c, m) = Keep(c, sizes[c], m, got[c])
<1>1. Stream(c) = StreamOf(sizes[c], Packages)
  BY DEF Stream, StreamOf
<1>2. Bodies(c) = Whole(sizes[c])
  BY DEF Bodies, Whole
<1>3. \A n : Upto(c, n) = Off(sizes[c], n)
  BY DEF Upto, Off, StreamOf
<1>4. \A m : Remainder(c, m) = Keep(c, sizes[c], m, got[c])
  <2> TAKE m
  <2>1. Upto(c, m) = Off(sizes[c], m)
    BY <1>3
  <2> QED
    BY <1>1, <2>1 DEF Remainder, Keep, Part
<1> QED
  BY <1>1, <1>2, <1>3, <1>4

LEMMA StreamLen ==
  ASSUME NEW c
  PROVE  Len(Stream(c)) = Off(sizes[c], Packages)
BY Same DEF Off

LEMMA ToConn ==
  ASSUME NetpackInv
  PROVE  Typed /\ \A c \in Conn : ConnInv(c)
<1>1. Typed
  <2>1. sizes \in [Conn -> Lens] /\ phase \in [Conn -> {"new", "open", "closed"}]
    BY DEF NetpackInv, TypeOK, Lens
  <2>2. got \in [Conn -> Nat] /\ handed \in [Conn -> Seq(Seq(Byte))]
    BY DEF NetpackInv
  <2>3. Resting(queue)
    BY DEF NetpackInv, TypeOK, Resting
  <2> QED
    BY <2>1, <2>2, <2>3 DEF Typed
<1>2. ASSUME NEW c \in Conn PROVE ConnInv(c)
  <2>1. got[c] \in 0..Off(sizes[c], Packages)
    BY StreamLen DEF NetpackInv, TypeOK
  <2>2. phase[c] = "new" => got[c] = 0
    BY DEF NetpackInv
  <2>3. PICK m \in 0..Packages :
          /\ Arrived(c, m)
          /\ handed[c] = SubSeq(Bodies(c), 1, m)
          /\ FindUncomplete(queue, c) = IF phase[c] = "open" THEN Remainder(c, m) ELSE <<>>
    BY DEF NetpackInv
  <2>4. Have(sizes[c], m, got[c])
    BY <2>1, <2>3, Same DEF Arrived, Have
  <2>5. handed[c] = Part(Whole(sizes[c]), 0, m)
    <3>1. 0 + 1 = 1
      OBVIOUS
    <3> QED
      BY <2>3, <3>1, Same DEF Part
  <2>6. FindUncomplete(queue, c) =
          IF phase[c] = "open" THEN Keep(c, sizes[c], m, got[c]) ELSE <<>>
    BY <2>3, Same
  <2> QED
    BY <2>2, <2>4, <2>5, <2>6 DEF ConnInv
<1> QED
  BY <1>1, <1>2

LEMMA FromConn ==
  ASSUME Typed, \A c \in Conn : ConnInv(c)
  PROVE  NetpackInv
<1>1. ASSUME NEW c \in Conn
      PROVE  /\ got[c] \in 0..Len(Stream(c))
             /\ phase[c] = "new" => got[c] = 0
             /\ \E m \in 0..Packages :
                  /\ Arrived(c, m)
                  /\ handed[c] = SubSeq(Bodies(c), 1, m)
                  /\ FindUncomplete(queue, c) =
                       IF phase[c] = "open" THEN Remainder(c, m) ELSE <<>>
  <2>1. PICK m \in 0..Packages :
          /\ Have(sizes[c], m, got[c])
          /\ handed[c] = Part(Whole(sizes[c]), 0, m)
          /\ FindUncomplete(queue, c) =
               IF phase[c] = "open" THEN Keep(c, sizes[c], m, got[c]) ELSE <<>>
    BY DEF ConnInv
  <2>2. got[c] \in 0..Len(Stream(c))
    BY <2>1, StreamLen DEF Have
  <2>3. Arrived(c, m)
    BY <2>1, Same DEF Arrived, Have
  <2>4. handed[c] = SubSeq(Bodies(c), 1, m)
    <3>1. 0 + 1 = 1
      OBVIOUS
    <3> QED
      BY <2>1, <3>1, Same DEF Part
  <2>5. FindUncomplete(queue, c) = IF phase[c] = "open" THEN Remainder(c, m) ELSE <<>>
    BY <2>1, Same
  <2>6. phase[c] = "new" => got[c] = 0
    BY DEF ConnInv
  <2> QED
    BY <2>2, <2>3, <2>4, <2>5, <2>6
<1>2. queue # NoQueue => QueueOK(queue) /\ queue.head = queue.tail
  BY DEF Typed, Resting
<1>3. TypeOK
  <2>1. sizes \in [Conn -> [1..Packages -> Size]] /\ phase \in [Conn -> {"new", "open", "closed"}]
    BY DEF Typed, Lens
  <2>2. \A c \in Conn : got[c] \in 0..Len(Stream(c))
    BY <1>1
  <2>3. \A c \in Conn : handed[c] \in Seq(Seq(Byte))
    BY DEF Typed
  <2>4. queue # NoQueue =>
          /\ DOMAIN queue.ring = 0..(queue.cap - 1)
          /\ queue.head \in 0..(queue.cap - 1)
          /\ queue.tail = queue.head
    BY <1>2 DEF QueueOK
  <2> QED
    BY <2>1, <2>2, <2>3, <2>4 DEF TypeOK
<1>4. got \in [Conn -> Nat] /\ handed \in [Conn -> Seq(Seq(Byte))]
  BY DEF Typed
<1> QED
  BY <1>1, <1>2, <1>3, <1>4 DEF NetpackInv

LEMMA InitInv == Init => NetpackInv
<1> SUFFICES ASSUME Init PROVE NetpackInv
  OBVIOUS
<1>1. Typed
  <2>1. <<>> \in Seq(Seq(Byte))
    BY EmptySeq
  <2>2. sizes \in [Conn -> Lens] /\ phase \in [Conn -> {"new", "open", "closed"}]
    BY DEF Init, Lens
  <2>3. got \in [Conn -> Nat] /\ handed \in [Conn -> Seq(Seq(Byte))]
    BY <2>1 DEF Init
  <2>4. Resting(queue)
    BY DEF Init, Resting
  <2> QED
    BY <2>2, <2>3, <2>4 DEF Typed
<1>2. ASSUME NEW c \in Conn PROVE ConnInv(c)
  <2> DEFINE z == sizes[c]
  <2>1. z \in Lens /\ Packages \in Nat
    BY <1>1, NetpackAssumption DEF Typed
  <2>2. got[c] = 0 /\ phase[c] = "new" /\ handed[c] = <<>>
    BY DEF Init
  <2>3. FindUncomplete(queue, c) = <<>>
    BY FindNone DEF Init
  <2> HIDE DEF z
  <2>4. Have(z, 0, 0)
    <3>1. Off(z, 0) = 0 /\ 0 \in 0..Packages /\ Packages \in 0..Packages
      BY <2>1, OffZero
    <3>2. Off(z, Packages) \in Nat
      BY <2>1, <3>1, StreamOfIs
    <3>3. ASSUME 0 < Packages PROVE 0 < Off(z, 0 + 1)
      <4>1. 1 \in 1..Packages /\ 1 - 1 = 0 /\ 0 + 1 = 1
        BY <2>1, <3>3
      <4>2. z[1] \in Nat /\ Off(z, 1) = Off(z, 1 - 1) + z[1] + 2
        BY <2>1, <4>1, OffUp
      <4> QED
        BY <3>1, <4>1, <4>2
    <3> QED
      BY <3>1, <3>2, <3>3 DEF Have
  <2>5. Part(Whole(z), 0, 0) = <<>> /\ 0 \in 0..Packages
    BY <2>1, PartNone
  <2> QED
    BY <2>2, <2>3, <2>4, <2>5 DEF ConnInv, z
<1> QED
  BY <1>1, <1>2, FromConn

\* A client whose part of the state does not change.
LEMMA OtherConn ==
  ASSUME NEW d \in Conn, ConnInv(d), sizes' = sizes,
         got'[d] = got[d], handed'[d] = handed[d],
         phase'[d] = phase[d] \/ (phase[d] = "new" /\ phase'[d] = "open" /\ Typed),
         FindUncomplete(queue', d) = FindUncomplete(queue, d)
  PROVE  ConnInv(d)'
<1>1. PICK m \in 0..Packages :
        /\ Have(sizes[d], m, got[d])
        /\ handed[d] = Part(Whole(sizes[d]), 0, m)
        /\ FindUncomplete(queue, d) =
             IF phase[d] = "open" THEN Keep(d, sizes[d], m, got[d]) ELSE <<>>
  BY DEF ConnInv
<1> DEFINE z == sizes[d]
<1>2. sizes'[d] = z
  OBVIOUS
<1>3. CASE phase'[d] = phase[d]
  <2>1. FindUncomplete(queue', d) =
          IF phase'[d] = "open" THEN Keep(d, z, m, got'[d]) ELSE <<>>
    BY <1>1, <1>3
  <2>2. phase'[d] = "new" => got'[d] = 0
    BY <1>3 DEF ConnInv
  <2>3. Have(z, m, got'[d]) /\ handed'[d] = Part(Whole(z), 0, m)
    BY <1>1
  <2> HIDE DEF z
  <2> QED
    BY <1>2, <2>1, <2>2, <2>3 DEF ConnInv
<1>4. CASE phase[d] = "new" /\ phase'[d] = "open" /\ Typed
  <2>1. got[d] = 0 /\ z \in Lens
    BY <1>4 DEF ConnInv, Typed
  <2>2. FindUncomplete(queue', d) = <<>>
    BY <1>1, <1>4
  <2>3. Have(z, m, got[d])
    BY <1>1
  <2> HIDE DEF z
  <2>4. Off(z, m) \in Nat /\ Off(z, m) <= got[d]
    BY ONLY <2>1, <2>3, HaveBounds
  <2>5. got[d] = Off(z, m)
    BY <2>1, <2>4
  <2>6. Keep(d, z, m, got[d]) = <<>>
    BY <2>5 DEF Keep
  <2>7. handed'[d] = Part(Whole(z), 0, m)
    BY <1>1 DEF z
  <2> QED
    BY <1>2, <1>4, <2>2, <2>3, <2>6, <2>7 DEF ConnInv
<1> QED
  BY <1>3, <1>4

\* A client connects.
LEMMA OpenInv ==
  ASSUME Typed, \A c \in Conn : ConnInv(c), NEW c \in Conn, Open(c)
  PROVE  Typed' /\ \A d \in Conn : ConnInv(d)'
<1>1. /\ phase[c] = "new" /\ phase' = [phase EXCEPT ![c] = "open"]
      /\ sizes' = sizes /\ got' = got /\ queue' = queue /\ handed' = handed
  BY DEF Open
<1>2. Typed'
  <2>1. phase' \in [Conn -> {"new", "open", "closed"}]
    BY <1>1 DEF Typed
  <2> QED
    BY <1>1, <2>1 DEF Typed
<1>3. ASSUME NEW d \in Conn PROVE ConnInv(d)'
  <2>1. phase'[d] = phase[d] \/ (phase[d] = "new" /\ phase'[d] = "open" /\ Typed)
    BY <1>1 DEF Typed
  <2> QED
    BY <1>1, <2>1, OtherConn
<1> QED
  BY <1>2, <1>3

\* The socket of a client closes or fails.
LEMMA CloseInv ==
  ASSUME Typed, \A c \in Conn : ConnInv(c), NEW c \in Conn,
         phase[c] = "open", phase' = [phase EXCEPT ![c] = "closed"],
         queue' = Unlinked(queue, c),
         sizes' = sizes, got' = got, handed' = handed
  PROVE  Typed' /\ \A d \in Conn : ConnInv(d)'
<1>1. /\ Resting(queue') /\ FindUncomplete(queue', c) = <<>>
      /\ OthersKept(queue', queue, c)
  <2>1. Resting(queue)
    BY DEF Typed
  <2> DEFINE p == queue'
  <2>2. p = Unlinked(queue, c)
    OBVIOUS
  <2> HIDE DEF p
  <2>3. Resting(p) /\ FindUncomplete(p, c) = <<>> /\ OthersKept(p, queue, c)
    BY <2>1, <2>2, UnlinkedIs
  <2> QED
    BY <2>3 DEF p
<1>2. Typed'
  <2>1. phase' \in [Conn -> {"new", "open", "closed"}]
    BY DEF Typed
  <2> QED
    BY <1>1, <2>1 DEF Typed
<1>3. ASSUME NEW d \in Conn PROVE ConnInv(d)'
  <2>1. CASE d = c
    <3>1. PICK m \in 0..Packages :
            Have(sizes[c], m, got[c]) /\ handed[c] = Part(Whole(sizes[c]), 0, m)
      BY DEF ConnInv
    <3>2. phase'[c] = "closed" /\ phase'[c] # "new" /\ phase'[c] # "open"
      BY DEF Typed
    <3>3. FindUncomplete(queue', c) = IF phase'[c] = "open"
                                      THEN Keep(c, sizes'[c], m, got'[c]) ELSE <<>>
      BY <1>1, <3>2
    <3> QED
      BY <2>1, <3>1, <3>2, <3>3 DEF ConnInv
  <2>2. CASE d # c
    <3>1. phase'[d] = phase[d]
      BY <2>2 DEF Typed
    <3>2. FindUncomplete(queue', d) = FindUncomplete(queue, d)
      BY <1>1, <2>2 DEF OthersKept
    <3>3. got'[d] = got[d] /\ handed'[d] = handed[d] /\ ConnInv(d)
      OBVIOUS
    <3> QED
      BY <3>1, <3>2, <3>3, OtherConn
  <2> QED
    BY <2>1, <2>2
<1> QED
  BY <1>2, <1>3

-----------------------------------------------------------------------------
(* A client's bytes come.                                                  *)

\* What the dispatch does with a result of the filter.
Dispatch(c, r) ==
  CASE r.type = "nil" -> queue' = Dispatched(r) /\ UNCHANGED handed
    [] r.type = "data" -> /\ queue' = Dispatched(r)
                          /\ handed' = [handed EXCEPT ![c] = Append(@, r.msg)]
    [] r.type = "more" -> /\ queue' = AllPopped(Dispatched(r))
                          /\ handed' = Handed(Popped(Dispatched(r)))

LEMMA DataStep ==
  ASSUME KeepsQueue, Typed, NEW c \in Conn, NEW b,
         NEW packs, packs = Completed(queue, c, b).packs, packs \in Seq(Seq(Byte)),
         NEW keep, keep = Completed(queue, c, b).keep, KeepOK(c, keep),
         NEW r, r = Filtered(queue, c, b), Dispatch(c, r)
  PROVE  /\ Resting(queue') /\ FindUncomplete(queue', c) = keep
         /\ OthersKept(queue', queue, c)
         /\ handed' \in [Conn -> Seq(Seq(Byte))]
         /\ handed'[c] = handed[c] \o packs
         /\ \A d \in Conn : d # c => handed'[d] = handed[d]
<1> DEFINE v == r.q
<1>1. Resting(queue) /\ handed \in [Conn -> Seq(Seq(Byte))]
  BY DEF Typed
<1>2. /\ r.type \in {"nil", "data", "more"}
      /\ FindUncomplete(v, c) = keep /\ OthersKept(v, queue, c)
      /\ r.type = "data" => Resting(v) /\ packs = <<r.msg>>
      /\ r.type = "nil" => Resting(v) /\ packs = <<>>
      /\ r.type = "more" => QueueOK(v) /\ Popped(v) = Entries(c, packs)
  <2>1. /\ Resting(queue) /\ packs = Completed(queue, c, b).packs
        /\ packs \in Seq(Seq(Byte)) /\ keep = Completed(queue, c, b).keep
        /\ KeepOK(c, keep) /\ r = Filtered(queue, c, b)
    BY <1>1
  <2> QED
    BY ONLY <2>1, c \in Conn, FilteredIs
<1>3. Dispatched(r) = v
  BY DEF Dispatched
<1> HIDE DEF v
<1>4. CASE r.type = "nil"
  <2>1. queue' = v /\ handed' = handed
    BY <1>3, <1>4 DEF Dispatch
  <2>2. handed[c] \in Seq(Seq(Byte)) /\ packs = <<>>
    BY <1>1, <1>2, <1>4
  <2>3. handed[c] \o packs = handed[c]
    BY <2>2, ConcatEmptySeq
  <2> QED
    BY <1>1, <1>2, <1>4, <2>1, <2>3
<1>5. CASE r.type = "data"
  <2>1. queue' = v /\ handed' = [handed EXCEPT ![c] = Append(@, r.msg)]
    BY <1>3, <1>5 DEF Dispatch
  <2>2. packs = <<r.msg>> /\ Resting(v)
    BY <1>2, <1>5
  <2> DEFINE m == r.msg
             S == Seq(Byte)
  <2>3. m \in S
    <3>1. Len(packs) = 1 /\ packs[1] = m
      BY <2>2
    <3> QED
      BY <3>1
  <2>4. handed[c] \in Seq(S) /\ packs = <<m>>
    BY <1>1, <2>2
  <2> HIDE DEF m, S
  <2>5. Append(handed[c], m) = handed[c] \o packs
    BY <2>3, <2>4, AppendIsConcat
  <2>6. Append(handed[c], m) \in Seq(S)
    BY <2>3, <2>4, AppendProperties
  <2>7. handed' = [handed EXCEPT ![c] = Append(handed[c], m)] /\ handed \in [Conn -> Seq(S)]
    BY <1>1, <2>1 DEF m, S
  <2>8. /\ handed' \in [Conn -> Seq(S)] /\ handed'[c] = Append(handed[c], m)
        /\ \A d \in Conn : d # c => handed'[d] = handed[d]
    BY <2>6, <2>7
  <2>9. handed' \in [Conn -> Seq(Seq(Byte))]
    BY <2>8 DEF S
  <2> QED
    BY <1>2, <2>1, <2>2, <2>5, <2>8, <2>9
<1>6. CASE r.type = "more"
  <2>1. queue' = AllPopped(v) /\ handed' = Handed(Popped(v))
    BY <1>3, <1>6 DEF Dispatch
  <2>2. QueueOK(v) /\ Popped(v) = Entries(c, packs)
    BY <1>2, <1>6
  <2>3. /\ handed' \in [Conn -> Seq(Seq(Byte))]
        /\ handed'[c] = handed[c] \o packs
        /\ \A d \in Conn : d # c => handed'[d] = handed[d]
    <3> DEFINE h == handed'
    <3>1. h = Handed(Entries(c, packs)) /\ handed \in [Conn -> Seq(Seq(Byte))]
      BY <1>1, <2>1, <2>2
    <3> HIDE DEF h
    <3>2. Given(h, c, packs)
      BY ONLY <3>1, c \in Conn, packs \in Seq(Seq(Byte)), HandedIs
    <3> QED
      BY <3>2 DEF h, Given
  <2>4. Resting(queue') /\ \A d : FindUncomplete(queue', d) = FindUncomplete(v, d)
    BY ONLY <2>1, <2>2, AllPoppedIs
  <2>5. FindUncomplete(queue', c) = keep /\ OthersKept(queue', queue, c)
    BY <1>2, <2>4 DEF OthersKept
  <2> QED
    BY <2>3, <2>4, <2>5
<1> QED
  BY <1>2, <1>4, <1>5, <1>6

\* The part of the client whose bytes come.
LEMMA DataOne ==
  ASSUME KeepsQueue, Typed, NEW c \in Conn, ConnInv(c), phase[c] = "open",
         NEW n \in 1..(Len(Stream(c)) - got[c]),
         NEW b, b = SubSeq(Stream(c), got[c] + 1, got[c] + n),
         Dispatch(c, Filtered(queue, c, b)),
         sizes' = sizes, phase' = phase, got' = [got EXCEPT ![c] = @ + n]
  PROVE  /\ Typed' /\ ConnInv(c)'
         /\ \A d \in Conn : d # c => /\ FindUncomplete(queue', d) = FindUncomplete(queue, d)
                                     /\ handed'[d] = handed[d] /\ got'[d] = got[d]
<1> DEFINE z == sizes[c]
           g == got[c]
           h == g + n
           old == queue
           first == handed[c]
<1>1. z \in Lens /\ g \in Nat
  BY DEF Typed
<1>2. PICK m \in 0..Packages :
        /\ Have(z, m, g) /\ first = Part(Whole(z), 0, m)
        /\ FindUncomplete(old, c) = Keep(c, z, m, g)
  BY DEF ConnInv
<1>3. b = Part(StreamOf(z, Packages), g, h)
  BY Same DEF Part
<1>4. h \in Nat /\ g < h /\ h \in 0..Off(z, Packages)
  <2>1. Len(Stream(c)) = Off(z, Packages)
    BY StreamLen
  <2>2. Off(z, Packages) \in Nat
    <3>1. Packages \in 0..Packages
      BY NetpackAssumption
    <3> QED
      BY <1>1, <3>1, StreamOfIs
  <2> DEFINE x == Off(z, Packages)
  <2>3. n \in 1..(x - g) /\ x \in Nat /\ g \in Nat
    BY <1>1, <2>1, <2>2
  <2> HIDE DEF x, g
  <2>4. g + n \in Nat /\ g < g + n /\ g + n \in 0..x
    BY ONLY <2>3
  <2> QED
    BY <2>4 DEF x
<1> DEFINE packs == Completed(old, c, b).packs
           keep == Completed(old, c, b).keep
           r == Filtered(old, c, b)
<1> HIDE DEF z, h
<1>5. PICK k \in 0..Packages : Have(z, k, h)
  BY <1>1, <1>4, HaveSome
<1>6. m <= k /\ packs = Part(Whole(z), m, k) /\ keep = Keep(c, z, k, h)
  <2> HIDE DEF g, old
  <2>1. /\ z \in Lens /\ Have(z, m, g) /\ Have(z, k, h) /\ g < h
        /\ FindUncomplete(old, c) = Keep(c, z, m, g)
        /\ b = Part(StreamOf(z, Packages), g, h)
    BY <1>1, <1>2, <1>3, <1>4, <1>5
  <2> QED
    BY ONLY <2>1, CompletedIs
<1>7. m \in Nat /\ k \in Nat /\ k <= Packages
  BY <1>2, <1>5, NetpackAssumption
<1>8. Whole(z) \in Seq(Seq(Byte)) /\ Len(Whole(z)) = Packages
  BY <1>1, WholeIs
<1>9. packs \in Seq(Seq(Byte))
  BY <1>6, <1>7, <1>8, PartIs
<1>10. KeepOK(c, keep)
  <2>1. z \in Lens /\ Have(z, k, h)
    BY <1>1, <1>5
  <2>2. KeepOK(c, Keep(c, z, k, h))
    BY ONLY <2>1, c \in Conn, KeepIs
  <2> QED
    BY <1>6, <2>2
<1>11. /\ Resting(queue') /\ FindUncomplete(queue', c) = keep
       /\ OthersKept(queue', queue, c)
       /\ handed' \in [Conn -> Seq(Seq(Byte))]
       /\ handed'[c] = handed[c] \o packs
       /\ \A d \in Conn : d # c => handed'[d] = handed[d]
  <2>1. /\ packs = Completed(queue, c, b).packs /\ keep = Completed(queue, c, b).keep
        /\ r = Filtered(queue, c, b) /\ Dispatch(c, r)
    OBVIOUS
  <2> HIDE DEF packs, keep, r
  <2> QED
    BY ONLY KeepsQueue, Typed, c \in Conn, <1>9, <1>10, <2>1, DataStep
<1>12. handed'[c] = Part(Whole(z), 0, k)
  <2>1. Part(Whole(z), 0, m) \o Part(Whole(z), m, k) = Part(Whole(z), 0, k)
    <3>1. 0 \in Nat /\ 0 <= m
      BY <1>7
    <3> QED
      BY ONLY <1>6, <1>7, <1>8, <3>1, PartJoin
  <2> QED
    BY <1>2, <1>6, <1>11, <2>1
<1>13. got' \in [Conn -> Nat] /\ got'[c] = h /\ \A d \in Conn : d # c => got'[d] = got[d]
  BY DEF Typed, h
<1>14. Typed'
  BY <1>11, <1>13 DEF Typed
<1>15. ConnInv(c)'
  <2>1. FindUncomplete(queue', c) = IF phase'[c] = "open" THEN Keep(c, z, k, got'[c]) ELSE <<>>
    BY <1>6, <1>11, <1>13
  <2>2. phase'[c] # "new" /\ sizes'[c] = z
    BY DEF z
  <2> QED
    BY <1>5, <1>12, <1>13, <2>1, <2>2 DEF ConnInv
<1> QED
  BY <1>11, <1>13, <1>14, <1>15 DEF OthersKept

LEMMA DataInv ==
  ASSUME KeepsQueue, Typed, \A c \in Conn : ConnInv(c), NEW c \in Conn, Data(c)
  PROVE  Typed' /\ \A d \in Conn : ConnInv(d)'
<1>1. phase[c] = "open" /\ sizes' = sizes /\ phase' = phase
  BY DEF Data
<1>2. PICK n \in 1..(Len(Stream(c)) - got[c]) :
        /\ got' = [got EXCEPT ![c] = @ + n]
        /\ Dispatch(c, Filtered(queue, c, SubSeq(Stream(c), got[c] + 1, got[c] + n)))
  BY DEF Data, Dispatch
<1> DEFINE b == SubSeq(Stream(c), got[c] + 1, got[c] + n)
<1>3. b = SubSeq(Stream(c), got[c] + 1, got[c] + n) /\ Dispatch(c, Filtered(queue, c, b))
  BY <1>2
<1> HIDE DEF b
<1>4. /\ Typed' /\ ConnInv(c)'
      /\ \A d \in Conn : d # c => /\ FindUncomplete(queue', d) = FindUncomplete(queue, d)
                                  /\ handed'[d] = handed[d] /\ got'[d] = got[d]
  <2>1. ConnInv(c) /\ got' = [got EXCEPT ![c] = @ + n]
    BY <1>2
  <2> QED
    BY ONLY KeepsQueue, Typed, c \in Conn, n \in 1..(Len(Stream(c)) - got[c]),
            <1>1, <1>3, <2>1, DataOne
<1>5. ASSUME NEW d \in Conn, d # c PROVE ConnInv(d)'
  BY <1>1, <1>4, <1>5, OtherConn
<1> QED
  BY <1>4, <1>5

-----------------------------------------------------------------------------
(* The theorems.                                                           *)

LEMMA NextInv ==
  ASSUME KeepsQueue, ~ClearsOnClose, NetpackInv, [Next]_vars
  PROVE  NetpackInv'
<1>1. Typed /\ \A c \in Conn : ConnInv(c)
  BY ToConn
<1>2. Typed' /\ \A d \in Conn : ConnInv(d)'
  <2>1. ASSUME NEW c \in Conn, Open(c) PROVE Typed' /\ \A d \in Conn : ConnInv(d)'
    BY <1>1, <2>1, OpenInv
  <2>2. ASSUME NEW c \in Conn, Data(c) PROVE Typed' /\ \A d \in Conn : ConnInv(d)'
    BY <1>1, <2>2, DataInv
  <2>3. ASSUME NEW c \in Conn, Close(c) PROVE Typed' /\ \A d \in Conn : ConnInv(d)'
    <3>1. /\ phase[c] = "open" /\ phase' = [phase EXCEPT ![c] = "closed"]
          /\ queue' = Unlinked(queue, c)
          /\ sizes' = sizes /\ got' = got /\ handed' = handed
      BY <2>3 DEF Close
    <3> QED
      BY ONLY <1>1, <3>1, c \in Conn, CloseInv
  <2>4. ASSUME NEW c \in Conn, Fail(c) PROVE Typed' /\ \A d \in Conn : ConnInv(d)'
    <3>1. /\ phase[c] = "open" /\ phase' = [phase EXCEPT ![c] = "closed"]
          /\ queue' = Unlinked(queue, c)
          /\ sizes' = sizes /\ got' = got /\ handed' = handed
      BY <2>4 DEF Fail
    <3> QED
      BY ONLY <1>1, <3>1, c \in Conn, CloseInv
  <2>5. CASE UNCHANGED vars
    BY <1>1, <2>5 DEF vars, Typed, ConnInv
  <2> QED
    BY <2>1, <2>2, <2>3, <2>4, <2>5 DEF Next
<1>3. Typed /\ (\A c \in Conn : ConnInv(c)) => NetpackInv
  BY FromConn
<1>4. (Typed /\ (\A c \in Conn : ConnInv(c)) => NetpackInv)'
  BY FromConn, PTL
<1> QED
  BY <1>2, <1>4

\* What the queue keeps and what the handler was given belong together, for
\* every cutting of the streams by the network (filter_data_ and push_more,
\* lua-netpack.c:189 and 228; close_uncomplete, lua-netpack.c:218): of every
\* client the packages that have arrived are handed over, whole and in order,
\* an open client has the rest of its bytes in the hash table and a closed one
\* nothing; the ring and the buckets are well formed.  The service is one that
\* keeps the queue of every call and does not clear it when one socket closes,
\* as skynet's gateserver.
THEOREM NetpackInvariant == KeepsQueue /\ ~ClearsOnClose => (Spec => []NetpackInv)
<1> SUFFICES ASSUME KeepsQueue, ~ClearsOnClose PROVE Spec => []NetpackInv
  OBVIOUS
<1>1. Init => NetpackInv
  BY InitInv
<1>2. NetpackInv /\ [Next]_vars => NetpackInv'
  BY NextInv
<1> QED
  BY <1>1, <1>2, PTL DEF Spec

LEMMA InvPrompt ==
  ASSUME NetpackInv
  PROVE  Prompt
<1>1. Typed /\ \A c \in Conn : ConnInv(c)
  BY ToConn
<1>2. ASSUME NEW c \in Conn
      PROVE  handed[c] = SubSeq(Bodies(c), 1,
                                Cardinality({n \in 1..Packages : Upto(c, n) <= got[c]}))
  <2> DEFINE z == sizes[c]
             g == got[c]
             T == {n \in 1..Packages : Off(z, n) <= g}
  <2>1. PICK m \in 0..Packages : Have(z, m, g) /\ handed[c] = Part(Whole(z), 0, m)
    BY <1>1 DEF ConnInv
  <2>2. z \in Lens /\ Packages \in Nat /\ m \in Nat
    BY <1>1, NetpackAssumption DEF Typed
  <2>3. {n \in 1..Packages : Upto(c, n) <= got[c]} = T
    BY Same
  <2>4. handed[c] = SubSeq(Bodies(c), 1, m)
    <3>1. 0 + 1 = 1
      OBVIOUS
    <3> QED
      BY <2>1, <3>1, Same DEF Part
  <2> HIDE DEF z, g
  <2>5. g \in Nat /\ Off(z, m) <= g /\ (m < Packages => g < Off(z, m + 1))
    BY <2>1, <2>2, HaveBounds DEF Have
  <2>6. \A n \in 0..Packages : Off(z, n) \in Nat
    BY <2>2, StreamOfIs
  <2>7. ASSUME NEW n \in 1..m PROVE n \in T
    <3>1. n \in 0..m /\ n \in 1..Packages /\ n \in 0..Packages
      BY <2>2
    <3>2. Off(z, n) <= Off(z, m)
      BY ONLY <2>2, <3>1, m \in 0..Packages, OffMono
    <3>3. Off(z, n) \in Nat /\ Off(z, m) \in Nat
      BY <2>6, <3>1
    <3> QED
      BY <2>5, <3>1, <3>2, <3>3
  <2>8. ASSUME NEW n \in T PROVE n \in 1..m
    <3>1. n \in 1..Packages /\ Off(z, n) <= g
      OBVIOUS
    <3>2. CASE n <= m
      BY <2>2, <3>1, <3>2
    <3>3. CASE m < n
      <4>1. m + 1 \in 0..n /\ n \in 0..Packages /\ m < Packages /\ m + 1 \in 0..Packages
        BY <2>2, <3>1, <3>3
      <4>2. Off(z, m + 1) <= Off(z, n)
        BY ONLY <2>2, <4>1, OffMono
      <4>3. Off(z, n) \in Nat /\ Off(z, m + 1) \in Nat
        BY <2>6, <4>1
      <4>4. g < Off(z, m + 1)
        BY <2>5, <4>1
      <4> QED
        BY <2>5, <3>1, <4>2, <4>3, <4>4
    <3> QED
      BY <2>2, <3>1, <3>2, <3>3
  <2>9. T = 1..m
    BY <2>7, <2>8
  <2>10. Cardinality(1..m) = m
    <3>1. Cardinality(1..m) = IF 1 > m THEN 0 ELSE m - 1 + 1
      BY <2>2, FS_Interval
    <3> QED
      BY <2>2, <3>1
  <2> QED
    BY <2>3, <2>4, <2>9, <2>10
<1> QED
  BY <1>2 DEF Prompt

\* No package waits and none is lost, doubled, cut or out of order: the
\* handler has always been given exactly the packages whose last byte has come
\* (filter_data_ and push_more, lua-netpack.c:189 and 228), whatever the sizes
\* of the packages, of the ring and of the hash table, for any number of
\* clients; in a service as skynet's gateserver.
THEOREM AlwaysPrompt == KeepsQueue /\ ~ClearsOnClose => (Spec => []Prompt)
<1> SUFFICES ASSUME KeepsQueue, ~ClearsOnClose PROVE Spec => []Prompt
  OBVIOUS
<1>1. Spec => []NetpackInv
  BY NetpackInvariant
<1>2. NetpackInv => Prompt
  BY InvPrompt
<1> QED
  BY <1>1, <1>2, PTL

LEMMA KeptLen ==
  ASSUME NEW S \in Seq(Byte), NEW o \in Nat, NEW g \in Nat, o < g, g <= Len(S),
         NEW c, NEW x, x = Kept(c, Part(S, o, g))
  PROVE  KeptBytes(x) = g - o
<1>1. CASE g = o + 1
  <2>1. x = Uncomplete(c, -1, 0, Part(S, o, g))
    BY ONLY <1>1, S \in Seq(Byte), o \in Nat, g \in Nat, o < g, g <= Len(S),
            x = Kept(c, Part(S, o, g)), KeptIs
  <2>2. x.read = -1
    BY <2>1 DEF Uncomplete
  <2> QED
    BY <1>1, <2>2 DEF KeptBytes
<1>2. CASE g # o + 1
  <2> DEFINE y == o + 2
             d == Part(S, y, g)
             s == ReadSize(S[o + 1], S[o + 2])
             e == g - y
  <2>1. o + 2 <= g /\ y \in Nat /\ y <= g /\ e \in Nat /\ e # -1 /\ e + 2 = g - o
    BY <1>2
  <2>2. x = Uncomplete(c, e, s, d)
    <3>1. o + 2 <= g
      BY <2>1
    <3> QED
      BY ONLY <3>1, S \in Seq(Byte), o \in Nat, g \in Nat, o < g, g <= Len(S),
              x = Kept(c, Part(S, o, g)), KeptIs
  <2> HIDE DEF y, s, e
  <2>3. Len(d) = e
    <3>1. Len(Part(S, y, g)) = g - y
      BY <2>1, PartIs
    <3> QED
      BY <3>1 DEF e
  <2> HIDE DEF d
  <2>4. x.read = e /\ x.data = d
    BY <2>2 DEF Uncomplete
  <2> QED
    BY <2>1, <2>3, <2>4 DEF KeptBytes
<1> QED
  BY <1>1, <1>2

LEMMA InvKeeps ==
  ASSUME NetpackInv
  PROVE  KeepsRemainder
<1>1. Typed /\ \A c \in Conn : ConnInv(c)
  BY ToConn
<1>2. TypeOK
  BY DEF NetpackInv
<1>3. ASSUME NEW c \in Conn
      PROVE  LET held == FindUncomplete(queue, c)
                 rest == got[c] - Upto(c, Len(handed[c]))
             IN  IF phase[c] = "open" /\ rest > 0
                 THEN Len(held) = 1 /\ KeptBytes(held[1]) = rest
                 ELSE held = <<>>
  <2> DEFINE z == sizes[c]
             g == got[c]
             S == StreamOf(z, Packages)
             held == FindUncomplete(queue, c)
             rest == g - Upto(c, Len(handed[c]))
  <2>1. PICK m \in 0..Packages :
          /\ Have(z, m, g) /\ handed[c] = Part(Whole(z), 0, m)
          /\ held = IF phase[c] = "open" THEN Keep(c, z, m, g) ELSE <<>>
    BY <1>1 DEF ConnInv
  <2> DEFINE o == Off(z, m)
  <2>2. z \in Lens /\ Packages \in Nat /\ m \in Nat /\ m <= Packages
    BY <1>1, NetpackAssumption DEF Typed
  <2> HIDE DEF z, g
  <2>3. o \in Nat /\ o <= g /\ g \in Nat /\ g <= Len(S) /\ S \in Seq(Byte)
    BY <2>1, <2>2, HaveBounds
  <2>4. Len(handed[c]) = m
    <3> DEFINE W == Whole(z)
               P == Seq(Byte)
    <3>1. W \in Seq(P) /\ Len(W) = Packages
      BY <2>2, WholeIs
    <3> HIDE DEF W, P
    <3>2. 0 \in Nat /\ m \in Nat /\ 0 <= m /\ m <= Len(W) /\ m - 0 = m
      BY <2>2, <3>1
    <3>3. Len(Part(W, 0, m)) = m - 0
      BY ONLY <3>1, <3>2, PartIs
    <3> QED
      BY <2>1, <3>2, <3>3 DEF W
  <2>5. rest = g - o
    BY <2>4, Same DEF z
  <2> DEFINE u == Kept(c, Part(S, o, g))
  <2>6. g # o => Keep(c, z, m, g) = <<u>>
    BY DEF Keep
  <2>7. g = o => Keep(c, z, m, g) = <<>>
    BY DEF Keep
  <2> HIDE DEF S, o, held, rest
  <2>8. g # o => KeptBytes(u) = g - o
    <3>1. u = Kept(c, Part(S, o, g))
      OBVIOUS
    <3> HIDE DEF u
    <3>2. g # o => o < g
      BY <2>3
    <3> QED
      BY ONLY <2>3, <3>1, <3>2, KeptLen
  <2> HIDE DEF u
  <2>9. CASE phase[c] = "open" /\ rest > 0
    <3>1. g # o /\ held = <<u>>
      BY <2>1, <2>3, <2>5, <2>6, <2>9
    <3>2. Len(held) = 1 /\ held[1] = u
      BY <3>1
    <3> QED
      BY <2>5, <2>8, <2>9, <3>1, <3>2 DEF held, rest, g
  <2>10. CASE ~ (phase[c] = "open" /\ rest > 0)
    <3>1. held = <<>>
      BY <2>1, <2>3, <2>5, <2>7, <2>10
    <3> QED
      BY <2>10, <3>1 DEF held, rest, g
  <2> QED
    BY <2>9, <2>10
<1> QED
  BY <1>2, <1>3 DEF KeepsRemainder

\* The memory of the queue: an open client in the middle of a package has
\* exactly that part of it in the hash table, and every other client has
\* nothing (close_uncomplete, lua-netpack.c:218), so what is kept never grows
\* with the clients that have come and gone; in a service as skynet's
\* gateserver.
THEOREM AlwaysKeepsRemainder == KeepsQueue /\ ~ClearsOnClose => (Spec => []KeepsRemainder)
<1> SUFFICES ASSUME KeepsQueue, ~ClearsOnClose PROVE Spec => []KeepsRemainder
  OBVIOUS
<1>1. Spec => []NetpackInv
  BY NetpackInvariant
<1>2. NetpackInv => KeepsRemainder
  BY InvKeeps
<1> QED
  BY <1>1, <1>2, PTL

\* "Each package is uint16 + data" (lua-netpack.c:27): what the handler was
\* given by a client is always the beginning of what the client sent, package
\* by package; in a service as skynet's gateserver.  The gateway of the game,
\* which loses the queue of a call that completes no package and clears the
\* queue of all its clients when one leaves, does not have this property.
THEOREM AlwaysFramed == KeepsQueue /\ ~ClearsOnClose => (Spec => []Framed)
<1> SUFFICES ASSUME KeepsQueue, ~ClearsOnClose PROVE Spec => []Framed
  OBVIOUS
<1>1. Spec => []NetpackInv
  BY NetpackInvariant
<1>2. ASSUME NetpackInv PROVE Framed
  <2>1. Typed /\ \A c \in Conn : ConnInv(c)
    BY <1>2, ToConn
  <2>2. ASSUME NEW c \in Conn PROVE IsPrefix(handed[c], Bodies(c))
    <3> DEFINE W == Whole(sizes[c])
               a == handed[c]
    <3>1. PICK m \in 0..Packages : a = Part(W, 0, m)
      BY <2>1 DEF ConnInv
    <3>2. W \in Seq(Seq(Byte)) /\ Len(W) = Packages /\ Packages \in Nat
      BY <2>1, WholeIs, NetpackAssumption DEF Typed
    <3> HIDE DEF W
    <3>3. Len(a) = m /\ a \in Seq(Seq(Byte)) /\ m \in Nat
      <4>1. 0 \in Nat /\ m \in Nat /\ 0 <= m /\ m <= Len(W) /\ m - 0 = m
        BY <3>2
      <4>2. Part(W, 0, m) \in Seq(Seq(Byte)) /\ Len(Part(W, 0, m)) = m - 0
        BY ONLY <3>2, <4>1, PartIs
      <4> QED
        BY <3>1, <4>1, <4>2
    <3>4. SubSeq(a, 1, Len(a)) = a
      <4>1. 0 + 1 = 1 /\ Part(a, 0, Len(a)) = a
        BY <3>3, PartAll
      <4> QED
        BY <4>1 DEF Part
    <3>5. SubSeq(W, 1, Len(a)) = a
      <4>1. 0 + 1 = 1
        OBVIOUS
      <4> QED
        BY <3>1, <3>3, <4>1 DEF Part
    <3>6. Bodies(c) = W
      BY Same DEF W
    <3> HIDE DEF a
    <3>7. IsPrefix(a, W)
      BY <3>2, <3>3, <3>4, <3>5 DEF IsPrefix
    <3> QED
      BY <3>6, <3>7 DEF a
  <2> QED
    BY <2>2 DEF Framed
<1> QED
  BY <1>1, <1>2, PTL
=============================================================================
