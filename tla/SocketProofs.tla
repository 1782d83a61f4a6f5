------------------------------ MODULE SocketProofs ------------------------------
(***************************************************************************)
(* Theorems of SocketProps, checked by TLAPS, about the life of a socket:  *)
(* the assertions of the socket thread hold and SOCKET_CLOSE is raised     *)
(* once, for any number of sockets, slots and senders.                     *)
(***************************************************************************)
EXTENDS SocketProps, FiniteSetTheorems, SequenceTheorems, WellFoundedInduction, TLAPS

(* Flattening, by induction on the number of sequences.                    *)

\* A set of numbers has a least one: induction, for what fails somewhere.
LEMMA Least ==
  ASSUME NEW T, T \subseteq Nat, T # {}
  PROVE  \E n \in T : \A m \in T : n <= m
<1> DEFINE R == {ss \in Nat \X Nat : ss[1] < ss[2]}
<1>1. IsWellFoundedOn(R, Nat)
  BY NatLessThanWellFounded DEF OpToRel
<1>2. \A m, n \in Nat : m < n => <<m, n>> \in R
  OBVIOUS
<1> HIDE DEF R
<1>3. PICK n \in T : \A m \in T : ~ (<<m, n>> \in R)
  BY <1>1, WFMin
<1>4. \A m \in T : ~ (m < n)
  BY <1>2, <1>3
<1> QED
  BY <1>4

\* The function that FlattenSeq computes on the sequences of s up to n.
IsFlat(f, s, n) ==
  f = [i \in 1..n |-> IF i = 1 THEN s[i] ELSE f[i - 1] \o s[i]]

LEMMA FlatExists ==
  ASSUME NEW s, NEW n \in Nat
  PROVE  \E f : IsFlat(f, s, n)
<1> DEFINE T == {k \in Nat : ~ \E f : IsFlat(f, s, k)}
<1> SUFFICES T = {}
  OBVIOUS
<1>1. 0 \notin T
  <2> DEFINE f == [i \in 1..0 |-> s[i]]
  <2>1. IsFlat(f, s, 0)
    <3>1. \A i \in 1..0 : FALSE
      OBVIOUS
    <3> QED
      BY <3>1 DEF IsFlat
  <2> QED
    BY <2>1
<1>2. ASSUME NEW k \in Nat, k \notin T PROVE k + 1 \notin T
  <2>1. PICK f : IsFlat(f, s, k)
    BY <1>2
  <2>2. f = [i \in 1..k |-> IF i = 1 THEN s[i] ELSE f[i - 1] \o s[i]]
    BY <2>1 DEF IsFlat
  <2> DEFINE g == [i \in 1..(k + 1) |->
                     IF i = k + 1
                     THEN (IF k = 0 THEN s[i] ELSE f[k] \o s[i]) ELSE f[i]]
  <2>3. ASSUME NEW i \in 1..(k + 1)
        PROVE  g[i] = IF i = 1 THEN s[i] ELSE g[i - 1] \o s[i]
    <3>1. CASE i = k + 1
      <4>1. CASE k = 0
        BY <3>1, <4>1
      <4>2. CASE k # 0
        <5>1. i - 1 = k /\ k \in 1..(k + 1) /\ k # k + 1 /\ i # 1
          BY <3>1, <4>2
        <5>2. g[k] = f[k]
          BY <5>1
        <5> QED
          BY <3>1, <4>2, <5>1, <5>2
      <4> QED
        BY <4>1, <4>2
    <3>2. CASE i # k + 1
      <4>1. i \in 1..k /\ (i # 1 => i - 1 \in 1..(k + 1) /\ i - 1 # k + 1)
        BY <3>2
      <4>2. f[i] = IF i = 1 THEN s[i] ELSE f[i - 1] \o s[i]
        BY <2>2, <4>1
      <4> QED
        BY <3>2, <4>1, <4>2
    <3> QED
      BY <3>1, <3>2
  <2>4. IsFlat(g, s, k + 1)
    BY <2>3 DEF IsFlat
  <2> QED
    BY <2>4
<1>3. T \subseteq Nat
  OBVIOUS
<1> HIDE DEF T
<1>4. ASSUME T # {} PROVE FALSE
  <2>1. PICK t \in T : \A m \in T : t <= m
    BY <1>3, <1>4, Least
  <2>2. t # 0 /\ t \in Nat
    BY <1>1, <1>3
  <2>3. t - 1 \in Nat /\ t - 1 \notin T
    BY <2>1, <2>2
  <2>4. (t - 1) + 1 \notin T
    BY <1>2, <2>3
  <2> QED
    BY <2>2, <2>4
<1> QED
  BY <1>4

\* Two such functions agree where their sequences do.
LEMMA FlatAgrees ==
  ASSUME NEW s, NEW t, NEW n \in Nat, NEW m \in Nat, n <= m,
         NEW f, IsFlat(f, s, n), NEW g, IsFlat(g, t, m),
         \A i \in 1..n : s[i] = t[i]
  PROVE  \A i \in 1..n : f[i] = g[i]
<1> DEFINE T == {i \in 1..n : f[i] # g[i]}
<1>1. T \subseteq Nat
  OBVIOUS
<1>2. ASSUME T # {} PROVE FALSE
  <2>1. PICK i \in T : \A j \in T : i <= j
    <3> HIDE DEF T
    <3> QED
      BY <1>1, <1>2, Least
  <2>2. i \in 1..n /\ i \in 1..m /\ (i # 1 => i - 1 \in 1..n)
    OBVIOUS
  <2>3. /\ f[i] = IF i = 1 THEN s[i] ELSE f[i - 1] \o s[i]
        /\ g[i] = IF i = 1 THEN t[i] ELSE g[i - 1] \o t[i]
    BY <2>2 DEF IsFlat
  <2>4. i # 1 => f[i - 1] = g[i - 1]
    BY <2>1, <2>2
  <2> QED
    BY <2>2, <2>3, <2>4
<1> QED
  BY <1>2

LEMMA FlattenEmpty == FlattenSeq(<<>>) = <<>>
BY DEF FlattenSeq

\* FlattenSeq is the last value of such a function.
LEMMA FlattenValue ==
  ASSUME NEW S, NEW s \in Seq(S), s # <<>>
  PROVE  \E f : IsFlat(f, s, Len(s)) /\ FlattenSeq(s) = f[Len(s)]
<1>1. Len(s) \in Nat /\ Len(s) # 0
  OBVIOUS
<1> DEFINE f == CHOOSE h : IsFlat(h, s, Len(s))
<1>2. FlattenSeq(s) = f[Len(s)]
  BY <1>1 DEF FlattenSeq, IsFlat
<1>3. IsFlat(f, s, Len(s))
  BY <1>1, FlatExists
<1> QED
  BY <1>2, <1>3

LEMMA FlattenAppend ==
  ASSUME NEW S, NEW P, NEW s \in Seq(S), NEW e \in S, e \in Seq(P)
  PROVE  FlattenSeq(Append(s, e)) = FlattenSeq(s) \o e
<1> DEFINE n == Len(s)
           t == Append(s, e)
<1>1. /\ n \in Nat /\ t \in Seq(S) /\ t # <<>> /\ Len(t) = n + 1
      /\ t[n + 1] = e
      /\ \A i \in 1..n : s[i] = t[i]
  OBVIOUS
<1>2. PICK g : IsFlat(g, t, n + 1) /\ FlattenSeq(t) = g[n + 1]
  <2> HIDE DEF t, n
  <2> QED
    BY <1>1, FlattenValue
<1>3. g[n + 1] = IF n + 1 = 1 THEN e ELSE g[(n + 1) - 1] \o e
  <2>1. n + 1 \in 1..(n + 1)
    BY <1>1
  <2> HIDE DEF t, n
  <2> QED
    BY <1>1, <1>2, <2>1 DEF IsFlat
<1>4. CASE s = <<>>
  <2>1. n = 0 /\ FlattenSeq(s) = <<>>
    BY <1>4, FlattenEmpty
  <2>2. <<>> \o e = e
    OBVIOUS
  <2> QED
    BY <1>2, <1>3, <1>4, <2>1, <2>2
<1>5. CASE s # <<>>
  <2>1. PICK f : IsFlat(f, s, n) /\ FlattenSeq(s) = f[n]
    BY <1>5, FlattenValue
  <2>2. n \in 1..n /\ n + 1 # 1 /\ (n + 1) - 1 = n /\ n <= n + 1 /\ n + 1 \in Nat
    BY <1>5
  <2>3. f[n] = g[n]
    <3> HIDE DEF n, t
    <3>1. n \in Nat /\ \A i \in 1..n : s[i] = t[i]
      BY <1>1
    <3>2. IsFlat(f, s, n) /\ IsFlat(g, t, n + 1)
      BY <1>2, <2>1
    <3>3. \A i \in 1..n : f[i] = g[i]
      BY <2>2, <3>1, <3>2, FlatAgrees
    <3> QED
      BY <2>2, <3>3
  <2> QED
    BY <1>2, <1>3, <2>1, <2>2, <2>3
<1> QED
  BY <1>4, <1>5
-----------------------------------------------------------------------------
(* The units of a list of buffers.                                         *)

LEMMA CopiesType ==
  ASSUME NEW b \in Buffer
  PROVE  Copies(b) \in Seq(Package) /\ Len(Copies(b)) = b.left /\ b.left \in Nat
<1>1. b.left \in Nat /\ b.pkg \in Package
  BY DEF Buffer, Unit
<1> QED
  BY <1>1 DEF Copies

LEMMA UnitsEmpty == Units(<<>>) = <<>>
<1>1. [j \in DOMAIN <<>> |-> Copies(<<>>[j])] = <<>>
  OBVIOUS
<1> QED
  BY <1>1, FlattenEmpty DEF Units

LEMMA UnitsAppend ==
  ASSUME NEW list \in Seq(Buffer), NEW b \in Buffer
  PROVE  Units(Append(list, b)) = Units(list) \o Copies(b)
<1> DEFINE S == {Copies(c) : c \in Buffer}
           cs == [j \in DOMAIN list |-> Copies(list[j])]
           l == Append(list, b)
<1>1. Copies(b) \in Seq(Package) /\ Copies(b) \in S
  BY CopiesType
<1>2. /\ DOMAIN list = 1..Len(list) /\ Len(list) \in Nat
      /\ DOMAIN l = 1..(Len(list) + 1)
      /\ \A j \in 1..Len(list) : l[j] = list[j] /\ list[j] \in Buffer
      /\ l[Len(list) + 1] = b
  OBVIOUS
<1>3. cs \in Seq(S) /\ Len(cs) = Len(list)
  <2>1. cs \in [1..Len(list) -> S]
    BY <1>2
  <2> HIDE DEF cs, S
  <2> QED
    BY <1>2, <2>1
<1>4. [j \in DOMAIN l |-> Copies(l[j])] = Append(cs, Copies(b))
  <2> DEFINE ds == [j \in DOMAIN l |-> Copies(l[j])]
             es == Append(cs, Copies(b))
  <2>1. DOMAIN ds = 1..(Len(list) + 1) /\ DOMAIN es = 1..(Len(list) + 1)
    <3> HIDE DEF cs, S
    <3> QED
      BY <1>1, <1>2, <1>3
  <2>2. es \in Seq(S)
    <3> HIDE DEF cs, S
    <3> QED
      BY <1>1, <1>3
  <2>3. ASSUME NEW j \in 1..(Len(list) + 1) PROVE ds[j] = es[j]
    <3>1. CASE j = Len(list) + 1
      <4>1. ds[j] = Copies(b)
        BY <1>2, <3>1
      <4>2. es[j] = Copies(b)
        <5> HIDE DEF cs, S
        <5> QED
          BY <1>1, <1>3, <3>1
      <4> QED
        BY <4>1, <4>2
    <3>2. CASE j # Len(list) + 1
      <4>1. j \in 1..Len(list)
        BY <1>2, <3>2
      <4>2. ds[j] = Copies(list[j]) /\ cs[j] = Copies(list[j])
        BY <1>2, <4>1
      <4>3. es[j] = cs[j]
        <5> HIDE DEF cs, S
        <5> QED
          BY <1>1, <1>3, <4>1
      <4> QED
        BY <4>2, <4>3
    <3> QED
      BY <3>1, <3>2
  <2>4. ds = [j \in DOMAIN ds |-> ds[j]]
    OBVIOUS
  <2>5. es = [j \in DOMAIN es |-> es[j]]
    <3> HIDE DEF es
    <3> QED
      BY <2>2
  <2> HIDE DEF ds, es
  <2> QED
    BY <2>1, <2>3, <2>4, <2>5
<1>5. FlattenSeq(Append(cs, Copies(b))) = FlattenSeq(cs) \o Copies(b)
  <2> HIDE DEF cs, S
  <2> QED
    BY <1>1, <1>3, FlattenAppend
<1> QED
  BY <1>4, <1>5 DEF Units

\* A list is empty, or another one with a buffer behind it.
LEMMA LastBuffer ==
  ASSUME NEW list \in Seq(Buffer), list # <<>>
  PROVE  \E l \in Seq(Buffer), b \in Buffer :
           list = Append(l, b) /\ Len(l) = Len(list) - 1
<1> DEFINE n == Len(list)
           l == [j \in 1..(n - 1) |-> list[j]]
<1>1. n \in Nat /\ n # 0 /\ n - 1 \in Nat /\ DOMAIN list = 1..n
  OBVIOUS
<1>2. l \in Seq(Buffer) /\ Len(l) = n - 1 /\ list[n] \in Buffer
  BY <1>1
<1>3. list = Append(l, list[n])
  BY <1>1, <1>2
<1> QED
  BY <1>2, <1>3

\* The units of two lists, one behind the other.
LEMMA UnitsConcat ==
  ASSUME NEW l \in Seq(Buffer)
  PROVE  /\ Units(l) \in Seq(Package)
         /\ \A a \in Seq(Buffer) : Units(a \o l) = Units(a) \o Units(l)
<1> DEFINE Fine(m) == /\ Units(m) \in Seq(Package)
                      /\ \A a \in Seq(Buffer) :
                           Units(a) \in Seq(Package) =>
                             Units(a \o m) = Units(a) \o Units(m)
           T == {k \in Nat : \E m \in Seq(Buffer) : Len(m) = k /\ ~Fine(m)}
<1>1. 0 \notin T
  <2> SUFFICES ASSUME NEW m \in Seq(Buffer), Len(m) = 0 PROVE Fine(m)
    OBVIOUS
  <2>1. m = <<>> /\ \A a \in Seq(Buffer) : a \o m = a
    BY Zenon, EmptySeq, ConcatEmptySeq
  <2>2. \A z \in Seq(Package) : z \o <<>> = z
    OBVIOUS
  <2>3. Units(m) = <<>> /\ Units(m) \in Seq(Package)
    <3>1. m = <<>>
      BY <2>1
    <3>2. <<>> \in Seq(Package)
      OBVIOUS
    <3> QED
      BY <3>1, <3>2, UnitsEmpty, Zenon
  <2>4. ASSUME NEW a \in Seq(Buffer), Units(a) \in Seq(Package)
        PROVE  Units(a \o m) = Units(a) \o Units(m)
    <3>1. a \o m = a
      BY <2>1
    <3> QED
      BY <2>2, <2>3, <2>4, <3>1
  <2> QED
    BY <2>3, <2>4
<1>2. ASSUME NEW k \in Nat, k \notin T PROVE k + 1 \notin T
  <2> SUFFICES ASSUME NEW m \in Seq(Buffer), Len(m) = k + 1 PROVE Fine(m)
    OBVIOUS
  <2>1. m # <<>>
    OBVIOUS
  <2>2. PICK n \in Seq(Buffer), b \in Buffer :
          m = Append(n, b) /\ Len(n) = Len(m) - 1
    BY <2>1, LastBuffer
  <2>3. Fine(n)
    BY <1>2, <2>2
  <2>4. Units(m) = Units(n) \o Copies(b)
    BY <2>2, UnitsAppend
  <2>5. Copies(b) \in Seq(Package)
    BY CopiesType
  <2>6. ASSUME NEW a \in Seq(Buffer), Units(a) \in Seq(Package)
        PROVE  Units(a \o m) = Units(a) \o Units(m)
    <3>1. a \o m = Append(a \o n, b) /\ a \o n \in Seq(Buffer)
      BY <2>2
    <3>2. Units(a \o m) = Units(a \o n) \o Copies(b)
      BY <3>1, UnitsAppend
    <3>3. Units(a \o n) = Units(a) \o Units(n)
      BY <2>3, <2>6
    <3>4. \A x, y, z \in Seq(Package) : (x \o y) \o z = x \o (y \o z)
      OBVIOUS
    <3>5. Units(n) \in Seq(Package)
      BY <2>3
    <3>6. (Units(a) \o Units(n)) \o Copies(b) = Units(a) \o (Units(n) \o Copies(b))
      BY <2>5, <2>6, <3>4, <3>5, Zenon
    <3> QED
      BY <2>4, <3>2, <3>3, <3>6, Zenon
  <2>7. Units(m) \in Seq(Package)
    <3>1. Units(n) \in Seq(Package)
      BY <2>3
    <3>2. \A y, z \in Seq(Package) : y \o z \in Seq(Package)
      OBVIOUS
    <3> QED
      BY <2>4, <2>5, <3>1, <3>2, Zenon
  <2> QED
    BY <2>6, <2>7, Zenon
<1>3. T \subseteq Nat
  OBVIOUS
<1>4. ASSUME T # {} PROVE FALSE
  <2> HIDE DEF T
  <2>1. PICK t \in T : \A m \in T : t <= m
    BY <1>3, <1>4, Least
  <2>2. t # 0 /\ t \in Nat
    BY <1>1, <1>3
  <2>3. t - 1 \in Nat /\ t - 1 \notin T
    BY <2>1, <2>2
  <2>4. (t - 1) + 1 \notin T
    BY <1>2, <2>3
  <2> QED
    BY <2>2, <2>4
<1>5. \A m \in Seq(Buffer) : Fine(m)
  <2> TAKE m \in Seq(Buffer)
  <2>1. Len(m) \in Nat /\ Len(m) \notin T
    BY <1>4
  <2> QED
    BY <2>1
<1> QED
  BY <1>5

LEMMA UnitsOne ==
  ASSUME NEW b \in Buffer
  PROVE  Units(<<b>>) = Copies(b)
<1>1. <<>> \in Seq(Buffer) /\ Append(<<>>, b) = <<b>>
  OBVIOUS
<1>2. Copies(b) \in Seq(Package)
  BY CopiesType
<1>3. \A z \in Seq(Package) : <<>> \o z = z
  OBVIOUS
<1> QED
  BY <1>1, <1>2, <1>3, UnitsEmpty, UnitsAppend
\* How many units lists have.
LEMMA UnitsLen ==
  ASSUME NEW a \in Seq(Buffer)
  PROVE  /\ Len(Units(a)) \in Nat
         /\ \A l \in Seq(Buffer) :
              Len(Units(a \o l)) = Len(Units(a)) + Len(Units(l))
         /\ \A b \in Buffer :
              /\ Len(Units(Append(a, b))) = Len(Units(a)) + b.left
              /\ Len(Units(<<b>> \o a)) = Len(Units(a)) + b.left
<1>1. Units(a) \in Seq(Package)
  BY UnitsConcat
<1>2. ASSUME NEW l \in Seq(Buffer)
      PROVE  Len(Units(a \o l)) = Len(Units(a)) + Len(Units(l))
  <2>1. Units(l) \in Seq(Package) /\ Units(a \o l) = Units(a) \o Units(l)
    BY UnitsConcat
  <2> QED
    BY <1>1, <2>1
<1>3. ASSUME NEW b \in Buffer
      PROVE  /\ Len(Units(Append(a, b))) = Len(Units(a)) + b.left
             /\ Len(Units(<<b>> \o a)) = Len(Units(a)) + b.left
  <2>1. Copies(b) \in Seq(Package) /\ Len(Copies(b)) = b.left /\ b.left \in Nat
    BY CopiesType
  <2>2. Units(Append(a, b)) = Units(a) \o Copies(b)
    BY UnitsAppend
  <2>3. <<b>> \in Seq(Buffer)
    OBVIOUS
  <2>4. Units(<<b>> \o a) = Units(<<b>>) \o Units(a)
    BY <2>3, UnitsConcat
  <2>5. Units(<<b>>) = Copies(b)
    BY UnitsOne
  <2>6. \A x, y \in Seq(Package) : Len(x \o y) = Len(x) + Len(y)
    BY ConcatProperties
  <2>7. Len(Units(a)) \in Nat
    BY <1>1
  <2>8. /\ Len(Units(Append(a, b))) = Len(Units(a)) + Len(Copies(b))
        /\ Len(Units(<<b>> \o a)) = Len(Copies(b)) + Len(Units(a))
    BY <1>1, <2>1, <2>2, <2>4, <2>5, <2>6, Zenon
  <2> QED
    BY <2>1, <2>7, <2>8
<1> QED
  BY <1>1, <1>2, <1>3

\* A list is its beginning and its end.
LEMMA ListSplit ==
  ASSUME NEW list \in Seq(Buffer), NEW i \in 1..Len(list)
  PROVE  /\ SubSeq(list, 1, i) \in Seq(Buffer)
         /\ SubSeq(list, 1, i - 1) \in Seq(Buffer)
         /\ SubSeq(list, 1, i) = Append(SubSeq(list, 1, i - 1), list[i])
         /\ SubSeq(list, i + 1, Len(list)) \in Seq(Buffer)
         /\ list = SubSeq(list, 1, i) \o SubSeq(list, i + 1, Len(list))
<1> DEFINE n == Len(list)
           a == SubSeq(list, 1, i)
           b == SubSeq(list, 1, i - 1)
           z == SubSeq(list, i + 1, n)
<1>1. n \in Nat /\ i \in 1..n /\ i \in Nat /\ \A j \in 1..n : list[j] \in Buffer
  OBVIOUS
<1>2. a \in Seq(Buffer) /\ Len(a) = i /\ \A j \in 1..i : a[j] = list[j]
  BY <1>1
<1>3. b \in Seq(Buffer) /\ Len(b) = i - 1 /\ \A j \in 1..(i - 1) : b[j] = list[j]
  BY <1>1
<1>4. z \in Seq(Buffer) /\ Len(z) = n - i /\ \A j \in 1..(n - i) : z[j] = list[i + j]
  BY <1>1
<1> HIDE DEF a, b, z
<1>5. a = Append(b, list[i])
  BY <1>1, <1>2, <1>3
<1>6. list = a \o z
  <2>0. /\ a \o z \in Seq(Buffer)
        /\ Len(a \o z) = Len(a) + Len(z)
        /\ \A j \in 1..(Len(a) + Len(z)) :
             (a \o z)[j] = IF j <= Len(a) THEN a[j] ELSE z[j - Len(a)]
    BY <1>2, <1>4, ConcatProperties
  <2>1. a \o z \in Seq(Buffer) /\ Len(a \o z) = n
    BY <1>1, <1>2, <1>4, <2>0
  <2>2. ASSUME NEW j \in 1..n PROVE (a \o z)[j] = list[j]
    <3>1. CASE j <= i
      BY <1>1, <1>2, <1>4, <2>0, <3>1
    <3>2. CASE j > i
      <4>1. (a \o z)[j] = z[j - i]
        BY <1>1, <1>2, <1>4, <2>0, <3>2
      <4>2. j - i \in 1..(n - i) /\ i + (j - i) = j
        BY <1>1, <3>2
      <4> QED
        BY <1>4, <4>1, <4>2
    <3>3. j <= i \/ j > i
      BY <1>1
    <3> QED
      BY <3>1, <3>2, <3>3, Zenon
  <2> QED
    BY <1>1, <2>1, <2>2, SeqEqual
<1> QED
  BY <1>2, <1>3, <1>4, <1>5, <1>6 DEF a, b, z

LEMMA EndsStep ==
  ASSUME NEW list \in Seq(Buffer)
  PROVE  /\ Ends(list, 0) = 0
         /\ Ends(list, Len(list)) = Len(Units(list))
         /\ \A i \in 1..Len(list) :
              /\ Ends(list, i) \in Nat /\ Ends(list, i - 1) \in Nat
              /\ Ends(list, i) = Ends(list, i - 1) + list[i].left
<1>1. SubSeq(list, 1, 0) = <<>> /\ SubSeq(list, 1, Len(list)) = list
  OBVIOUS
<1>2. Len(<<>>) = 0
  OBVIOUS
<1>3. Ends(list, 0) = 0
  BY <1>1, <1>2, UnitsEmpty DEF Ends
<1>4. ASSUME NEW i \in 1..Len(list)
      PROVE  /\ Ends(list, i) \in Nat /\ Ends(list, i - 1) \in Nat
             /\ Ends(list, i) = Ends(list, i - 1) + list[i].left
  <2>1. /\ SubSeq(list, 1, i) \in Seq(Buffer)
        /\ SubSeq(list, 1, i - 1) \in Seq(Buffer)
        /\ SubSeq(list, 1, i) = Append(SubSeq(list, 1, i - 1), list[i])
    BY ListSplit
  <2>2. list[i] \in Buffer
    OBVIOUS
  <2> QED
    BY <2>1, <2>2, UnitsLen DEF Ends
<1> QED
  BY <1>1, <1>3, <1>4 DEF Ends

LEMMA SubSeqLen ==
  ASSUME NEW list \in Seq(Buffer), NEW i \in 1..Len(list)
  PROVE  Len(SubSeq(list, i + 1, Len(list))) = Len(list) - i
OBVIOUS

LEMMA AfterFacts ==
  ASSUME NEW list \in Seq(Buffer), NEW u \in Nat
  PROVE  /\ After(list, u) \in Seq(Buffer)
         /\ u <= Len(Units(list))
              => Len(Units(After(list, u))) = Len(Units(list)) - u
         /\ Len(Units(list)) <= u => After(list, u) = <<>>
         /\ Whole(list, 1) => Whole(After(list, u), 2)
<1> DEFINE n == Len(list)
           rest == {i \in DOMAIN list : u < Ends(list, i)}
<1>1. n \in Nat /\ DOMAIN list = 1..n /\ rest \subseteq 1..n
  OBVIOUS
<1>2. Ends(list, n) = Len(Units(list)) /\ Len(Units(list)) \in Nat
  BY EndsStep, UnitsLen
<1>3. CASE rest = {}
  <2>1. After(list, u) = <<>>
    BY <1>3 DEF After
  <2>2. Len(Units(list)) <= u
    <3>1. CASE n = 0
      <4>1. Ends(list, 0) = 0
        BY EndsStep
      <4> HIDE DEF n
      <4>2. Len(Units(list)) = 0
        BY <1>2, <3>1, <4>1
      <4> QED
        BY <4>2
    <3>2. CASE n # 0
      <4>1. n \in DOMAIN list
        BY <1>1, <3>2
      <4>2. ~(u < Ends(list, n))
        BY <1>3, <4>1
      <4> QED
        BY <1>2, <4>2
    <3> QED
      BY <3>1, <3>2
  <2>3. Len(Units(<<>>)) = 0 /\ <<>> \in Seq(Buffer)
    <3>1. Len(<<>>) = 0
      OBVIOUS
    <3> QED
      BY <3>1, UnitsEmpty
  <2> QED
    BY <1>2, <2>1, <2>2, <2>3 DEF Whole
<1>4. CASE rest # {}
  <2>1. PICK i \in rest : \A j \in rest : i <= j
    <3>1. rest \subseteq Nat
      BY <1>1
    <3> HIDE DEF rest
    <3> QED
      BY <1>4, <3>1, Least
  <2>2. Min(rest) = i
    <3>1. \A j \in rest : j \in Nat
      BY <1>1
    <3> HIDE DEF rest
    <3>2. \A x \in rest : (\A y \in rest : x <= y) => x = i
      BY <2>1, <3>1
    <3> QED
      BY <2>1, <3>2 DEF Min
  <2> DEFINE b == [list[i] EXCEPT !.left = Ends(list, i) - u]
             z == SubSeq(list, i + 1, n)
  <2>3. After(list, u) = <<b>> \o z
    BY <1>4, <2>2 DEF After
  <2>4. i \in 1..n /\ u < Ends(list, i) /\ list[i] \in Buffer
    BY <1>1
  <2>5. /\ Ends(list, i) \in Nat /\ Ends(list, i - 1) \in Nat
        /\ Ends(list, i) = Ends(list, i - 1) + list[i].left
    BY <2>4, EndsStep
  <2>6. Ends(list, i - 1) <= u
    <3>1. CASE i = 1
      BY <3>1, EndsStep
    <3>2. CASE i # 1
      <4>1. i - 1 \in DOMAIN list /\ ~(i <= i - 1)
        BY <1>1, <2>4, <3>2
      <4>2. i - 1 \notin rest
        BY <2>1, <4>1
      <4> QED
        BY <2>5, <4>1, <4>2
    <3> QED
      BY <3>1, <3>2
  <2>7. Ends(list, i) - u \in 1..Unit
    BY <2>4, <2>5, <2>6 DEF Buffer, Unit
  <2>8. b \in Buffer /\ b.left = Ends(list, i) - u
    BY <2>4, <2>7 DEF Buffer
  <2>9. /\ SubSeq(list, 1, i) \in Seq(Buffer) /\ z \in Seq(Buffer)
        /\ list = SubSeq(list, 1, i) \o z
    BY <2>4, ListSplit
  <2>10. Len(Units(list)) = Ends(list, i) + Len(Units(z)) /\ Len(Units(z)) \in Nat
    BY <2>9, UnitsLen DEF Ends
  <2>11. Len(Units(<<b>> \o z)) = Len(Units(z)) + b.left
    <3> HIDE DEF b, z
    <3> QED
      BY <2>8, <2>9, UnitsLen
  <2>12. <<b>> \o z \in Seq(Buffer)
    <3> HIDE DEF b, z
    <3> QED
      BY <2>8, <2>9
  <2>13. Whole(list, 1) => Whole(<<b>> \o z, 2)
    <3> SUFFICES ASSUME Whole(list, 1), NEW j \in DOMAIN (<<b>> \o z), 2 <= j
                 PROVE  (<<b>> \o z)[j].left = Unit
      BY DEF Whole
    <3>1. z \in Seq(Buffer) /\ Len(z) = n - i /\ i \in Nat /\ n \in Nat /\ i <= n
      <4>1. i \in Nat /\ n \in Nat /\ i <= n /\ 1 <= i
        BY <1>1, <2>4
      <4>2. z \in Seq(Buffer)
        BY <2>9
      <4> QED
        BY <4>1, <4>2, SubSeqLen
    <3>2. \A m \in 1..(n - i) : z[m] = list[i + m]
      BY <1>1, <2>4, SMTT(20)
    <3> HIDE DEF b, z
    <3>3. j \in 1..(1 + (n - i)) /\ (<<b>> \o z)[j] = z[j - 1]
      <4>1. Len(z) \in Nat /\ 1 + Len(z) = 1 + (n - i)
        BY <3>1
      <4>2. j \in 1..(1 + Len(z)) /\ j # 1
        BY <3>1, <4>1
      <4>3. (<<b>> \o z)[j] = z[j - 1]
        BY ONLY <4>1, <4>2
      <4> QED
        BY <4>1, <4>2, <4>3
    <3>4. j - 1 \in 1..(n - i) /\ i + (j - 1) \in DOMAIN list /\ 1 <= i + (j - 1)
      BY <1>1, <3>1, <3>3
    <3> QED
      BY <3>2, <3>3, <3>4 DEF Whole
  <2> HIDE DEF b, z, rest, n
  <2>14. u < Len(Units(list)) /\ Len(Units(<<b>> \o z)) = Len(Units(list)) - u
    <3>1. /\ Ends(list, i) \in Nat /\ Len(Units(z)) \in Nat /\ b.left = Ends(list, i) - u
          /\ u < Ends(list, i)
      BY <2>4, <2>5, <2>8, <2>10
    <3> QED
      BY <2>10, <2>11, <3>1
  <2>15. ~(Len(Units(list)) <= u)
    BY <1>2, <2>14
  <2> QED
    BY <2>3, <2>12, <2>13, <2>14, <2>15, Zenon
<1> QED
  BY <1>3, <1>4
-----------------------------------------------------------------------------
(* What happens to the lists of a socket.                                  *)

\* The size that the thread keeps is that of the lists.
Sized(s) == s.wb = Len(Units(s.high)) + Len(Units(s.low))

\* What the lists of a socket do not touch.
Same(s, t) ==
  /\ t.type = s.type /\ t.id = s.id /\ t.closing = s.closing
  /\ t.reading = s.reading

LEMMA UnitsOfNone == Len(Units(<<>>)) = 0
<1>1. Len(<<>>) = 0
  OBVIOUS
<1> QED
  BY <1>1, UnitsEmpty

LEMMA HeadTail ==
  ASSUME NEW list \in Seq(Buffer), list # <<>>
  PROVE  /\ Head(list) \in Buffer /\ Tail(list) \in Seq(Buffer)
         /\ Len(Units(list)) = Head(list).left + Len(Units(Tail(list)))
         /\ \A n \in Nat : Whole(list, n + 1) => Whole(Tail(list), n)
         /\ Whole(list, 2) /\ Head(list).left = Unit => Whole(list, 1)
<1>1. /\ Head(list) \in Buffer /\ Tail(list) \in Seq(Buffer)
      /\ list = <<Head(list)>> \o Tail(list)
  OBVIOUS
<1>2. Len(Units(list)) = Head(list).left + Len(Units(Tail(list)))
  <2>1. Len(Units(<<Head(list)>> \o Tail(list)))
          = Len(Units(Tail(list))) + Head(list).left
    BY <1>1, UnitsLen
  <2>2. Len(Units(Tail(list))) \in Nat /\ Head(list).left \in Nat
    BY <1>1, UnitsLen, CopiesType
  <2>3. Len(Units(list)) = Len(Units(Tail(list))) + Head(list).left
    BY <1>1, <2>1, Zenon
  <2> QED
    BY <2>2, <2>3
<1>3. ASSUME NEW n \in Nat, Whole(list, n + 1) PROVE Whole(Tail(list), n)
  <2> SUFFICES ASSUME NEW i \in DOMAIN Tail(list), n <= i
               PROVE  Tail(list)[i].left = Unit
    BY DEF Whole
  <2>1. i + 1 \in DOMAIN list /\ Tail(list)[i] = list[i + 1] /\ n + 1 <= i + 1
    OBVIOUS
  <2> QED
    BY <1>3, <2>1 DEF Whole
<1>4. Whole(list, 2) /\ Head(list).left = Unit => Whole(list, 1)
  <2> SUFFICES ASSUME Whole(list, 2), Head(list).left = Unit, NEW i \in DOMAIN list
               PROVE  list[i].left = Unit
    BY DEF Whole
  <2>1. Head(list) = list[1] /\ i \in Nat /\ (i = 1 \/ 2 <= i)
    OBVIOUS
  <2> QED
    BY <2>1 DEF Whole
<1> QED
  BY <1>1, <1>2, <1>3, <1>4

LEMMA MergedFacts ==
  ASSUME TypeOK, NEW k \in Slot
  PROVE  /\ Merged(k) \in Socket
         /\ Same(slot[k], Merged(k)) /\ Merged(k).low = slot[k].low
         /\ Sized(slot[k]) => Sized(Merged(k))
         /\ dw[k] = None => Merged(k) = slot[k]
<1>1. slot[k] \in Socket /\ dw[k] \in Buffer \cup {None}
  BY DEF TypeOK
<1>2. CASE dw[k] = None
  BY <1>1, <1>2 DEF Merged, Same
<1>3. CASE dw[k] # None
  <2> DEFINE b == dw[k]
             s == slot[k]
  <2>1. b \in Buffer /\ s \in Socket /\ s.high \in Seq(Buffer)
    BY <1>1, <1>3 DEF Socket
  <2>2. b.left \in Nat
    BY <2>1, CopiesType
  <2>3. Merged(k) = [s EXCEPT !.high = <<b>> \o @, !.wb = @ + b.left]
    BY <1>3 DEF Merged
  <2>4. /\ <<b>> \o s.high \in Seq(Buffer)
        /\ Len(Units(<<b>> \o s.high)) = Len(Units(s.high)) + b.left
    BY <2>1, UnitsLen
  <2>5. Len(Units(s.high)) \in Nat /\ Len(Units(s.low)) \in Nat /\ s.wb \in Nat
    BY <2>1, UnitsLen DEF Socket
  <2> HIDE DEF b, s
  <2> DEFINE h == <<b>> \o s.high
             w == s.wb + b.left
  <2>6. h \in Seq(Buffer) /\ w \in Nat /\ Merged(k) = [s EXCEPT !.high = h, !.wb = w]
    BY <2>2, <2>3, <2>4, <2>5
  <2>7. Len(Units(h)) = Len(Units(s.high)) + b.left
    BY <2>4
  <2> HIDE DEF h
  <2>8. /\ Merged(k) \in Socket /\ Same(s, Merged(k))
        /\ Merged(k).high = h /\ Merged(k).low = s.low /\ Merged(k).wb = w
    <3> HIDE DEF w
    <3> QED
      BY <2>1, <2>6 DEF Socket, Same
  <2>9. Sized(s) => Sized(Merged(k))
    BY <2>2, <2>5, <2>7, <2>8 DEF Sized
  <2> QED
    BY <1>3, <2>8, <2>9 DEF s
<1> QED
  BY <1>2, <1>3

\* A part of the lists is written.
LEMMA SentFacts ==
  ASSUME NEW s \in Socket, Sized(s), Whole(s.low, 1),
         NEW u \in 0..(Len(Units(s.high)) + Len(Units(s.low)))
  PROVE  /\ Sent(s, u) \in Socket
         /\ Same(s, Sent(s, u)) /\ Sent(s, u).writing = s.writing
         /\ Sized(Sent(s, u)) /\ Whole(Sent(s, u).low, 1)
<1> DEFINE h == Len(Units(s.high))
           high == After(s.high, u)
           low == IF u <= h THEN s.low ELSE After(s.low, u - h)
           q == [s EXCEPT !.high = high, !.low = low, !.wb = @ - u]
<1>0. Sent(s, u) = Raised(q)
  BY DEF Sent
<1>1. /\ s.high \in Seq(Buffer) /\ s.low \in Seq(Buffer)
      /\ s.wb = h + Len(Units(s.low))
  BY DEF Socket, Sized
<1>2. h \in Nat /\ Len(Units(s.low)) \in Nat /\ u \in Nat
  BY <1>1, UnitsLen
<1>3. /\ high \in Seq(Buffer) /\ low \in Seq(Buffer)
      /\ Len(Units(high)) + Len(Units(low)) = h + Len(Units(s.low)) - u
      /\ Whole(low, 2)
      /\ high # <<>> => Whole(low, 1)
  <2>1. CASE u <= h
    <3>1. high \in Seq(Buffer) /\ Len(Units(high)) = h - u
      BY <1>1, <1>2, <2>1, AfterFacts
    <3>2. low = s.low
      BY <2>1
    <3>3. Whole(s.low, 2)
      BY <1>1 DEF Whole
    <3> QED
      BY <1>1, <1>2, <3>1, <3>2, <3>3
  <2>2. CASE ~(u <= h)
    <3>1. high = <<>>
      <4>1. Len(Units(s.high)) <= u
        BY <1>2, <2>2
      <4> QED
        BY <1>1, <1>2, <4>1, AfterFacts
    <3>2. u - h \in Nat /\ u - h <= Len(Units(s.low))
      BY <1>2, <2>2
    <3>3. low = After(s.low, u - h)
      BY <2>2
    <3>4. /\ low \in Seq(Buffer) /\ Whole(low, 2)
          /\ Len(Units(low)) = Len(Units(s.low)) - (u - h)
      <4> HIDE DEF h
      <4> QED
        BY <1>1, <3>2, <3>3, AfterFacts
    <3> HIDE DEF h, high, low
    <3>5. high \in Seq(Buffer)
      BY <3>1
    <3> QED
      BY <1>2, <3>1, <3>4, <3>5, UnitsOfNone
  <2> QED
    BY <2>1, <2>2
<1>4. Len(Units(high)) \in Nat /\ Len(Units(low)) \in Nat
  <2> HIDE DEF high, low
  <2> QED
    BY <1>3, UnitsLen
<1> HIDE DEF h, high, low
<1>5. /\ q \in Socket /\ Same(s, q) /\ q.writing = s.writing
      /\ q.high = high /\ q.low = low
      /\ q.wb = Len(Units(high)) + Len(Units(low))
  <2> DEFINE w == s.wb - u
  <2>1. w \in Nat /\ w = Len(Units(high)) + Len(Units(low))
    BY <1>1, <1>2, <1>3, <1>4
  <2>2. q = [s EXCEPT !.high = high, !.low = low, !.wb = w]
    OBVIOUS
  <2> HIDE DEF q, w
  <2> QED
    BY <1>3, <2>1, <2>2 DEF Socket, Same
<1> HIDE DEF q
<1>6. CASE q.high = <<>> /\ q.low # <<>> /\ Head(q.low).left < Unit
  <2> DEFINE b == Head(low)
             l == Tail(low)
  <2>1. /\ b \in Buffer /\ l \in Seq(Buffer) /\ Whole(l, 1)
        /\ Len(Units(low)) = b.left + Len(Units(l))
    <3>1. low # <<>>
      BY <1>5, <1>6
    <3>2. 1 \in Nat /\ 1 + 1 = 2
      OBVIOUS
    <3> QED
      BY <1>3, <3>1, <3>2, HeadTail
  <2>2. Raised(q) = [q EXCEPT !.high = <<b>>, !.low = l]
    BY <1>5, <1>6 DEF Raised
  <2>3. <<b>> \in Seq(Buffer) /\ Len(Units(<<b>>)) = b.left
    BY <2>1, UnitsOne, CopiesType
  <2>4. Len(Units(high)) = 0
    BY <1>5, <1>6, UnitsOfNone
  <2>5. Len(Units(l)) \in Nat /\ b.left \in Nat
    BY <2>1, UnitsLen, CopiesType
  <2> HIDE DEF b, l
  <2>6. /\ Raised(q) \in Socket /\ Same(q, Raised(q)) /\ Raised(q).writing = q.writing
        /\ Raised(q).high = <<b>> /\ Raised(q).low = l /\ Raised(q).wb = q.wb
    BY <1>5, <2>1, <2>2, <2>3 DEF Socket, Same
  <2> QED
    BY <1>0, <1>5, <2>1, <2>3, <2>4, <2>5, <2>6 DEF Sized, Same
<1>7. CASE ~(q.high = <<>> /\ q.low # <<>> /\ Head(q.low).left < Unit)
  <2>1. Raised(q) = q
    BY <1>7 DEF Raised
  <2>2. Whole(low, 1)
    <3>1. CASE low = <<>>
      BY <3>1 DEF Whole
    <3>2. CASE low # <<>> /\ high = <<>>
      <4>1. Head(low) \in Buffer /\ ~(Head(low).left < Unit)
        BY <1>3, <1>5, <1>7, <3>2
      <4>2. Head(low).left = Unit
        BY <4>1 DEF Buffer, Unit
      <4> QED
        BY <1>3, <3>2, <4>2, HeadTail
    <3> QED
      BY <1>3, <3>1, <3>2
  <2> QED
    BY <1>0, <1>5, <2>1, <2>2 DEF Sized
<1> QED
  BY <1>6, <1>7

\* A slot without anything to write does not write.
LEMMA SentNothing ==
  ASSUME NEW s \in Socket, BufferEmpty(s)
  PROVE  Sent(s, 0) = s
<1>1. s.high = <<>> /\ s.low = <<>> /\ s.wb \in Nat
  BY DEF BufferEmpty, Socket
<1>2. Len(Units(s.high)) = 0 /\ After(<<>>, 0) = <<>>
  <2>1. <<>> \in Seq(Buffer) /\ 0 \in Nat /\ Len(Units(<<>>)) <= 0
    BY UnitsOfNone
  <2> QED
    BY <1>1, <2>1, UnitsOfNone, AfterFacts
<1>3. [s EXCEPT !.high = <<>>, !.low = <<>>, !.wb = @ - 0] = s
  <2> DEFINE e == <<>>
             w == s.wb - 0
  <2>1. s.high = e /\ s.low = e /\ s.wb = w
    BY <1>1
  <2> HIDE DEF e, w
  <2>2. [s EXCEPT !.high = e, !.low = e, !.wb = w] = s
    BY <2>1 DEF Socket
  <2> QED
    BY <2>2 DEF e, w
<1>4. 0 <= Len(Units(s.high))
  BY <1>2
<1> QED
  BY <1>1, <1>2, <1>3, <1>4 DEF Sent, Raised

LEMMA QueuedFacts ==
  ASSUME NEW s \in Socket, NEW p \in Package, Sized(s), Whole(s.low, 1)
  PROVE  /\ Queued(s, p) \in Socket /\ Same(s, Queued(s, p))
         /\ Sized(Queued(s, p)) /\ Whole(Queued(s, p).low, 1)
<1> DEFINE b == [pkg |-> p, left |-> Unit]
           w == s.wb + Unit
           one == <<b>>
           high == Append(s.high, b)
           low == Append(s.low, b)
<1>1. b \in Buffer /\ b.left = Unit /\ Unit \in Nat
  BY DEF Buffer, Unit
<1>2. s.high \in Seq(Buffer) /\ s.low \in Seq(Buffer) /\ s.wb \in Nat
  BY DEF Socket
<1>3. /\ one \in Seq(Buffer) /\ high \in Seq(Buffer) /\ low \in Seq(Buffer)
  <2> HIDE DEF b
  <2> QED
    BY <1>1, <1>2
<1>4. /\ Len(Units(one)) = Unit
      /\ Len(Units(high)) = Len(Units(s.high)) + Unit
      /\ Len(Units(low)) = Len(Units(s.low)) + Unit
  <2> HIDE DEF b
  <2>1. Units(one) = Copies(b) /\ Len(Copies(b)) = b.left
    BY <1>1, UnitsOne, CopiesType
  <2>2. /\ Len(Units(high)) = Len(Units(s.high)) + b.left
        /\ Len(Units(low)) = Len(Units(s.low)) + b.left
    BY <1>1, <1>2, UnitsLen
  <2> QED
    BY <1>1, <2>1, <2>2
<1>5. Len(Units(s.high)) \in Nat /\ Len(Units(s.low)) \in Nat
  BY <1>2, UnitsLen
<1>6. Whole(low, 1)
  <2> SUFFICES ASSUME NEW i \in DOMAIN low PROVE low[i].left = Unit
    BY DEF Whole
  <2>1. \/ i \in DOMAIN s.low /\ low[i] = s.low[i] /\ 1 <= i
        \/ low[i] = b
    <3> HIDE DEF b
    <3> QED
      BY <1>1, <1>2
  <2> QED
    BY <1>1, <2>1 DEF Whole
<1>7. w \in Nat
  BY <1>1, <1>2
<1>8. CASE BufferEmpty(s)
  <2>1. Queued(s, p) = [s EXCEPT !.high = one, !.wb = w, !.writing = TRUE]
    BY <1>8 DEF Queued
  <2>2. s.high = <<>> /\ s.low = <<>>
    BY <1>8 DEF BufferEmpty
  <2>3. /\ Queued(s, p) \in Socket /\ Same(s, Queued(s, p))
        /\ Queued(s, p).high = one /\ Queued(s, p).low = s.low
        /\ Queued(s, p).wb = w
    <3> HIDE DEF one, w
    <3> QED
      BY <1>2, <1>3, <1>7, <2>1 DEF Socket, Same
  <2> HIDE DEF one
  <2> QED
    BY <1>1, <1>2, <1>4, <2>2, <2>3, UnitsOfNone DEF Sized
<1>9. CASE ~BufferEmpty(s) /\ p.kind = "P"
  <2>1. Queued(s, p) = [s EXCEPT !.low = low, !.wb = w]
    BY <1>9 DEF Queued
  <2>2. /\ Queued(s, p) \in Socket /\ Same(s, Queued(s, p))
        /\ Queued(s, p).high = s.high /\ Queued(s, p).low = low
        /\ Queued(s, p).wb = w
    <3> HIDE DEF low, w
    <3> QED
      BY <1>2, <1>3, <1>7, <2>1 DEF Socket, Same
  <2> HIDE DEF low
  <2> QED
    <3>1. w = Len(Units(s.high)) + Len(Units(low))
      BY <1>1, <1>2, <1>4, <1>5 DEF Sized
    <3> HIDE DEF w
    <3> QED
      BY <1>6, <2>2, <3>1, Zenon DEF Sized
<1>10. CASE ~BufferEmpty(s) /\ p.kind # "P"
  <2>1. Queued(s, p) = [s EXCEPT !.high = high, !.wb = w]
    BY <1>10 DEF Queued
  <2>2. /\ Queued(s, p) \in Socket /\ Same(s, Queued(s, p))
        /\ Queued(s, p).high = high /\ Queued(s, p).low = s.low
        /\ Queued(s, p).wb = w
    <3> HIDE DEF high, w
    <3> QED
      BY <1>2, <1>3, <1>7, <2>1 DEF Socket, Same
  <2> HIDE DEF high
  <2> QED
    <3>1. w = Len(Units(high)) + Len(Units(s.low))
      BY <1>1, <1>2, <1>4, <1>5 DEF Sized
    <3> HIDE DEF w
    <3> QED
      BY <2>2, <3>1, Zenon DEF Sized
<1> QED
  BY <1>8, <1>9, <1>10
-----------------------------------------------------------------------------
(* Types.                                                                  *)

LEMMA HashSlot ==
  ASSUME NEW x \in Nat
  PROVE  HASH(x) \in Slot
BY SocketServerAssumption DEF HASH, Slot

LEMMA Parts ==
  ASSUME SocketInv, ~failed
  PROVE  /\ TypeOK /\ CloseOnce /\ IdInv /\ OpenInv /\ ToldInv /\ FreshInv
         /\ CountInv /\ SizeInv /\ ForceInv /\ CloseInv
BY DEF SocketInv

\* A slot in use is its id's.
LEMMA SlotOf ==
  ASSUME TypeOK, IdInv, NEW k \in Slot
  PROVE  /\ slot[k] \in Socket /\ slot[k].id \in 0..MaxId
         /\ slot[k].id # 0 => slot[k].id \in Id /\ HASH(slot[k].id) = k
         /\ slot[k].type # "invalid" => slot[k].id \in Id
<1>1. slot[k] \in Socket
  BY DEF TypeOK
<1>2. slot[k].id \in 0..MaxId
  BY <1>1 DEF Socket
<1>3. slot[k].id # 0 => slot[k].id \in Id
  BY <1>2, SocketServerAssumption DEF Id
<1> QED
  BY <1>1, <1>2, <1>3 DEF IdInv

\* The head of the pipe.
LEMMA OpenAt ==
  ASSUME OpenInv, NEW i \in DOMAIN pipe, pipe[i].cmd = "O", NEW x, x = pipe[i].id
  PROVE  /\ slot[HASH(x)].id = x /\ slot[HASH(x)].type = "reserve"
         /\ told[x] \subseteq {"err"} /\ closes[x] = 0
         /\ \A j \in DOMAIN pipe : j < i => pipe[j].id # x
BY DEF OpenInv

LEMMA HeadPipe ==
  ASSUME TypeOK, IdInv, pipe # <<>>
  PROVE  /\ Head(pipe) \in Request /\ Tail(pipe) \in Seq(Request)
         /\ Head(pipe).id \in Id /\ HASH(Head(pipe).id) \in Slot
         /\ Head(pipe) = pipe[1] /\ 1 \in DOMAIN pipe
         /\ DOMAIN Tail(pipe) = 1..(Len(pipe) - 1)
         /\ \A i \in DOMAIN Tail(pipe) :
              i + 1 \in DOMAIN pipe /\ Tail(pipe)[i] = pipe[i + 1]
<1>1. pipe \in Seq(Request)
  BY DEF TypeOK
<1>2. /\ Head(pipe) \in Request /\ Tail(pipe) \in Seq(Request)
      /\ Head(pipe) = pipe[1] /\ 1 \in DOMAIN pipe
      /\ DOMAIN Tail(pipe) = 1..(Len(pipe) - 1)
      /\ \A i \in DOMAIN Tail(pipe) :
           i + 1 \in DOMAIN pipe /\ Tail(pipe)[i] = pipe[i + 1]
  BY <1>1
<1>3. Head(pipe).id \in Id /\ Head(pipe).id \in Nat
  BY <1>2 DEF Request, Id
<1> QED
  BY <1>2, <1>3, HashSlot
-----------------------------------------------------------------------------
(* What the thread's steps do to the slot they are about.                  *)

Puts(k, t) ==
  /\ k \in Slot /\ t \in Socket
  /\ slot' = [slot EXCEPT ![k] = t]

LEMMA PutsAt ==
  ASSUME TypeOK, NEW k \in Slot, NEW t, Puts(k, t)
  PROVE  /\ slot' \in [Slot -> Socket]
         /\ \A j \in Slot : slot'[j] = IF j = k THEN t ELSE slot[j]
BY DEF TypeOK, Puts

LEMMA NewFdPuts ==
  ASSUME NEW x \in Id, NEW type \in Types, NEW reading \in BOOLEAN,
         NEW writing \in BOOLEAN, NewFd(x, type, reading, writing)
  PROVE  Puts(HASH(x), [type |-> type, id |-> x, closing |-> FALSE,
                        reading |-> reading, writing |-> writing,
                        high |-> <<>>, low |-> <<>>, wb |-> 0])
<1>1. HASH(x) \in Slot /\ x \in 0..MaxId
  BY HashSlot, SocketServerAssumption DEF Id
<1>2. <<>> \in Seq(Buffer)
  OBVIOUS
<1> QED
  BY <1>1, <1>2 DEF NewFd, Puts, Socket

\* The lists of a slot are freed and nothing else.
LEMMA FreedFacts ==
  ASSUME NEW s \in Socket
  PROVE  /\ Freed(s) \in Socket /\ Same(s, Freed(s)) /\ BufferEmpty(Freed(s))
         /\ ForceClosed(Freed(s)) \in Socket /\ ForceClosed(s) \in Socket
         /\ ForceClosed(s).id = s.id /\ ForceClosed(s).type = "invalid"
         /\ ForceClosed(s).high = s.high /\ ForceClosed(s).low = s.low
<1> DEFINE e == <<>>
           t == [s EXCEPT !.high = e, !.low = e]
<1>1. e \in Seq(Buffer)
  OBVIOUS
<1>2. Freed(s) = t
  BY DEF Freed
<1> HIDE DEF e
<1>3. t \in Socket /\ Same(s, t) /\ t.high = e /\ t.low = e
  BY <1>1 DEF Socket, Same
<1> HIDE DEF t
<1>4. ASSUME NEW r \in Socket
      PROVE  /\ ForceClosed(r) \in Socket
             /\ ForceClosed(r).id = r.id /\ ForceClosed(r).type = "invalid"
             /\ ForceClosed(r).high = r.high /\ ForceClosed(r).low = r.low
  BY DEF ForceClosed, Socket, Types
<1> QED
  BY <1>2, <1>3, <1>4 DEF BufferEmpty, e

LEMMA ForceCloseAtPuts ==
  ASSUME TypeOK, NEW k \in Slot, NEW raise, ForceCloseAt(k, raise)
  PROVE  Puts(k, Freed(slot[k]))
<1>1. slot[k] \in Socket
  BY DEF TypeOK
<1> QED
  BY <1>1, FreedFacts DEF ForceCloseAt, Puts

LEMMA ConnectPuts ==
  ASSUME TypeOK, NEW x \in Id, Connect(x)
  PROVE  \E t : /\ Puts(HASH(x), t) /\ t.type = "reserve" /\ t.id = x
                /\ t.high = slot[HASH(x)].high /\ t.low = slot[HASH(x)].low
<1> DEFINE s == slot[HASH(x)]
           t == [s EXCEPT !.type = "reserve", !.id = x]
<1>1. HASH(x) \in Slot /\ x \in 0..MaxId /\ s \in Socket
  BY HashSlot, SocketServerAssumption DEF Id, TypeOK
<1>2. slot' = [slot EXCEPT ![HASH(x)] = t]
  BY DEF Connect, Reserved
<1> HIDE DEF s
<1>3. t \in Socket /\ t.type = "reserve" /\ t.id = x /\ t.high = s.high /\ t.low = s.low
  BY <1>1 DEF Socket, Types
<1> QED
  BY <1>1, <1>2, <1>3 DEF Puts, s

LEMMA OpenSocketPuts ==
  ASSUME TypeOK, IdInv, OpenSocket
  PROVE  LET x == Head(pipe).id IN
         \E t : /\ Puts(HASH(x), t)
                /\ \/ /\ t.type = "invalid" /\ t.id = slot[HASH(x)].id
                      /\ t.high = slot[HASH(x)].high /\ t.low = slot[HASH(x)].low
                      /\ UNCHANGED <<sending, dw, failed>>
                      /\ Tell(x, "err")
                   \/ /\ t.type \in {"connecting", "connected"} /\ t.id = x
                      /\ t.high = <<>> /\ t.low = <<>> /\ t.wb = 0
                      /\ sending' = [sending EXCEPT ![HASH(x)] = [id |-> x, n |-> 0]]
                      /\ dw' = [dw EXCEPT ![HASH(x)] = None]
                      /\ failed' = (slot[HASH(x)].type # "reserve" \/ ~BufferEmpty(slot[HASH(x)]))
                      /\ TellNothing \/ Tell(x, "open")
                      /\ ~TellNothing => t.type = "connected"
<1> DEFINE x == Head(pipe).id
           k == HASH(x)
<1>1. x \in Id /\ k \in Slot /\ slot[k] \in Socket
  BY HeadPipe DEF OpenSocket, Command, TypeOK
<1>2. CASE slot' = [slot EXCEPT ![k].type = "invalid"] /\ Tell(x, "err") /\ ClearClosed(x, "err")
           /\ UNCHANGED <<sending, dw, peer, failed>>
  <2> DEFINE t == [slot[k] EXCEPT !.type = "invalid"]
  <2>1. slot' = [slot EXCEPT ![k] = t]
    BY <1>2
  <2>2. t \in Socket /\ t.type = "invalid" /\ t.id = slot[k].id
        /\ t.high = slot[k].high /\ t.low = slot[k].low
    <3> HIDE DEF k
    <3> QED
      BY <1>1 DEF Socket, Types
  <2> HIDE DEF t
  <2> QED
    BY <1>1, <1>2, <2>1, <2>2 DEF Puts
<1>3. ASSUME NEW type \in {"connecting", "connected"}, NEW writing \in BOOLEAN,
             NewFd(x, type, TRUE, writing),
             TellNothing \/ Tell(x, "open"), ~TellNothing => type = "connected"
      PROVE  \E t : /\ Puts(k, t)
                    /\ t.type \in {"connecting", "connected"} /\ t.id = x
                    /\ t.high = <<>> /\ t.low = <<>> /\ t.wb = 0
                    /\ ~TellNothing => t.type = "connected"
  <2>1. type \in Types /\ TRUE \in BOOLEAN
    BY DEF Types
  <2> HIDE DEF x
  <2>2. Puts(k, [type |-> type, id |-> x, closing |-> FALSE,
                 reading |-> TRUE, writing |-> writing,
                 high |-> <<>>, low |-> <<>>, wb |-> 0])
    BY <1>1, <1>3, <2>1, NewFdPuts
  <2> QED
    BY <1>3, <2>2
<1>4. \/ /\ slot' = [slot EXCEPT ![k].type = "invalid"]
         /\ Tell(x, "err") /\ ClearClosed(x, "err")
         /\ UNCHANGED <<sending, dw, peer, failed>>
      \/ NewFd(x, "connecting", TRUE, TRUE) /\ TellNothing
      \/ NewFd(x, "connected", TRUE, FALSE) /\ Tell(x, "open")
  BY DEF OpenSocket
<1>5. ASSUME NEW type \in {"connecting", "connected"}, NEW writing \in BOOLEAN,
             NewFd(x, type, TRUE, writing)
      PROVE  /\ sending' = [sending EXCEPT ![k] = [id |-> x, n |-> 0]]
             /\ dw' = [dw EXCEPT ![k] = None]
             /\ failed' = (slot[k].type # "reserve" \/ ~BufferEmpty(slot[k]))
  BY <1>5, Zenon DEF NewFd
<1>6. CASE NewFd(x, "connecting", TRUE, TRUE) /\ TellNothing
  <2>1. "connecting" \in {"connecting", "connected"} /\ TRUE \in BOOLEAN
    OBVIOUS
  <2> HIDE DEF k, x
  <2> QED
    BY <1>3, <1>5, <1>6, <2>1, Zenon DEF k, x
<1>7. CASE NewFd(x, "connected", TRUE, FALSE) /\ Tell(x, "open")
  <2>1. "connected" \in {"connecting", "connected"} /\ FALSE \in BOOLEAN
    OBVIOUS
  <2> HIDE DEF k, x
  <2> QED
    BY <1>3, <1>5, <1>7, <2>1, Zenon DEF k, x
<1> QED
  BY <1>2, <1>4, <1>6, <1>7
\* The id and the lists of a slot stay.
Lists(s, t) ==
  /\ t.id = s.id /\ t.high = s.high /\ t.low = s.low /\ t.wb = s.wb

\* The fields that are set without the lists.
LEMMA FieldsSet ==
  ASSUME NEW s \in Socket, NEW type \in Types, NEW reading \in BOOLEAN,
         NEW writing \in BOOLEAN
  PROVE  /\ LET t == [s EXCEPT !.reading = reading, !.type = type] IN
              t \in Socket /\ Lists(s, t) /\ t.type = type
         /\ LET t == [s EXCEPT !.type = type, !.reading = reading] IN
              t \in Socket /\ Lists(s, t) /\ t.type = type
         /\ LET t == [s EXCEPT !.closing = TRUE, !.reading = reading, !.type = type] IN
              t \in Socket /\ Lists(s, t) /\ t.type = type
         /\ LET t == [s EXCEPT !.type = type, !.writing = writing] IN
              t \in Socket /\ Lists(s, t) /\ t.type = type
         /\ LET t == [s EXCEPT !.writing = writing] IN
              t \in Socket /\ Lists(s, t) /\ t.type = s.type
<1>2. LET t == [s EXCEPT !.reading = reading, !.type = type] IN
        t \in Socket /\ Lists(s, t) /\ t.type = type
  BY DEF Socket, Lists
<1>3. LET t == [s EXCEPT !.type = type, !.reading = reading] IN
        t \in Socket /\ Lists(s, t) /\ t.type = type
  BY DEF Socket, Lists
<1>4. LET t == [s EXCEPT !.closing = TRUE, !.reading = reading, !.type = type] IN
        t \in Socket /\ Lists(s, t) /\ t.type = type
  BY DEF Socket, Lists
<1>5. LET t == [s EXCEPT !.type = type, !.writing = writing] IN
        t \in Socket /\ Lists(s, t) /\ t.type = type
  BY DEF Socket, Lists
<1>6. LET t == [s EXCEPT !.writing = writing] IN
        t \in Socket /\ Lists(s, t) /\ t.type = s.type
  BY DEF Socket, Lists
<1> QED
  BY <1>2, <1>3, <1>4, <1>5, <1>6, Zenon

LEMMA ResumeSocketPuts ==
  ASSUME TypeOK, IdInv, ResumeSocket
  PROVE  LET x == Head(pipe).id
             k == HASH(x)
         IN  \/ UNCHANGED slot /\ Tell(x, "err")
             \/ /\ ~Invalid(x)
                /\ \E t : /\ Puts(k, t) /\ Lists(slot[k], t)
                          /\ t.type = IF slot[k].type = "paccept" THEN "connected"
                                      ELSE slot[k].type
                          /\ Raise(x, IF t.type = "connected" THEN "open" ELSE "none")
<1> DEFINE x == Head(pipe).id
           k == HASH(x)
           type == IF slot[k].type = "paccept" THEN "connected" ELSE slot[k].type
           t == [slot[k] EXCEPT !.reading = TRUE, !.type = type]
<1>1. x \in Id /\ k \in Slot /\ slot[k] \in Socket
  BY HeadPipe DEF ResumeSocket, Command, TypeOK
<1>2. CASE Invalid(x) \/ slot[k].type = "halfclose_read"
  BY <1>2 DEF ResumeSocket
<1>3. CASE ~(Invalid(x) \/ slot[k].type = "halfclose_read")
  <2>1. slot' = [slot EXCEPT ![k] = t]
    BY <1>3 DEF ResumeSocket
  <2>2. type \in Types
    BY <1>1 DEF Socket, Types
  <2>3. t \in Socket /\ Lists(slot[k], t) /\ t.type = type
    <3> HIDE DEF k, type
    <3> QED
      BY <1>1, <2>2, FieldsSet
  <2>4. slot'[k] = t
    <3> HIDE DEF k, t
    <3> QED
      BY <1>1, <2>1 DEF TypeOK
  <2>5. Raise(x, IF slot'[k].type = "connected" THEN "open" ELSE "none")
    BY <1>3 DEF ResumeSocket
  <2>6. Puts(k, t)
    BY <1>1, <2>1, <2>3 DEF Puts
  <2> HIDE DEF t
  <2>7. /\ ~Invalid(x) /\ Puts(k, t) /\ Lists(slot[k], t) /\ t.type = type
        /\ Raise(x, IF t.type = "connected" THEN "open" ELSE "none")
    BY <1>3, <2>3, <2>4, <2>5, <2>6
  <2> QED
    BY <2>7
<1> QED
  BY <1>2, <1>3

LEMMA CloseSocketPuts ==
  ASSUME TypeOK, IdInv, NEW cmd, CloseSocket(cmd)
  PROVE  LET x == Head(pipe).id
             k == HASH(x)
         IN  \/ UNCHANGED <<slot, force, failed>> /\ TellNothing
             \/ /\ ~Invalid(x)
                /\ ForceCloseAt(k, Raises(k)) /\ TellNothing
             \/ /\ ~Invalid(x)
                /\ \E t : /\ Puts(k, t) /\ Lists(slot[k], t)
                          /\ t.type = "halfclose_read"
                /\ Raise(x, Raises(k))
                /\ UNCHANGED <<force, failed>>
<1> DEFINE x == Head(pipe).id
           k == HASH(x)
           t == [slot[k] EXCEPT !.closing = TRUE, !.reading = FALSE,
                                !.type = "halfclose_read"]
<1>1. x \in Id /\ k \in Slot /\ slot[k] \in Socket
  BY HeadPipe DEF CloseSocket, Command, TypeOK
<1>2. t \in Socket /\ Lists(slot[k], t) /\ t.type = "halfclose_read"
  <2>1. "halfclose_read" \in Types /\ FALSE \in BOOLEAN
    BY DEF Types
  <2> HIDE DEF k
  <2> QED
    BY <1>1, <2>1, FieldsSet
<1>3. \/ UNCHANGED <<slot, force, failed>> /\ TellNothing
      \/ /\ ~Invalid(x)
         /\ ForceCloseAt(k, Raises(k)) /\ TellNothing
      \/ /\ ~Invalid(x)
         /\ slot' = [slot EXCEPT ![k] = t]
         /\ Raise(x, Raises(k))
         /\ UNCHANGED <<force, failed>>
  BY DEF CloseSocket
<1>4. slot' = [slot EXCEPT ![k] = t] => Puts(k, t)
  BY <1>1, <1>2 DEF Puts
<1> HIDE DEF k, x, t
<1>5. slot' = [slot EXCEPT ![k] = t]
        => \E u : Puts(k, u) /\ Lists(slot[k], u) /\ u.type = "halfclose_read"
  BY <1>2, <1>4
<1> QED
  BY <1>3, <1>5, Zenon DEF k, x

LEMMA SendSocketPuts ==
  ASSUME TypeOK, IdInv, ToldInv, SizeInv, SendSocket
  PROVE  LET x == Head(pipe).id
             k == HASH(x)
             p == Head(pipe).pkg
         IN  /\ p \in Package /\ p.to = x
             /\ \/ UNCHANGED slot
                \/ /\ slot[k].id = x /\ Alive(k)
                   /\ Puts(k, Queued(slot[k], p))
                   /\ Same(slot[k], Queued(slot[k], p))
                   /\ Sized(Queued(slot[k], p)) /\ Whole(Queued(slot[k], p).low, 1)
<1> DEFINE x == Head(pipe).id
           k == HASH(x)
           p == Head(pipe).pkg
<1>1. /\ x \in Id /\ k \in Slot /\ slot[k] \in Socket
      /\ Head(pipe) \in Request /\ Head(pipe).cmd = "D" /\ Head(pipe) = pipe[1]
      /\ 1 \in DOMAIN pipe
  BY HeadPipe DEF SendSocket, Command, TypeOK
<1>2. p \in Package /\ p.to = x /\ "open" \in told[x]
  BY <1>1 DEF Request, ToldInv
<1>3. slot' = IF Refuses(slot[k], x) THEN slot ELSE [slot EXCEPT ![k] = Queued(@, p)]
  BY <1>2 DEF SendSocket
<1>4. ASSUME ~Refuses(slot[k], x)
      PROVE  /\ slot[k].id = x /\ Alive(k)
             /\ Puts(k, Queued(slot[k], p))
             /\ Same(slot[k], Queued(slot[k], p))
             /\ Sized(Queued(slot[k], p)) /\ Whole(Queued(slot[k], p).low, 1)
  <2>1. slot[k].id = x /\ slot[k].type # "invalid"
    BY <1>4 DEF Refuses
  <2>2. Alive(k)
    BY <1>1, <1>2, <2>1 DEF ToldInv, Alive
  <2>3. Sized(slot[k]) /\ Whole(slot[k].low, 1)
    BY <1>1, <2>2 DEF SizeInv, Sized, SendSocket, Command
  <2>4. /\ Queued(slot[k], p) \in Socket /\ Same(slot[k], Queued(slot[k], p))
        /\ Sized(Queued(slot[k], p)) /\ Whole(Queued(slot[k], p).low, 1)
    <3> HIDE DEF k, p
    <3> QED
      BY <1>1, <1>2, <2>3, QueuedFacts
  <2>5. Puts(k, Queued(slot[k], p))
    BY <1>1, <1>3, <1>4, <2>4 DEF Puts
  <2> QED
    BY <2>1, <2>2, <2>4, <2>5
<1> QED
  BY <1>2, <1>3, <1>4

LEMMA TriggerWritePuts ==
  ASSUME TypeOK, IdInv, TriggerWrite
  PROVE  LET x == Head(pipe).id
             k == HASH(x)
         IN  \/ UNCHANGED slot
             \/ /\ ~Invalid(x)
                /\ \E t : Puts(k, t) /\ Lists(slot[k], t) /\ t.type = slot[k].type
<1> DEFINE x == Head(pipe).id
           k == HASH(x)
           t == [slot[k] EXCEPT !.writing = TRUE]
<1>1. x \in Id /\ k \in Slot /\ slot[k] \in Socket
  BY HeadPipe DEF TriggerWrite, Command, TypeOK
<1>2. t \in Socket /\ Lists(slot[k], t) /\ t.type = slot[k].type
  <2>1. ASSUME NEW r \in Socket
        PROVE  LET q == [r EXCEPT !.writing = TRUE] IN
                 q \in Socket /\ Lists(r, q) /\ q.type = r.type
    BY DEF Socket, Lists
  <2> HIDE DEF k
  <2> QED
    BY <1>1, <2>1
<1>3. ~Invalid(x) => slot' = [slot EXCEPT ![k] = t]
  BY DEF TriggerWrite
<1>4. ~Invalid(x) => Puts(k, t)
  BY <1>1, <1>2, <1>3 DEF Puts
<1>5. Invalid(x) => UNCHANGED slot
  BY DEF TriggerWrite
<1> HIDE DEF t
<1> QED
  BY <1>2, <1>4, <1>5

LEMMA ForceClosePuts ==
  ASSUME TypeOK, ForceInv, ForceClose
  PROVE  LET k == force.s IN
         /\ k \in Slot /\ Alive(k) /\ lock[k] = None
         /\ Puts(k, ForceClosed(slot[k]))
         /\ dw' = [dw EXCEPT ![k] = None]
<1>1. force.s \in Slot /\ Alive(force.s)
  BY DEF TypeOK, ForceInv, ForceClose
<1>2. slot[force.s] \in Socket
  BY <1>1 DEF TypeOK
<1>3. ForceClosed(slot[force.s]) \in Socket
  BY <1>2, FreedFacts
<1> QED
  BY <1>1, <1>3 DEF ForceClose, Puts

LEMMA AcceptPuts ==
  ASSUME TypeOK, NEW x \in Id, Accept(x)
  PROVE  \E t : /\ Puts(HASH(x), t) /\ t.type = "paccept" /\ t.id = x
                /\ t.high = <<>> /\ t.low = <<>> /\ t.wb = 0
<1> DEFINE t == [type |-> "paccept", id |-> x, closing |-> FALSE,
                 reading |-> FALSE, writing |-> FALSE, high |-> <<>>, low |-> <<>>,
                 wb |-> 0]
<1>1. HASH(x) \in Slot /\ x \in 0..MaxId
  BY HashSlot, SocketServerAssumption DEF Id
<1>2. t \in Socket
  <2>1. <<>> \in Seq(Buffer)
    OBVIOUS
  <2> QED
    BY <1>1, <2>1 DEF Socket, Types
<1>3. slot' = [slot EXCEPT ![HASH(x)] = t]
  BY DEF Accept
<1>4. /\ Puts(HASH(x), t) /\ t.type = "paccept" /\ t.id = x
      /\ t.high = <<>> /\ t.low = <<>> /\ t.wb = 0
  BY <1>1, <1>2, <1>3 DEF Puts
<1> HIDE DEF t
<1> QED
  BY <1>4
LEMMA EventSlot ==
  ASSUME TypeOK, NEW e \in ev \ {None}
  PROVE  e \in Event /\ e.s \in Slot /\ slot[e.s] \in Socket
<1>1. e \in Event
  BY DEF TypeOK
<1> QED
  BY <1>1 DEF Event, TypeOK

LEMMA ReportConnectPuts ==
  ASSUME TypeOK, NEW e \in ev \ {None}, ReportConnect(e)
  PROVE  LET k == e.s IN
         /\ slot[k].type = "connecting"
         /\ \/ ForceCloseAt(k, "err") /\ TellNothing
            \/ /\ \E t : /\ Puts(k, t) /\ Lists(slot[k], t) /\ t.type = "connected"
               /\ Tell(slot[k].id, "open")
               /\ UNCHANGED <<force, failed>>
<1> DEFINE k == e.s
           w == slot[k].writing /\ ~NoMoreSending(k)
           t == [slot[k] EXCEPT !.type = "connected", !.writing = w]
<1>1. k \in Slot /\ slot[k] \in Socket
  BY EventSlot
<1>2. w \in BOOLEAN
  BY Zenon
<1>3. "connected" \in Types
  BY DEF Types
<1>4. t \in Socket /\ Lists(slot[k], t) /\ t.type = "connected"
  <2> HIDE DEF k, w
  <2> QED
    BY <1>1, <1>2, <1>3 DEF Socket, Lists
<1>5. /\ slot[k].type = "connecting"
      /\ \/ ForceCloseAt(k, "err") /\ TellNothing
         \/ /\ slot' = [slot EXCEPT ![k] = t]
            /\ Tell(slot[k].id, "open")
            /\ UNCHANGED <<force, failed>>
  BY DEF ReportConnect
<1>6. slot' = [slot EXCEPT ![k] = t] => Puts(k, t)
  BY <1>1, <1>4 DEF Puts
<1> HIDE DEF t
<1>7. slot' = [slot EXCEPT ![k] = t]
        => \E u : Puts(k, u) /\ Lists(slot[k], u) /\ u.type = "connected"
  BY <1>4, <1>6
<1> HIDE DEF k
<1> QED
  BY <1>5, <1>7, Zenon DEF k

LEMMA ReadEndPuts ==
  ASSUME TypeOK, NEW e \in ev \ {None}, ReadEnd(e)
  PROVE  LET k == e.s IN
         /\ Alive(k)
         /\ \/ UNCHANGED <<slot, force, failed>> /\ TellNothing
            \/ ForceCloseAt(k, "none") /\ TellNothing
            \/ /\ slot[k].type # "halfclose_read"
               /\ ForceCloseAt(k, "close") /\ TellNothing
            \/ /\ slot[k].type # "halfclose_read"
               /\ \E t : /\ Puts(k, t) /\ Lists(slot[k], t)
                         /\ t.type = "halfclose_read"
               /\ TellClose(slot[k].id)
               /\ UNCHANGED <<force, failed>>
<1> DEFINE k == e.s
           t == [slot[k] EXCEPT !.type = "halfclose_read", !.reading = FALSE]
<1>1. k \in Slot /\ slot[k] \in Socket
  BY EventSlot
<1>2. "halfclose_read" \in Types /\ FALSE \in BOOLEAN
  BY DEF Types
<1>3. t \in Socket /\ Lists(slot[k], t) /\ t.type = "halfclose_read"
  <2> HIDE DEF k
  <2> QED
    BY <1>1, <1>2, FieldsSet
<1>4. /\ Alive(k)
      /\ \/ UNCHANGED <<slot, force, failed>> /\ TellNothing
         \/ ForceCloseAt(k, "none") /\ TellNothing
         \/ /\ slot[k].type # "halfclose_read"
            /\ ForceCloseAt(k, "close") /\ TellNothing
         \/ /\ slot[k].type # "halfclose_read"
            /\ slot' = [slot EXCEPT ![k] = t]
            /\ TellClose(slot[k].id)
            /\ UNCHANGED <<force, failed>>
  BY DEF ReadEnd, Default, Alive
<1>5. slot' = [slot EXCEPT ![k] = t] => Puts(k, t)
  BY <1>1, <1>3 DEF Puts
<1> HIDE DEF t
<1>6. slot' = [slot EXCEPT ![k] = t]
        => \E u : Puts(k, u) /\ Lists(slot[k], u) /\ u.type = "halfclose_read"
  BY <1>3, <1>5
<1> HIDE DEF k
<1> QED
  BY <1>4, <1>6, Zenon DEF k

\* A slot that may be written on has its lists sized; one that is reserved has
\* none.
LEMMA MergedSized ==
  ASSUME TypeOK, FreshInv, SizeInv, force = None, NEW k \in Slot,
         slot[k].type # "invalid"
  PROVE  \/ Alive(k) /\ Sized(Merged(k)) /\ Whole(Merged(k).low, 1)
         \/ ~Alive(k) /\ Merged(k) = slot[k] /\ BufferEmpty(slot[k])
<1>1. CASE Alive(k)
  BY <1>1, MergedFacts DEF SizeInv, Sized
<1>2. CASE ~Alive(k)
  BY <1>2, MergedFacts DEF FreshInv
<1> QED
  BY <1>1, <1>2

\* The units that are to be written.
LEMMA AllUnits ==
  ASSUME NEW s \in Socket
  PROVE  /\ Units(s.high) \o Units(s.low) \in Seq(Package)
         /\ Len(Units(s.high) \o Units(s.low))
              = Len(Units(s.high)) + Len(Units(s.low))
         /\ BufferEmpty(s) => Len(Units(s.high) \o Units(s.low)) = 0
<1>1. Units(s.high) \in Seq(Package) /\ Units(s.low) \in Seq(Package)
  BY UnitsConcat DEF Socket
<1>2. /\ Units(s.high) \o Units(s.low) \in Seq(Package)
      /\ Len(Units(s.high) \o Units(s.low))
           = Len(Units(s.high)) + Len(Units(s.low))
  BY <1>1, ConcatProperties
<1>3. BufferEmpty(s)
        => Len(Units(s.high)) = 0 /\ Len(Units(s.low)) = 0
  BY UnitsOfNone DEF BufferEmpty
<1> QED
  BY <1>2, <1>3

LEMMA SendBufferPuts ==
  ASSUME TypeOK, FreshInv, SizeInv, NEW e \in ev \ {None}, NEW u, SendBuffer(e, u)
  PROVE  LET k == e.s
             t == Sent(Merged(k), u)
         IN  /\ t \in Socket /\ Same(slot[k], t)
             /\ slot[k].type # "invalid" /\ lock[k] = None
             /\ Alive(k) => Sized(t) /\ Whole(t.low, 1)
             /\ ~Alive(k) => BufferEmpty(t)
             /\ \/ /\ ~BufferEmpty(t) /\ Puts(k, t)
                \/ /\ BufferEmpty(t) /\ t.closing /\ Puts(k, ForceClosed(t))
                \/ /\ BufferEmpty(t) /\ ~t.closing
                   /\ \E r : Puts(k, r) /\ Lists(t, r) /\ r.type = t.type
<1> DEFINE k == e.s
           s == Merged(k)
           t == Sent(s, u)
           all == Units(s.high) \o Units(s.low)
<1>1. k \in Slot /\ slot[k] \in Socket
  BY EventSlot
<1>2. /\ slot[k].type # "invalid" /\ lock[k] = None /\ u \in 0..Len(all)
      /\ force = None
  BY DEF SendBuffer, Default, Handling
<1>3. s \in Socket /\ Same(slot[k], s)
  BY <1>1, MergedFacts
<1>4. /\ t \in Socket /\ Same(slot[k], t)
      /\ Alive(k) => Sized(t) /\ Whole(t.low, 1)
      /\ ~Alive(k) => BufferEmpty(t)
  <2>1. CASE Alive(k)
    <3>1. Sized(s) /\ Whole(s.low, 1)
      BY <1>1, <1>2, <2>1, MergedSized
    <3>2. u \in 0..(Len(Units(s.high)) + Len(Units(s.low)))
      BY <1>2, <1>3, AllUnits
    <3>3. t \in Socket /\ Same(s, t) /\ Sized(t) /\ Whole(t.low, 1)
      <4> HIDE DEF s
      <4> QED
        BY <1>3, <3>1, <3>2, SentFacts
    <3> QED
      BY <1>3, <2>1, <3>3 DEF Same
  <2>2. CASE ~Alive(k)
    <3>1. s = slot[k] /\ BufferEmpty(s)
      BY <1>1, <1>2, <2>2, MergedSized
    <3>2. u = 0
      BY <1>2, <1>3, <3>1, AllUnits
    <3>3. t = s
      <4> HIDE DEF s
      <4> QED
        BY <1>3, <3>1, <3>2, SentNothing
    <3> QED
      BY <1>3, <2>2, <3>1, <3>3
  <2> QED
    BY <2>1, <2>2
<1>5. slot' = [slot EXCEPT ![k] = IF ~BufferEmpty(t) THEN t
                                  ELSE IF t.closing THEN ForceClosed(t)
                                  ELSE [t EXCEPT !.writing = FALSE]]
  BY DEF SendBuffer
<1> DEFINE r == [t EXCEPT !.writing = FALSE]
<1>6. r \in Socket /\ Lists(t, r) /\ r.type = t.type
  <2>1. FALSE \in BOOLEAN /\ "invalid" \in Types
    BY DEF Types
  <2> HIDE DEF t
  <2> QED
    BY <1>4, <2>1, FieldsSet
<1>7. ForceClosed(t) \in Socket
  BY <1>4, FreedFacts
<1> HIDE DEF k, t, r
<1>8. \/ ~BufferEmpty(t) /\ Puts(k, t)
      \/ BufferEmpty(t) /\ t.closing /\ Puts(k, ForceClosed(t))
      \/ BufferEmpty(t) /\ ~t.closing /\ Puts(k, r)
  BY <1>1, <1>4, <1>5, <1>6, <1>7 DEF Puts, r
<1>9. \/ ~BufferEmpty(t) /\ Puts(k, t)
      \/ BufferEmpty(t) /\ t.closing /\ Puts(k, ForceClosed(t))
      \/ /\ BufferEmpty(t) /\ ~t.closing
         /\ \E q : Puts(k, q) /\ Lists(t, q) /\ q.type = t.type
  BY <1>6, <1>8
<1> QED
  BY <1>2, <1>4, <1>9 DEF k, t

LEMMA WriteErrorPuts ==
  ASSUME TypeOK, FreshInv, SizeInv, NEW e \in ev \ {None}, WriteError(e)
  PROVE  LET k == e.s
             s == Merged(k)
         IN  /\ s \in Socket /\ Same(slot[k], s)
             /\ Alive(k) /\ Sized(s) /\ Whole(s.low, 1) /\ lock[k] = None
             /\ dw' = [dw EXCEPT ![k] = None]
             /\ \/ Puts(k, ForceClosed(Freed(s))) /\ TellNothing
                \/ Puts(k, s) /\ TellNothing
                \/ /\ ~s.closing /\ s.type # "halfclose_read"
                   /\ \E t : Puts(k, t) /\ Lists(s, t) /\ t.type = "halfclose_write"
                   /\ Tell(slot[k].id, "err")
<1> DEFINE k == e.s
           s == Merged(k)
           t == [s EXCEPT !.type = "halfclose_write", !.writing = FALSE]
<1>1. k \in Slot /\ slot[k] \in Socket
  BY EventSlot
<1>2. /\ slot[k].type # "invalid" /\ lock[k] = None /\ force = None
      /\ ~BufferEmpty(s)
      /\ dw' = [dw EXCEPT ![k] = None]
      /\ \/ slot' = [slot EXCEPT ![k] = ForceClosed(Freed(s))] /\ TellNothing
         \/ slot' = [slot EXCEPT ![k] = s] /\ TellNothing
         \/ /\ ~s.closing /\ s.type # "halfclose_read"
            /\ slot' = [slot EXCEPT ![k] = t]
            /\ Tell(slot[k].id, "err")
  BY DEF WriteError, Default, Handling
<1>3. s \in Socket /\ Same(slot[k], s)
  BY <1>1, MergedFacts
<1>4. Alive(k) /\ Sized(s) /\ Whole(s.low, 1)
  BY <1>1, <1>2, MergedSized
<1>5. t \in Socket /\ Lists(s, t) /\ t.type = "halfclose_write"
  <2>1. ASSUME NEW r \in Socket
        PROVE  LET q == [r EXCEPT !.type = "halfclose_write", !.writing = FALSE] IN
                 q \in Socket /\ Lists(r, q) /\ q.type = "halfclose_write"
    BY DEF Socket, Lists, Types
  <2> HIDE DEF s
  <2> QED
    BY <1>3, <2>1
<1>6. ForceClosed(Freed(s)) \in Socket
  BY <1>3, FreedFacts
<1> HIDE DEF k, s, t
<1>7. slot' = [slot EXCEPT ![k] = t]
        => \E q : Puts(k, q) /\ Lists(s, q) /\ q.type = "halfclose_write"
  BY <1>1, <1>5 DEF Puts
<1>8. /\ slot' = [slot EXCEPT ![k] = s] => Puts(k, s)
      /\ slot' = [slot EXCEPT ![k] = ForceClosed(Freed(s))]
           => Puts(k, ForceClosed(Freed(s)))
  BY <1>1, <1>3, <1>6 DEF Puts
<1>9. \/ Puts(k, ForceClosed(Freed(s))) /\ TellNothing
      \/ Puts(k, s) /\ TellNothing
      \/ /\ ~s.closing /\ s.type # "halfclose_read"
         /\ \E q : Puts(k, q) /\ Lists(s, q) /\ q.type = "halfclose_write"
         /\ Tell(slot[k].id, "err")
  BY <1>2, <1>7, <1>8, Zenon
<1> QED
  BY <1>2, <1>3, <1>4, <1>9, Zenon DEF k, s
-----------------------------------------------------------------------------
(* What a step does to the slot of one socket.                             *)

\* A request that is not the first one of its socket finds its connection.
LEMMA NotReserved ==
  ASSUME TypeOK, IdInv, OpenInv, pipe # <<>>, Head(pipe).cmd # "O",
         ~Invalid(Head(pipe).id)
  PROVE  Alive(HASH(Head(pipe).id))
<1> DEFINE x == Head(pipe).id
           k == HASH(x)
<1>1. /\ k \in Slot /\ Head(pipe) = pipe[1] /\ 1 \in DOMAIN pipe
      /\ DOMAIN pipe \subseteq Nat \ {0}
  BY HeadPipe DEF TypeOK
<1>2. slot[k].id = x /\ slot[k].type # "invalid"
  BY DEF Invalid
<1>3. ASSUME slot[k].type = "reserve" PROVE FALSE
  <2>1. PICK i \in DOMAIN pipe : pipe[i].cmd = "O" /\ pipe[i].id = x
    BY <1>1, <1>2, <1>3 DEF OpenInv
  <2>2. i # 1 /\ 1 < i
    BY <1>1, <2>1
  <2>3. pipe[1].id # pipe[i].id
    BY <1>1, <2>1, <2>2, Zenon DEF OpenInv
  <2> QED
    BY <1>1, <2>1, <2>3
<1> QED
  BY <1>2, <1>3 DEF Alive

\* A step of the thread on a slot that is taken: it keeps its socket, and is as
\* the invariants want it.
Touch(k, t) ==
  /\ Puts(k, t) /\ t.id = slot[k].id
  /\ \/ Alive(k) /\ t.type # "reserve"
     \/ slot[k].type = "reserve" /\ t.type = "reserve"
  /\ dw' = dw \/ dw' = [dw EXCEPT ![k] = None]
  /\ t.type \in {"invalid", "reserve"} => BufferEmpty(t) /\ dw'[k] = None
  /\ t.type = "invalid" => lock[k] = None
  /\ \/ t.type \in {"invalid", "reserve"}
     \/ force' # None /\ force'.s = k
     \/ Sized(t)
  /\ Whole(t.low, 1)
  /\ slot[k].type = "halfclose_read" => t.type \in {"halfclose_read", "invalid"}

\* A slot in use whose lists are not freed yet.
LEMMA SizedSlot ==
  ASSUME TypeOK, SizeInv, NEW k \in Slot, Alive(k), force = None
  PROVE  Sized(slot[k]) /\ Whole(slot[k].low, 1)
BY DEF SizeInv, Sized

\* One of its fields is set, and nothing else.
LEMMA TouchLists ==
  ASSUME TypeOK, SizeInv, NEW k \in Slot, Alive(k), force = None, NEW t,
         Puts(k, t), Lists(slot[k], t), t.type \notin {"invalid", "reserve"},
         slot[k].type = "halfclose_read" => t.type = "halfclose_read",
         UNCHANGED dw
  PROVE  Touch(k, t)
<1>1. Sized(slot[k]) /\ Whole(slot[k].low, 1)
  BY SizedSlot
<1>2. Sized(t) /\ Whole(t.low, 1) /\ t.id = slot[k].id
  BY <1>1, Zenon DEF Sized, Lists
<1> QED
  BY <1>2, Zenon DEF Touch

LEMMA TouchForce ==
  ASSUME TypeOK, FreshInv, ~failed', NEW k \in Slot, slot[k].type # "invalid",
         NEW raise \in {"close", "err", "none"}, ForceCloseAt(k, raise),
         UNCHANGED dw
  PROVE  /\ Alive(k) /\ Touch(k, Freed(slot[k]))
         /\ force' # None /\ force'.s = k /\ force'.raise = raise
<1>1. slot[k] \in Socket /\ slot[k].type # "reserve"
  BY DEF TypeOK, ForceCloseAt
<1>2. Alive(k)
  BY <1>1 DEF Alive
<1>3. force' # None /\ force'.s = k /\ force'.raise = raise
  <2>1. force' = [s |-> k, raise |-> raise]
    BY DEF ForceCloseAt
  <2>2. [s |-> k, raise |-> raise] \in [s : Slot, raise : {"close", "err", "none"}]
    OBVIOUS
  <2> QED
    BY <2>1, <2>2, SocketServerAssumption DEF Slot
<1>4. /\ Puts(k, Freed(slot[k])) /\ Same(slot[k], Freed(slot[k]))
      /\ BufferEmpty(Freed(slot[k]))
  BY <1>1, ForceCloseAtPuts, FreedFacts
<1>5. Whole(Freed(slot[k]).low, 1)
  BY <1>4 DEF BufferEmpty, Whole
<1>6. Touch(k, Freed(slot[k]))
  <2> DEFINE t == Freed(slot[k])
  <2>1. t.type = slot[k].type /\ t.id = slot[k].id
    BY <1>4 DEF Same
  <2> HIDE DEF t
  <2> QED
    BY <1>2, <1>3, <1>4, <1>5, <2>1 DEF Touch, Alive, t
<1> QED
  BY <1>2, <1>3, <1>6

\* The steps of the thread that change the slot of a socket.
ChangesSlot ==
  \/ ResumeSocket \/ CloseSocket("K") \/ CloseSocket("X") \/ SendSocket
  \/ TriggerWrite \/ ForceClose
  \/ \E e \in ev \ {None} :
       ReportConnect(e) \/ ReadEnd(e) \/ EofEvent(e) \/ WriteError(e)
         \/ \E u : SendBuffer(e, u)

LEMMA ResumeTouch ==
  ASSUME SocketInv, ~failed, ResumeSocket, UNCHANGED slot => FALSE
  PROVE  \E k \in Slot : \E t : Touch(k, t)
<1>1. /\ TypeOK /\ IdInv /\ OpenInv /\ SizeInv
      /\ pipe # <<>> /\ Head(pipe).cmd # "O" /\ force = None /\ UNCHANGED dw
  BY Parts DEF ResumeSocket, Command
<1> DEFINE k == HASH(Head(pipe).id)
<1>2. k \in Slot
  BY <1>1, HeadPipe
<1>3. /\ ~Invalid(Head(pipe).id)
      /\ \E t : /\ Puts(k, t) /\ Lists(slot[k], t)
                /\ t.type = IF slot[k].type = "paccept" THEN "connected"
                            ELSE slot[k].type
  BY <1>1, ResumeSocketPuts, Zenon
<1>4. Alive(k)
  BY <1>1, <1>3, NotReserved
<1> HIDE DEF k
<1>5. PICK t : /\ Puts(k, t) /\ Lists(slot[k], t)
               /\ t.type = IF slot[k].type = "paccept" THEN "connected"
                           ELSE slot[k].type
  BY <1>3
<1>6. /\ t.type \notin {"invalid", "reserve"}
      /\ slot[k].type = "halfclose_read" => t.type = "halfclose_read"
  BY <1>4, <1>5 DEF Alive
<1>7. Touch(k, t)
  BY <1>1, <1>2, <1>4, <1>5, <1>6, TouchLists
<1> QED
  BY <1>2, <1>7

LEMMA CloseTouch ==
  ASSUME SocketInv, ~failed, ~failed', NEW cmd \in {"K", "X"}, CloseSocket(cmd),
         UNCHANGED slot => FALSE
  PROVE  \E k \in Slot : \E t : Touch(k, t)
<1>1. /\ TypeOK /\ IdInv /\ OpenInv /\ SizeInv /\ FreshInv
      /\ pipe # <<>> /\ Head(pipe).cmd # "O" /\ force = None /\ UNCHANGED dw
  BY Parts DEF CloseSocket, Command
<1> DEFINE x == Head(pipe).id
           k == HASH(x)
<1>2. k \in Slot
  BY <1>1, HeadPipe
<1>3. /\ ~Invalid(x)
      /\ \/ ForceCloseAt(k, Raises(k)) /\ TellNothing
         \/ \E t : /\ Puts(k, t) /\ Lists(slot[k], t) /\ t.type = "halfclose_read"
  BY <1>1, CloseSocketPuts, Zenon
<1>4. Alive(k)
  BY <1>1, <1>3, NotReserved
<1>5. slot[k].type # "invalid" /\ Raises(k) \in {"close", "err", "none"}
  BY <1>4 DEF Alive, Raises
<1> HIDE DEF k, x
<1>6. CASE ForceCloseAt(k, Raises(k))
  <2>1. Touch(k, Freed(slot[k]))
    BY <1>1, <1>2, <1>5, <1>6, TouchForce
  <2> QED
    BY <1>2, <2>1
<1>7. CASE \E t : Puts(k, t) /\ Lists(slot[k], t) /\ t.type = "halfclose_read"
  <2>1. PICK t : Puts(k, t) /\ Lists(slot[k], t) /\ t.type = "halfclose_read"
    BY <1>7
  <2>2. t.type \notin {"invalid", "reserve"}
    BY <2>1
  <2>3. Touch(k, t)
    BY <1>1, <1>2, <1>4, <2>1, <2>2, TouchLists
  <2> QED
    BY <1>2, <2>3
<1> QED
  BY <1>3, <1>6, <1>7

LEMMA SendTouch ==
  ASSUME SocketInv, ~failed, SendSocket, UNCHANGED slot => FALSE
  PROVE  \E k \in Slot : \E t : Touch(k, t)
<1>1. /\ TypeOK /\ IdInv /\ ToldInv /\ SizeInv /\ pipe # <<>> /\ UNCHANGED dw
  BY Parts DEF SendSocket, Command
<1> DEFINE k == HASH(Head(pipe).id)
           p == Head(pipe).pkg
           t == Queued(slot[k], p)
<1>2. k \in Slot
  BY <1>1, HeadPipe
<1>3. /\ slot[k].id = Head(pipe).id /\ Alive(k) /\ Puts(k, t) /\ Same(slot[k], t)
      /\ Sized(t) /\ Whole(t.low, 1)
  BY <1>1, SendSocketPuts, Zenon
<1>4. t.id = slot[k].id /\ t.type = slot[k].type
  BY <1>3 DEF Same
<1> HIDE DEF k, t
<1>5. Touch(k, t)
  BY <1>1, <1>3, <1>4 DEF Touch, Alive
<1> QED
  BY <1>2, <1>5

LEMMA TriggerTouch ==
  ASSUME SocketInv, ~failed, TriggerWrite, UNCHANGED slot => FALSE
  PROVE  \E k \in Slot : \E t : Touch(k, t)
<1>1. /\ TypeOK /\ IdInv /\ OpenInv /\ SizeInv
      /\ pipe # <<>> /\ Head(pipe).cmd # "O" /\ force = None /\ UNCHANGED dw
  BY Parts DEF TriggerWrite, Command
<1> DEFINE k == HASH(Head(pipe).id)
<1>2. k \in Slot
  BY <1>1, HeadPipe
<1>3. /\ ~Invalid(Head(pipe).id)
      /\ \E t : Puts(k, t) /\ Lists(slot[k], t) /\ t.type = slot[k].type
  BY <1>1, TriggerWritePuts, Zenon
<1>4. Alive(k)
  BY <1>1, <1>3, NotReserved
<1> HIDE DEF k
<1>5. PICK t : Puts(k, t) /\ Lists(slot[k], t) /\ t.type = slot[k].type
  BY <1>3
<1>6. Touch(k, t)
  BY <1>1, <1>2, <1>4, <1>5, TouchLists DEF Alive
<1> QED
  BY <1>2, <1>6

LEMMA ForceCloseTouch ==
  ASSUME SocketInv, ~failed, ForceClose
  PROVE  force.s \in Slot /\ \E t : Touch(force.s, t)
<1>1. TypeOK /\ ForceInv /\ force # None /\ SizeInv
  BY Parts DEF ForceClose
<1> DEFINE k == force.s
           t == ForceClosed(slot[k])
<1>2. /\ k \in Slot /\ Alive(k) /\ lock[k] = None /\ Puts(k, t)
      /\ dw' = [dw EXCEPT ![k] = None]
  BY <1>1, ForceClosePuts
<1>3. slot[k] \in Socket /\ BufferEmpty(slot[k]) /\ Whole(slot[k].low, 1)
  BY <1>1, <1>2 DEF TypeOK, ForceInv, SizeInv
<1>4. /\ t.id = slot[k].id /\ t.type = "invalid"
      /\ t.high = slot[k].high /\ t.low = slot[k].low
  BY <1>3, FreedFacts
<1>5. dw'[k] = None
  BY <1>1, <1>2 DEF TypeOK
<1> HIDE DEF k, t
<1>6. Touch(k, t)
  BY <1>2, <1>3, <1>4, <1>5 DEF Touch, BufferEmpty
<1> QED
  BY <1>2, <1>6 DEF k

LEMMA ConnectTouch ==
  ASSUME SocketInv, ~failed, ~failed', NEW e \in ev \ {None}, ReportConnect(e)
  PROVE  \E k \in Slot : \E t : Touch(k, t)
<1>1. TypeOK /\ SizeInv /\ FreshInv /\ force = None /\ UNCHANGED dw
  BY Parts DEF ReportConnect, Handling
<1> DEFINE k == e.s
<1>2. k \in Slot
  BY <1>1, EventSlot
<1>3. /\ slot[k].type = "connecting"
      /\ \/ ForceCloseAt(k, "err")
         \/ \E t : /\ Puts(k, t) /\ Lists(slot[k], t) /\ t.type = "connected"
  BY <1>1, ReportConnectPuts, Zenon
<1> HIDE DEF k
<1>4. Alive(k) /\ slot[k].type # "invalid"
  BY <1>3 DEF Alive
<1>5. CASE ForceCloseAt(k, "err")
  <2>1. Touch(k, Freed(slot[k]))
    BY <1>1, <1>2, <1>4, <1>5, TouchForce
  <2> QED
    BY <1>2, <2>1
<1>6. CASE \E t : Puts(k, t) /\ Lists(slot[k], t) /\ t.type = "connected"
  <2>1. PICK t : Puts(k, t) /\ Lists(slot[k], t) /\ t.type = "connected"
    BY <1>6
  <2>2. t.type \notin {"invalid", "reserve"} /\ slot[k].type # "halfclose_read"
    BY <1>3, <2>1
  <2>3. Touch(k, t)
    BY <1>1, <1>2, <1>4, <2>1, <2>2, TouchLists
  <2> QED
    BY <1>2, <2>3
<1> QED
  BY <1>3, <1>5, <1>6

LEMMA ReadEndTouch ==
  ASSUME SocketInv, ~failed, ~failed', NEW e \in ev \ {None}, ReadEnd(e),
         UNCHANGED slot => FALSE
  PROVE  \E k \in Slot : \E t : Touch(k, t)
<1>1. TypeOK /\ SizeInv /\ FreshInv /\ force = None /\ UNCHANGED dw
  BY Parts DEF ReadEnd, Default, Handling
<1> DEFINE k == e.s
<1>2. k \in Slot
  BY <1>1, EventSlot
<1>3. /\ Alive(k)
      /\ \/ ForceCloseAt(k, "none")
         \/ ForceCloseAt(k, "close")
         \/ \E t : /\ Puts(k, t) /\ Lists(slot[k], t) /\ t.type = "halfclose_read"
  BY <1>1, ReadEndPuts, Zenon
<1> HIDE DEF k
<1>4. slot[k].type # "invalid"
  BY <1>3 DEF Alive
<1>5. ASSUME NEW raise \in {"close", "err", "none"}, ForceCloseAt(k, raise)
      PROVE  \E t : Touch(k, t)
  <2>1. Touch(k, Freed(slot[k]))
    BY <1>1, <1>2, <1>4, <1>5, TouchForce
  <2> QED
    BY <2>1
<1>6. CASE \E t : Puts(k, t) /\ Lists(slot[k], t) /\ t.type = "halfclose_read"
  <2>1. PICK t : Puts(k, t) /\ Lists(slot[k], t) /\ t.type = "halfclose_read"
    BY <1>6
  <2>2. t.type \notin {"invalid", "reserve"}
    BY <2>1
  <2>3. Touch(k, t)
    BY <1>1, <1>2, <1>3, <2>1, <2>2, TouchLists
  <2> QED
    BY <1>2, <2>3
<1> QED
  BY <1>2, <1>3, <1>5, <1>6

LEMMA EofTouch ==
  ASSUME SocketInv, ~failed, ~failed', NEW e \in ev \ {None}, EofEvent(e)
  PROVE  \E k \in Slot : \E t : Touch(k, t)
<1>1. TypeOK /\ SizeInv /\ FreshInv /\ UNCHANGED dw
  BY Parts DEF EofEvent
<1> DEFINE k == e.s
<1>2. k \in Slot
  BY <1>1, EventSlot
<1>3. ForceCloseAt(k, Raises(k)) /\ slot[k].type # "invalid"
  BY DEF EofEvent, Default
<1>4. Raises(k) \in {"close", "err", "none"}
  BY DEF Raises
<1> HIDE DEF k
<1>5. Touch(k, Freed(slot[k]))
  BY <1>1, <1>2, <1>3, <1>4, TouchForce
<1> QED
  BY <1>2, <1>5

LEMMA SendBufferTouch ==
  ASSUME SocketInv, ~failed, ~failed', NEW e \in ev \ {None}, NEW u, SendBuffer(e, u)
  PROVE  \E k \in Slot : \E t : Touch(k, t)
<1>1. TypeOK /\ SizeInv /\ FreshInv
  BY Parts
<1> DEFINE k == e.s
           t == Sent(Merged(k), u)
<1>2. k \in Slot
  BY <1>1, EventSlot
<1>3. dw' = [dw EXCEPT ![k] = None]
  BY DEF SendBuffer
<1>4. dw'[k] = None
  BY <1>1, <1>2, <1>3 DEF TypeOK
<1>5. ~(BufferEmpty(t) /\ t.closing /\ slot[k].type = "reserve")
  BY DEF SendBuffer
<1>6. /\ t \in Socket /\ Same(slot[k], t)
      /\ slot[k].type # "invalid" /\ lock[k] = None
      /\ Alive(k) => Sized(t) /\ Whole(t.low, 1)
      /\ ~Alive(k) => BufferEmpty(t)
      /\ \/ /\ ~BufferEmpty(t) /\ Puts(k, t)
         \/ /\ BufferEmpty(t) /\ t.closing /\ Puts(k, ForceClosed(t))
         \/ /\ BufferEmpty(t) /\ ~t.closing
            /\ \E r : Puts(k, r) /\ Lists(t, r) /\ r.type = t.type
  BY <1>1, SendBufferPuts, Zenon
<1> HIDE DEF k, t
<1>7. t.type = slot[k].type /\ t.id = slot[k].id
  BY <1>6 DEF Same
<1>8. BufferEmpty(t) => Whole(t.low, 1)
  BY DEF BufferEmpty, Whole
<1>9. CASE ~BufferEmpty(t) /\ Puts(k, t)
  <2>1. Alive(k) /\ Sized(t) /\ Whole(t.low, 1)
    BY <1>6, <1>9
  <2>2. Touch(k, t)
    BY <1>3, <1>7, <1>9, <2>1 DEF Touch, Alive
  <2> QED
    BY <1>2, <2>2
<1>10. CASE BufferEmpty(t) /\ t.closing /\ Puts(k, ForceClosed(t))
  <2> DEFINE q == ForceClosed(t)
  <2>1. Alive(k)
    BY <1>5, <1>6, <1>10 DEF Alive
  <2>2. /\ q.id = t.id /\ q.type = "invalid" /\ q.high = t.high /\ q.low = t.low
    BY <1>6, FreedFacts
  <2> HIDE DEF q
  <2>3. BufferEmpty(q) /\ Whole(q.low, 1)
    BY <1>8, <1>10, <2>2 DEF BufferEmpty
  <2>4. Puts(k, q)
    BY <1>10 DEF q
  <2>5. Touch(k, q)
    BY <1>3, <1>4, <1>6, <1>7, <2>1, <2>2, <2>3, <2>4 DEF Touch
  <2> QED
    BY <1>2, <2>5
<1>11. CASE /\ BufferEmpty(t) /\ ~t.closing
            /\ \E r : Puts(k, r) /\ Lists(t, r) /\ r.type = t.type
  <2>1. PICK r : Puts(k, r) /\ Lists(t, r) /\ r.type = t.type
    BY <1>11
  <2>2. BufferEmpty(r) /\ Whole(r.low, 1) /\ r.id = slot[k].id
    BY <1>7, <1>8, <1>11, <2>1 DEF BufferEmpty, Lists
  <2>3. Alive(k) => Sized(r)
    <3>1. r.wb = t.wb /\ r.high = t.high /\ r.low = t.low
      BY <2>1 DEF Lists
    <3> QED
      BY <1>6, <3>1, Zenon DEF Sized
  <2>4. Touch(k, r)
    BY <1>3, <1>4, <1>6, <1>7, <2>1, <2>2, <2>3 DEF Touch, Alive
  <2> QED
    BY <1>2, <2>4
<1> QED
  BY <1>6, <1>9, <1>10, <1>11

LEMMA WriteErrorTouch ==
  ASSUME SocketInv, ~failed, ~failed', NEW e \in ev \ {None}, WriteError(e)
  PROVE  \E k \in Slot : \E t : Touch(k, t)
<1>1. TypeOK /\ SizeInv /\ FreshInv
  BY Parts
<1> DEFINE k == e.s
           s == Merged(k)
<1>2. k \in Slot
  BY <1>1, EventSlot
<1>3. /\ s \in Socket /\ Same(slot[k], s)
      /\ Alive(k) /\ Sized(s) /\ Whole(s.low, 1) /\ lock[k] = None
      /\ dw' = [dw EXCEPT ![k] = None]
      /\ \/ Puts(k, ForceClosed(Freed(s)))
         \/ Puts(k, s)
         \/ /\ ~s.closing /\ s.type # "halfclose_read"
            /\ \E t : Puts(k, t) /\ Lists(s, t) /\ t.type = "halfclose_write"
  BY <1>1, WriteErrorPuts, Zenon
<1>4. dw'[k] = None
  BY <1>1, <1>2, <1>3 DEF TypeOK
<1> HIDE DEF k, s
<1>5. s.type = slot[k].type /\ s.id = slot[k].id
  BY <1>3 DEF Same
<1>6. CASE Puts(k, ForceClosed(Freed(s)))
  <2> DEFINE f == Freed(s)
             q == ForceClosed(f)
  <2>1. f \in Socket /\ Same(s, f) /\ BufferEmpty(f)
    BY <1>3, FreedFacts
  <2> HIDE DEF f
  <2>2. q.id = f.id /\ q.type = "invalid" /\ q.high = f.high /\ q.low = f.low
    BY <2>1, FreedFacts
  <2> HIDE DEF q
  <2>3. BufferEmpty(q) /\ Whole(q.low, 1) /\ q.id = slot[k].id
    BY <1>5, <2>1, <2>2 DEF BufferEmpty, Whole, Same
  <2>4. Puts(k, q)
    BY <1>6 DEF q, f
  <2>5. Touch(k, q)
    BY <1>3, <1>4, <2>2, <2>3, <2>4 DEF Touch
  <2> QED
    BY <1>2, <2>5
<1>7. CASE Puts(k, s)
  <2>1. Touch(k, s)
    BY <1>3, <1>5, <1>7 DEF Touch, Alive
  <2> QED
    BY <1>2, <2>1
<1>8. CASE /\ ~s.closing /\ s.type # "halfclose_read"
           /\ \E t : Puts(k, t) /\ Lists(s, t) /\ t.type = "halfclose_write"
  <2>1. PICK t : Puts(k, t) /\ Lists(s, t) /\ t.type = "halfclose_write"
    BY <1>8
  <2>2. Sized(t) /\ Whole(t.low, 1) /\ t.id = slot[k].id
    <3>1. t.wb = s.wb /\ t.high = s.high /\ t.low = s.low /\ t.id = s.id
      BY <2>1 DEF Lists
    <3> QED
      BY <1>3, <1>5, <3>1, Zenon DEF Sized
  <2>3. Touch(k, t)
    BY <1>3, <1>5, <1>8, <2>1, <2>2 DEF Touch
  <2> QED
    BY <1>2, <2>3
<1> QED
  BY <1>3, <1>6, <1>7, <1>8

\* Together: a step that changes a slot touches one.
LEMMA ChangesTouch ==
  ASSUME SocketInv, ~failed, ~failed', ChangesSlot, UNCHANGED slot => FALSE
  PROVE  \E k \in Slot : \E t : Touch(k, t)
<1>1. "K" \in {"K", "X"} /\ "X" \in {"K", "X"}
  OBVIOUS
<1> QED
  BY <1>1, ResumeTouch, CloseTouch, SendTouch, TriggerTouch, ForceCloseTouch,
     ConnectTouch, ReadEndTouch, EofTouch, WriteErrorTouch, SendBufferTouch, Zenon
     DEF ChangesSlot
-----------------------------------------------------------------------------
(* The steps, by what they leave alone.                                    *)

\* The steps of the thread that change no slot.
Idle ==
  \/ NoCommand \/ AcceptDropped
  \/ \E data \in SUBSET Slot, accept \in BOOLEAN : Wait(data, accept)
  \/ \E e \in ev \ {None} :
       InvalidEvent(e) \/ ReadData(e) \/ ReadError(e) \/ ErrorEvent(e) \/ WriteBlocked(e)

Sending(c) ==
  SenderStep(c) \/ \E x \in Id, kind \in Sends : Send(c, x, kind)

Asking == \E x \in Id : Start(x) \/ \E how \in Asks : Close(x, how)

Peer == \E x \in Id : PeerCloses(x) \/ PeerResets(x)

LEMMA Cases ==
  ASSUME Next
  PROVE  \/ \E c \in Sender : Sending(c)
         \/ Asking
         \/ Peer
         \/ Idle
         \/ ChangesSlot
         \/ OpenSocket
         \/ \E x \in Id : Connect(x)
         \/ \E x \in Id : Accept(x)
BY Zenon DEF Next, Sending, Asking, Peer, Idle, ChangesSlot, OwnerStep, Thread, Ctrl,
             Events, HandleEvent

LEMMA CountSet ==
  ASSUME TypeOK, NEW k, NEW n, k \in Slot => n \in Nat,
         sending' = [sending EXCEPT ![k].n = n]
  PROVE  /\ sending' \in [Slot -> [id : 0..MaxId, n : Nat]]
         /\ \A j \in Slot : sending'[j].id = sending[j].id
         /\ \A j \in Slot : sending'[j].n = IF j = k THEN n ELSE sending[j].n
<1>1. sending \in [Slot -> [id : 0..MaxId, n : Nat]]
  BY DEF TypeOK
<1> DEFINE r == [sending[k] EXCEPT !.n = n]
<1>2. sending' = [sending EXCEPT ![k] = r]
  OBVIOUS
<1>3. k \in Slot => r \in [id : 0..MaxId, n : Nat] /\ r.id = sending[k].id /\ r.n = n
  BY <1>1
<1> HIDE DEF r
<1> QED
  BY <1>1, <1>2, <1>3

LEMMA SendingFrame ==
  ASSUME TypeOK, NEW c \in Sender, Sending(c)
  PROVE  /\ UNCHANGED <<alloc, slot, ownerVars, checkctrl, ev, force, peer, failed>>
         /\ sending' \in [Slot -> [id : 0..MaxId, n : Nat]]
         /\ \A k \in Slot : sending'[k].id = sending[k].id
<1>1. CASE ~IncSending(c)
  <2>1. UNCHANGED <<alloc, slot, sending, ownerVars, checkctrl, ev, force, peer, failed>>
    BY <1>1 DEF Sending, SenderStep, Send, TryLock, DoubleCheck, DirectWrite, Trigger,
                SendRequest, slotVars, pollVars, ownerVars, netVars
  <2> QED
    BY <2>1 DEF TypeOK
<1>2. CASE IncSending(c)
  <2>1. UNCHANGED <<alloc, slot, ownerVars, checkctrl, ev, force, peer, failed>>
    BY <1>2 DEF IncSending, pollVars, ownerVars, netVars
  <2> DEFINE x == call[c].pkg.to
             k == HASH(x)
  <2>2. sending' = IF sending[k].id = x THEN [sending EXCEPT ![k].n = @ + 1] ELSE sending
    BY <1>2 DEF IncSending
  <2>3. /\ sending' \in [Slot -> [id : 0..MaxId, n : Nat]]
        /\ \A j \in Slot : sending'[j].id = sending[j].id
    <3> HIDE DEF x, k
    <3>1. sending \in [Slot -> [id : 0..MaxId, n : Nat]]
      BY DEF TypeOK
    <3>2. CASE sending[k].id = x
      <4> DEFINE n == sending[k].n + 1
      <4>1. sending' = [sending EXCEPT ![k].n = n]
        BY <2>2, <3>2
      <4>2. k \in Slot => n \in Nat
        BY <3>1
      <4> HIDE DEF n
      <4> QED
        BY <4>1, <4>2, CountSet
    <3>3. CASE sending[k].id # x
      <4>1. sending' = sending
        BY <2>2, <3>3
      <4> QED
        BY <3>1, <4>1
    <3> QED
      BY <3>2, <3>3
  <2> QED
    BY <2>1, <2>3
<1> QED
  BY <1>1, <1>2

LEMMA AskingFrame ==
  ASSUME Asking
  PROVE  UNCHANGED <<slotVars, checkctrl, ev, force, senderVars, told, closes, netVars,
                     failed>>
BY DEF Asking, Start, Close

LEMMA PeerFrame ==
  ASSUME Peer
  PROVE  UNCHANGED <<slotVars, pollVars, senderVars, ownerVars, wire, failed>>
BY DEF Peer, PeerCloses, PeerResets, PeerSet

LEMMA IdleFrame ==
  ASSUME Idle
  PROVE  /\ UNCHANGED <<slotVars, pipe, force, senderVars, asked, wire, failed>>
         /\ force = None
<1>1. NoCommand \/ AcceptDropped => UNCHANGED <<slotVars, pipe, force, senderVars, asked, wire, failed>>
  BY DEF NoCommand, AcceptDropped, Handling, Handled, TellNothing, netVars, ownerVars
<1>2. (\E data \in SUBSET Slot, accept \in BOOLEAN : Wait(data, accept))
        => UNCHANGED <<slotVars, pipe, force, senderVars, asked, wire, failed>>
  BY DEF Wait, netVars, ownerVars
<1>3. ASSUME NEW e \in ev \ {None},
             InvalidEvent(e) \/ ReadData(e) \/ ReadError(e) \/ ErrorEvent(e) \/ WriteBlocked(e)
      PROVE  /\ UNCHANGED <<slotVars, pipe, force, senderVars, asked, wire, failed>>
             /\ force = None
  BY <1>3 DEF InvalidEvent, ReadData, ReadError, ErrorEvent, WriteBlocked, Default,
              Handling, netVars, slotVars
<1>4. \/ NoCommand \/ AcceptDropped
      \/ \E data \in SUBSET Slot, accept \in BOOLEAN : Wait(data, accept)
      => force = None
  BY DEF NoCommand, AcceptDropped, Handling, Wait
<1> QED
  BY <1>1, <1>2, <1>3, <1>4, Zenon DEF Idle

\* The thread's steps that change a slot: a request is taken, a force_close ends,
\* or an event is handled.
LEMMA ChangesCases ==
  ASSUME ChangesSlot
  PROVE  \/ /\ \E cmd \in {"R", "K", "X", "D", "W"} : Command(cmd)
            /\ ~SendSocket => UNCHANGED sending
         \/ ForceClose
         \/ /\ \E e \in ev : Handling(e)
            /\ UNCHANGED <<alloc, sending, lock>>
<1>1. ASSUME ResumeSocket
      PROVE  Command("R") /\ UNCHANGED sending
  BY <1>1 DEF ResumeSocket
<1>2. ASSUME NEW cmd, CloseSocket(cmd)
      PROVE  Command(cmd) /\ UNCHANGED sending
  BY <1>2 DEF CloseSocket
<1>3. ASSUME SendSocket
      PROVE  Command("D")
  BY <1>3 DEF SendSocket
<1>4. ASSUME TriggerWrite
      PROVE  Command("W") /\ UNCHANGED sending
  BY <1>4 DEF TriggerWrite
<1>5. ASSUME NEW e \in ev \ {None},
             \/ ReportConnect(e) \/ ReadEnd(e) \/ EofEvent(e) \/ WriteError(e)
             \/ \E u : SendBuffer(e, u)
      PROVE  Handling(e) /\ UNCHANGED <<alloc, sending, lock>>
  <2>1. CASE ReportConnect(e)
    BY <2>1 DEF ReportConnect
  <2>2. CASE ReadEnd(e)
    BY <2>2 DEF ReadEnd, Default
  <2>3. CASE EofEvent(e)
    BY <2>3 DEF EofEvent, Default
  <2>4. CASE WriteError(e)
    BY <2>4 DEF WriteError, Default
  <2>5. ASSUME NEW u, SendBuffer(e, u)
        PROVE  Handling(e) /\ UNCHANGED <<alloc, sending, lock>>
    BY <2>5 DEF SendBuffer, Default
  <2> QED
    BY <1>5, <2>1, <2>2, <2>3, <2>4, <2>5
<1>6. CASE ResumeSocket \/ CloseSocket("K") \/ CloseSocket("X") \/ SendSocket
           \/ TriggerWrite
  <2>1. \E cmd \in {"R", "K", "X", "D", "W"} : Command(cmd)
    BY <1>1, <1>2, <1>3, <1>4, <1>6
  <2>2. ~SendSocket => UNCHANGED sending
    BY <1>1, <1>2, <1>4, <1>6
  <2> QED
    BY <2>1, <2>2
<1>7. CASE \E e \in ev \ {None} :
             \/ ReportConnect(e) \/ ReadEnd(e) \/ EofEvent(e) \/ WriteError(e)
             \/ \E u : SendBuffer(e, u)
  BY <1>5, <1>7
<1> QED
  BY <1>6, <1>7, Zenon DEF ChangesSlot

\* The thread's other steps leave alone what the services write.
LEMMA ThreadFrame ==
  ASSUME \/ ChangesSlot \/ OpenSocket \/ \E x \in Id : Accept(x)
  PROVE  UNCHANGED <<lock, senderVars, asked>>
<1>1. ChangesSlot => UNCHANGED <<lock, senderVars, asked>>
  BY ChangesCases DEF Command, ForceClose, Handling, senderVars
<1>2. OpenSocket => UNCHANGED <<lock, senderVars, asked>>
  BY DEF OpenSocket, Command
<1>3. (\E x \in Id : Accept(x)) => UNCHANGED <<lock, senderVars, asked>>
  BY DEF Accept, Handling
<1> QED
  BY <1>1, <1>2, <1>3

LEMMA ChangesFrame ==
  ASSUME TypeOK, ChangesSlot, ~failed'
  PROVE  /\ UNCHANGED alloc
         /\ sending' \in [Slot -> [id : 0..MaxId, n : Nat]]
         /\ \A k \in Slot : sending'[k].id = sending[k].id
         /\ ~SendSocket => UNCHANGED sending
<1>1. CASE ~SendSocket
  <2>1. UNCHANGED <<alloc, sending>>
    BY <1>1, ChangesCases DEF Command, ForceClose
  <2> QED
    BY <1>1, <2>1 DEF TypeOK
<1>2. CASE SendSocket
  <2> DEFINE p == Head(pipe).pkg
             k == HASH(p.to)
             counted == slot[k].id = p.to /\ slot[k].type # "reserve"
  <2>1. /\ UNCHANGED alloc
        /\ failed' = (counted /\ sending[k].n = 0)
        /\ sending' = IF counted /\ ~failed' THEN [sending EXCEPT ![k].n = @ - 1]
                      ELSE sending
    BY <1>2 DEF SendSocket, Command
  <2>2. sending \in [Slot -> [id : 0..MaxId, n : Nat]]
    BY DEF TypeOK
  <2> HIDE DEF p, k, counted
  <2>3. CASE counted
    <3> DEFINE n == sending[k].n - 1
    <3>1. sending' = [sending EXCEPT ![k].n = n] /\ sending[k].n # 0
      BY <2>1, <2>3
    <3>2. k \in Slot => n \in Nat
      BY <2>2, <3>1
    <3> HIDE DEF n
    <3> QED
      BY <1>2, <2>1, <3>1, <3>2, CountSet
  <2>4. CASE ~counted
    <3>1. sending' = sending
      BY <2>1, <2>4
    <3> QED
      BY <1>2, <2>1, <2>2, <3>1
  <2> QED
    BY <2>3, <2>4
<1> QED
  BY <1>1, <1>2

\* A step that is not about a new socket: each slot keeps its socket, and the
\* state of it or the end.
Old == ~OpenSocket /\ ~(\E x \in Id : Connect(x)) /\ ~(\E x \in Id : Accept(x))

LEMMA OldSlots ==
  ASSUME SocketInv, ~failed, ~failed', Next, Old
  PROVE  /\ UNCHANGED alloc /\ slot' \in [Slot -> Socket]
         /\ sending' \in [Slot -> [id : 0..MaxId, n : Nat]]
         /\ \A k \in Slot :
              /\ slot'[k].id = slot[k].id /\ sending'[k].id = sending[k].id
              /\ slot'[k].type = "reserve" <=> slot[k].type = "reserve"
              /\ slot[k].type = "invalid" => slot'[k].type = "invalid"
              /\ slot[k].type = "halfclose_read"
                   => slot'[k].type \in {"halfclose_read", "invalid"}
<1>1. TypeOK
  BY Parts
<1>2. CASE UNCHANGED slot
  <2>1. /\ UNCHANGED alloc
        /\ sending' \in [Slot -> [id : 0..MaxId, n : Nat]]
        /\ \A k \in Slot : sending'[k].id = sending[k].id
    <3>1. CASE \E c \in Sender : Sending(c)
      BY <1>1, <3>1, SendingFrame
    <3>2. CASE Asking \/ Peer \/ Idle
      <4>1. UNCHANGED <<alloc, sending>>
        BY <3>2, AskingFrame, PeerFrame, IdleFrame DEF slotVars
      <4> QED
        BY <1>1, <4>1 DEF TypeOK
    <3>3. CASE ChangesSlot
      BY <1>1, <3>3, ChangesFrame
    <3> QED
      BY <3>1, <3>2, <3>3, Cases DEF Old
  <2> QED
    BY <1>1, <1>2, <2>1 DEF TypeOK
<1>3. CASE ~UNCHANGED slot
  <2>1. ChangesSlot
    <3>1. (\E c \in Sender : Sending(c)) => UNCHANGED slot
      BY <1>1, SendingFrame
    <3>2. Asking \/ Peer \/ Idle => UNCHANGED slot
      BY AskingFrame, PeerFrame, IdleFrame DEF slotVars
    <3> QED
      BY <1>3, <3>1, <3>2, Cases, Zenon DEF Old
  <2>0. PICK k \in Slot : \E t : Touch(k, t)
    BY <1>3, <2>1, ChangesTouch
  <2>2. PICK t : Touch(k, t)
    BY <2>0
  <2>3. /\ slot' \in [Slot -> Socket]
        /\ \A j \in Slot : slot'[j] = IF j = k THEN t ELSE slot[j]
    BY <1>1, <2>2, PutsAt DEF Touch
  <2>4. /\ t.id = slot[k].id
        /\ t.type = "reserve" <=> slot[k].type = "reserve"
        /\ slot[k].type # "invalid"
        /\ slot[k].type = "halfclose_read" => t.type \in {"halfclose_read", "invalid"}
    BY <2>2 DEF Touch, Alive
  <2>5. \A j \in Slot :
          /\ slot'[j].id = slot[j].id
          /\ slot'[j].type = "reserve" <=> slot[j].type = "reserve"
          /\ slot[j].type = "invalid" => slot'[j].type = "invalid"
          /\ slot[j].type = "halfclose_read"
               => slot'[j].type \in {"halfclose_read", "invalid"}
    BY <2>3, <2>4
  <2>6. /\ UNCHANGED alloc
        /\ sending' \in [Slot -> [id : 0..MaxId, n : Nat]]
        /\ \A j \in Slot : sending'[j].id = sending[j].id
    BY <1>1, <2>1, ChangesFrame
  <2> QED
    BY <2>3, <2>5, <2>6
<1> QED
  BY <1>2, <1>3
-----------------------------------------------------------------------------
(* What the owner is told.                                                 *)

\* At most one thing, of a socket that was handed out; all but an error only of
\* one that has a connection, and SOCKET_CLOSE when it was not told before.
Tells ==
  \/ TellNothing
  \/ \E x \in Id : x <= alloc /\ Tell(x, "err")
  \/ \E k \in Slot : Alive(k) /\ Tell(slot[k].id, "open")
  \/ \E k \in Slot :
       /\ Alive(k) /\ closes[slot[k].id] = 0
       /\ TellClose(slot[k].id)
       /\ slot'[k].type \in {"halfclose_read", "invalid"}

LEMMA RaiseCases ==
  ASSUME NEW x, NEW what \in {"open", "err", "close", "none"}, Raise(x, what)
  PROVE  \/ what = "none" /\ TellNothing
         \/ what = "close" /\ TellClose(x)
         \/ what \in {"open", "err"} /\ Tell(x, what)
BY DEF Raise

LEMMA QuietTells ==
  ASSUME TypeOK, UNCHANGED <<told, closes>>
  PROVE  Tells
BY DEF Tells, TellNothing

\* The id of a slot in use was handed out, and its socket is not closed unless it
\* is half closed.
LEMMA AliveId ==
  ASSUME TypeOK, IdInv, CloseInv, NEW k \in Slot, slot[k].type # "invalid"
  PROVE  /\ slot[k].id \in Id /\ slot[k].id <= alloc /\ HASH(slot[k].id) = k
         /\ slot[k].type # "halfclose_read" => closes[slot[k].id] = 0
<1>1. slot[k].id \in Id /\ slot[k].id # 0
  BY SlotOf DEF IdInv
<1>2. closes[slot[k].id] \in Nat
  BY <1>1 DEF TypeOK
<1> QED
  BY <1>1, <1>2 DEF IdInv, CloseInv

LEMMA ResumeTells ==
  ASSUME SocketInv, ~failed, ResumeSocket
  PROVE  Tells
<1>1. /\ TypeOK /\ IdInv /\ OpenInv
      /\ pipe # <<>> /\ Head(pipe).cmd # "O"
  BY Parts DEF ResumeSocket, Command
<1> DEFINE x == Head(pipe).id
           k == HASH(x)
<1>2. k \in Slot /\ x \in Id /\ x <= alloc
  BY <1>1, HeadPipe DEF IdInv
<1>3. \/ Tell(x, "err")
      \/ /\ ~Invalid(x)
         /\ \E type : Raise(x, IF type = "connected" THEN "open" ELSE "none")
  BY <1>1, ResumeSocketPuts
<1>4. ~Invalid(x) => Alive(k) /\ slot[k].id = x
  BY <1>1, NotReserved DEF Invalid
<1> HIDE DEF k, x
<1>5. ASSUME ~Invalid(x),
             NEW type, Raise(x, IF type = "connected" THEN "open" ELSE "none")
      PROVE  Tells
  <2>1. TellNothing \/ Tell(x, "open")
    BY <1>5 DEF Raise
  <2> QED
    BY <1>2, <1>4, <1>5, <2>1, Zenon DEF Tells
<1>6. CASE Tell(x, "err")
  BY <1>2, <1>6 DEF Tells
<1> QED
  BY <1>3, <1>5, <1>6

LEMMA CloseTells ==
  ASSUME SocketInv, ~failed, NEW cmd \in {"K", "X"}, CloseSocket(cmd)
  PROVE  Tells
<1>1. /\ TypeOK /\ IdInv /\ OpenInv /\ CloseInv
      /\ pipe # <<>> /\ Head(pipe).cmd # "O"
  BY Parts DEF CloseSocket, Command
<1> DEFINE x == Head(pipe).id
           k == HASH(x)
<1>2. k \in Slot
  BY <1>1, HeadPipe
<1>3. \/ TellNothing
      \/ /\ ~Invalid(x)
         /\ \E t : Puts(k, t) /\ t.type = "halfclose_read"
         /\ Raise(x, Raises(k))
  BY <1>1, CloseSocketPuts, Zenon
<1>4. ~Invalid(x) => Alive(k) /\ slot[k].id = x
  BY <1>1, NotReserved DEF Invalid
<1> HIDE DEF k, x
<1>5. CASE TellNothing
  BY <1>5 DEF Tells
<1>6. CASE /\ ~Invalid(x)
           /\ \E t : Puts(k, t) /\ t.type = "halfclose_read"
           /\ Raise(x, Raises(k))
  <2>1. CASE slot[k].type = "halfclose_read"
    BY <1>6, <2>1 DEF Raises, Raise, Tells
  <2>2. CASE slot[k].type # "halfclose_read"
    <3>1. TellClose(slot[k].id)
      BY <1>4, <1>6, <2>2 DEF Raises, Raise
    <3>2. closes[slot[k].id] = 0
      BY <1>1, <1>2, <1>4, <1>6, <2>2, AliveId DEF Alive
    <3>3. slot'[k].type \in {"halfclose_read", "invalid"}
      BY <1>1, <1>2, <1>6, PutsAt
    <3> QED
      BY <1>2, <1>4, <1>6, <3>1, <3>2, <3>3, Zenon DEF Tells
  <2> QED
    BY <2>1, <2>2
<1> QED
  BY <1>3, <1>5, <1>6

LEMMA ForceCloseTells ==
  ASSUME SocketInv, ~failed, ForceClose
  PROVE  Tells
<1>1. TypeOK /\ IdInv /\ ForceInv /\ CloseInv /\ force # None
  BY Parts DEF ForceClose
<1> DEFINE k == force.s
<1>2. /\ k \in Slot /\ Alive(k) /\ Puts(k, ForceClosed(slot[k]))
      /\ force.raise \in {"open", "err", "close", "none"}
  BY <1>1, ForceClosePuts DEF TypeOK
<1>3. slot[k].id \in Id /\ slot[k].id <= alloc
  BY <1>1, <1>2, AliveId DEF Alive
<1>4. slot'[k].type = "invalid"
  <2>1. slot[k] \in Socket
    BY <1>1, <1>2 DEF TypeOK
  <2> QED
    BY <1>1, <1>2, <2>1, PutsAt, FreedFacts
<1>5. Raise(slot[k].id, force.raise)
  BY DEF ForceClose
<1>6. force.raise = "close" => closes[slot[k].id] = 0
  BY <1>1 DEF ForceInv
<1>7. force.raise # "open"
  BY <1>1 DEF TypeOK
<1> HIDE DEF k
<1>8. \/ TellNothing
      \/ Tell(slot[k].id, "err")
      \/ closes[slot[k].id] = 0 /\ TellClose(slot[k].id)
  BY <1>2, <1>5, <1>6, <1>7, RaiseCases
<1> QED
  BY <1>2, <1>3, <1>4, <1>8 DEF Tells

LEMMA EventTells ==
  ASSUME SocketInv, ~failed, NEW e \in ev \ {None},
         \/ ReportConnect(e) \/ ReadEnd(e) \/ EofEvent(e) \/ WriteError(e)
         \/ \E u : SendBuffer(e, u)
         \/ InvalidEvent(e) \/ ReadData(e) \/ ReadError(e) \/ ErrorEvent(e)
         \/ WriteBlocked(e)
  PROVE  Tells
<1>1. TypeOK /\ IdInv /\ CloseInv /\ FreshInv /\ SizeInv
  BY Parts
<1> DEFINE k == e.s
<1>2. k \in Slot
  BY <1>1, EventSlot
<1>3. slot[k].type # "invalid"
        => /\ slot[k].id \in Id /\ slot[k].id <= alloc
           /\ slot[k].type # "halfclose_read" => closes[slot[k].id] = 0
  BY <1>1, <1>2, AliveId
<1>4. CASE \/ EofEvent(e) \/ \E u : SendBuffer(e, u)
           \/ InvalidEvent(e) \/ WriteBlocked(e)
  BY <1>4 DEF EofEvent, SendBuffer, InvalidEvent, WriteBlocked, Tells
<1>5. CASE ReadError(e) \/ ErrorEvent(e)
  <2>1. slot[k].type # "invalid" /\ Tell(slot[k].id, "err")
    BY <1>5 DEF ReadError, ErrorEvent, Default
  <2> HIDE DEF k
  <2> QED
    BY <1>3, <2>1 DEF Tells
<1>6. CASE WriteError(e)
  <2>1. slot[k].type # "invalid" /\ (TellNothing \/ Tell(slot[k].id, "err"))
    BY <1>6 DEF WriteError, Default
  <2> HIDE DEF k
  <2> QED
    BY <1>3, <2>1 DEF Tells
<1>7. CASE ReportConnect(e)
  <2>1. slot[k].type = "connecting" /\ (TellNothing \/ Tell(slot[k].id, "open"))
    BY <1>7 DEF ReportConnect
  <2>2. Alive(k)
    BY <2>1 DEF Alive
  <2> HIDE DEF k
  <2> QED
    BY <1>2, <2>1, <2>2 DEF Tells
<1>8. CASE ReadData(e)
  <2>1. /\ slot[k].type # "invalid"
        /\ Raise(slot[k].id, IF slot[k].type # "halfclose_read" /\ closes[slot[k].id] > 0
                             THEN "late" ELSE "none")
    BY <1>8 DEF ReadData, Default
  <2>2. ~(slot[k].type # "halfclose_read" /\ closes[slot[k].id] > 0)
    BY <1>3, <2>1
  <2>3. TellNothing
    BY <2>1, <2>2 DEF Raise
  <2> QED
    BY <2>3 DEF Tells
<1>9. CASE ReadEnd(e)
  <2>1. /\ Alive(k)
        /\ \/ TellNothing
           \/ /\ slot[k].type # "halfclose_read"
              /\ \E t : Puts(k, t) /\ t.type = "halfclose_read"
              /\ TellClose(slot[k].id)
    BY <1>1, <1>9, ReadEndPuts, Zenon
  <2> HIDE DEF k
  <2>2. CASE TellNothing
    BY <2>2 DEF Tells
  <2>3. CASE /\ slot[k].type # "halfclose_read"
             /\ \E t : Puts(k, t) /\ t.type = "halfclose_read"
             /\ TellClose(slot[k].id)
    <3>1. slot'[k].type \in {"halfclose_read", "invalid"}
      BY <1>1, <1>2, <2>3, PutsAt
    <3>2. closes[slot[k].id] = 0
      BY <1>3, <2>1, <2>3 DEF Alive
    <3> QED
      BY <1>2, <2>1, <2>3, <3>1, <3>2, Zenon DEF Tells
  <2> QED
    BY <2>1, <2>2, <2>3
<1> QED
  BY <1>4, <1>5, <1>6, <1>7, <1>8, <1>9

LEMMA OldTells ==
  ASSUME SocketInv, ~failed, Next, Old
  PROVE  Tells
<1>1. TypeOK
  BY Parts
<1>2. CASE (\E c \in Sender : Sending(c)) \/ Asking \/ Peer
  <2>1. UNCHANGED <<told, closes>>
    BY <1>1, <1>2, SendingFrame, AskingFrame, PeerFrame DEF ownerVars
  <2> QED
    BY <1>1, <2>1, QuietTells
<1>3. CASE \/ NoCommand \/ AcceptDropped
           \/ \E data \in SUBSET Slot, accept \in BOOLEAN : Wait(data, accept)
           \/ SendSocket \/ TriggerWrite
  <2>1. UNCHANGED <<told, closes>>
    BY <1>3 DEF NoCommand, AcceptDropped, Wait, SendSocket, TriggerWrite, TellNothing,
                ownerVars
  <2> QED
    BY <1>1, <2>1, QuietTells
<1>4. CASE ResumeSocket \/ CloseSocket("K") \/ CloseSocket("X") \/ ForceClose
  <2>1. "K" \in {"K", "X"} /\ "X" \in {"K", "X"}
    OBVIOUS
  <2> QED
    BY <1>4, <2>1, ResumeTells, CloseTells, ForceCloseTells
<1>5. ASSUME NEW e \in ev \ {None},
             \/ ReportConnect(e) \/ ReadEnd(e) \/ EofEvent(e) \/ WriteError(e)
             \/ \E u : SendBuffer(e, u)
             \/ InvalidEvent(e) \/ ReadData(e) \/ ReadError(e) \/ ErrorEvent(e)
             \/ WriteBlocked(e)
      PROVE  Tells
  BY <1>5, EventTells
<1>6. Idle \/ ChangesSlot => Tells
  BY <1>3, <1>4, <1>5, Zenon DEF Idle, ChangesSlot
<1> QED
  BY <1>2, <1>6, Cases, Zenon DEF Old

LEMMA TellOne ==
  ASSUME TypeOK, NEW x, NEW what \in {"accept", "open", "err"}, Tell(x, what)
  PROVE  /\ told' \in [Id -> SUBSET {"accept", "open", "err", "late"}]
         /\ closes' \in [Id -> Nat] /\ UNCHANGED closes
         /\ \A y \in Id : told'[y] = IF y = x THEN told[y] \cup {what} ELSE told[y]
<1>1. /\ told \in [Id -> SUBSET {"accept", "open", "err", "late"}]
      /\ closes \in [Id -> Nat]
      /\ told' = [told EXCEPT ![x] = @ \cup {what}] /\ UNCHANGED closes
  BY DEF TypeOK, Tell
<1> QED
  BY <1>1

LEMMA TellFacts ==
  ASSUME TypeOK, IdInv, CloseInv, Tells
  PROVE  /\ told' \in [Id -> SUBSET {"accept", "open", "err", "late"}]
         /\ closes' \in [Id -> Nat]
         /\ \A x \in Id :
              /\ told[x] \subseteq told'[x]
              /\ \/ closes'[x] = closes[x]
                 \/ /\ closes[x] = 0 /\ closes'[x] = 1
                    /\ \E k \in Slot : /\ Alive(k) /\ slot[k].id = x
                                       /\ slot'[k].type \in {"halfclose_read", "invalid"}
              /\ \/ told'[x] \subseteq told[x] \cup {"err"}
                 \/ /\ told'[x] \subseteq told[x] \cup {"open"}
                    /\ \E k \in Slot : Alive(k) /\ slot[k].id = x
              /\ alloc < x => told'[x] = told[x] /\ closes'[x] = closes[x]
<1>1. /\ told \in [Id -> SUBSET {"accept", "open", "err", "late"}]
      /\ closes \in [Id -> Nat]
      /\ alloc \in Nat /\ Id \subseteq Nat
  BY SocketServerAssumption DEF TypeOK, Id
<1>2. CASE TellNothing
  BY <1>1, <1>2 DEF TellNothing
<1>3. ASSUME NEW x \in Id, x <= alloc, Tell(x, "err")
      PROVE  /\ told' \in [Id -> SUBSET {"accept", "open", "err", "late"}]
             /\ closes' \in [Id -> Nat] /\ UNCHANGED closes
             /\ \A y \in Id : told'[y] = IF y = x THEN told[y] \cup {"err"} ELSE told[y]
  BY <1>3, TellOne
<1>4. CASE \E x \in Id : x <= alloc /\ Tell(x, "err")
  <2>1. PICK x \in Id : x <= alloc /\ Tell(x, "err")
    BY <1>4
  <2>2. \A y \in Id : told'[y] = IF y = x THEN told[y] \cup {"err"} ELSE told[y]
    BY <1>3, <2>1
  <2>3. ASSUME NEW y \in Id
        PROVE  /\ told[y] \subseteq told'[y]
               /\ told'[y] \subseteq told[y] \cup {"err"}
               /\ alloc < y => told'[y] = told[y]
    <3>1. CASE y = x
      <4>1. ~(alloc < y)
        BY <1>1, <2>1, <3>1
      <4> QED
        BY <2>2, <3>1, <4>1
    <3>2. CASE y # x
      BY <2>2, <3>2
    <3> QED
      BY <3>1, <3>2
  <2>4. /\ told' \in [Id -> SUBSET {"accept", "open", "err", "late"}]
        /\ closes' \in [Id -> Nat] /\ UNCHANGED closes
    BY <1>3, <2>1
  <2> QED
    BY <2>3, <2>4
<1>5. CASE \E k \in Slot : Alive(k) /\ Tell(slot[k].id, "open")
  <2>1. PICK k \in Slot : Alive(k) /\ Tell(slot[k].id, "open")
    BY <1>5
  <2>2. slot[k].id \in Id /\ slot[k].id <= alloc
    BY <2>1, AliveId DEF Alive
  <2>3. /\ told' \in [Id -> SUBSET {"accept", "open", "err", "late"}]
        /\ closes' \in [Id -> Nat] /\ UNCHANGED closes
        /\ \A y \in Id : told'[y] = IF y = slot[k].id THEN told[y] \cup {"open"} ELSE told[y]
    BY <2>1, TellOne
  <2> QED
    BY <1>1, <2>1, <2>2, <2>3
<1>6. CASE \E k \in Slot :
             /\ Alive(k) /\ closes[slot[k].id] = 0
             /\ TellClose(slot[k].id)
             /\ slot'[k].type \in {"halfclose_read", "invalid"}
  <2>1. PICK k \in Slot :
             /\ Alive(k) /\ closes[slot[k].id] = 0
             /\ TellClose(slot[k].id)
             /\ slot'[k].type \in {"halfclose_read", "invalid"}
    BY <1>6
  <2> DEFINE x == slot[k].id
  <2>2. x \in Id /\ x <= alloc
    BY <2>1, AliveId DEF Alive
  <2>3. UNCHANGED told /\ closes' = [closes EXCEPT ![x] = @ + 1]
    BY <2>1 DEF TellClose
  <2>4. /\ closes' \in [Id -> Nat]
        /\ \A y \in Id : closes'[y] = IF y = x THEN 1 ELSE closes[y]
    <3> HIDE DEF x
    <3>1. closes[x] = 0
      BY <2>1 DEF x
    <3> QED
      BY <1>1, <2>2, <2>3, <3>1
  <2>6. x = slot[k].id
    OBVIOUS
  <2> HIDE DEF x
  <2>5. ~(alloc < x)
    <3>1. alloc \in Nat /\ x \in Nat /\ x <= alloc
      BY <1>1, <2>2
    <3> QED
      BY <3>1
  <2>7. ASSUME NEW y \in Id
        PROVE  /\ \/ closes'[y] = closes[y]
                  \/ /\ closes[y] = 0 /\ closes'[y] = 1
                     /\ \E j \in Slot : /\ Alive(j) /\ slot[j].id = y
                                        /\ slot'[j].type \in {"halfclose_read", "invalid"}
               /\ alloc < y => closes'[y] = closes[y]
    BY <2>1, <2>4, <2>5, <2>6
  <2> QED
    BY <1>1, <2>3, <2>4, <2>7
<1> QED
  BY <1>2, <1>4, <1>5, <1>6, Zenon DEF Tells
-----------------------------------------------------------------------------
(* New sockets.                                                            *)

\* A socket that is connected to.
LEMMA ConnectFacts ==
  ASSUME SocketInv, ~failed, NEW x \in Id, Connect(x)
  PROVE  /\ slot' \in [Slot -> Socket] /\ alloc' = x /\ alloc < x
         /\ slot[HASH(x)].type = "invalid"
         /\ slot'[HASH(x)].type = "reserve" /\ slot'[HASH(x)].id = x
         /\ BufferEmpty(slot'[HASH(x)])
         /\ \A k \in Slot \ {HASH(x)} : slot'[k] = slot[k]
         /\ pipe' = Append(pipe, [cmd |-> "O", id |-> x])
         /\ UNCHANGED <<sending, dw, lock, checkctrl, ev, force, senderVars, ownerVars,
                        netVars, failed>>
<1>1. TypeOK /\ FreshInv
  BY Parts
<1>2. /\ alloc' = x /\ alloc < x /\ slot[HASH(x)].type = "invalid"
      /\ pipe' = Append(pipe, [cmd |-> "O", id |-> x])
      /\ UNCHANGED <<sending, dw, lock, checkctrl, ev, force, senderVars, ownerVars,
                     netVars, failed>>
  BY SocketServerAssumption, <1>1 DEF Connect, Reservable, TypeOK, Id
<1>3. HASH(x) \in Slot
  BY HashSlot, SocketServerAssumption DEF Id
<1>4. PICK t : /\ Puts(HASH(x), t) /\ t.type = "reserve" /\ t.id = x
               /\ t.high = slot[HASH(x)].high /\ t.low = slot[HASH(x)].low
  BY <1>1, ConnectPuts
<1>5. /\ slot' \in [Slot -> Socket]
      /\ \A j \in Slot : slot'[j] = IF j = HASH(x) THEN t ELSE slot[j]
  BY <1>1, <1>3, <1>4, PutsAt
<1>6. BufferEmpty(slot[HASH(x)])
  BY <1>1, <1>2, <1>3 DEF FreshInv, Alive
<1>7. BufferEmpty(t)
  BY <1>4, <1>6 DEF BufferEmpty
<1> QED
  BY <1>2, <1>3, <1>4, <1>5, <1>7

\* What is put in the slot of a socket that begins.
Begins(x, t) ==
  /\ Puts(HASH(x), t)
  /\ t.type \in {"connecting", "connected", "paccept"} /\ t.id = x
  /\ t.high = <<>> /\ t.low = <<>> /\ t.wb = 0
  /\ sending' = [sending EXCEPT ![HASH(x)] = [id |-> x, n |-> 0]]
  /\ dw' = [dw EXCEPT ![HASH(x)] = None]

LEMMA BeginsFacts ==
  ASSUME SocketInv, ~failed, NEW x \in Id, NEW t, Begins(x, t)
  PROVE  LET k == HASH(x) IN
         /\ k \in Slot
         /\ slot' \in [Slot -> Socket]
         /\ sending' \in [Slot -> [id : 0..MaxId, n : Nat]]
         /\ slot'[k] = t /\ Sized(t) /\ Whole(t.low, 1)
         /\ sending'[k].id = x /\ sending'[k].n = 0
         /\ dw' \in [Slot -> Buffer \cup {None}] /\ dw'[k] = None
         /\ \A j \in Slot \ {k} :
              slot'[j] = slot[j] /\ sending'[j] = sending[j] /\ dw'[j] = dw[j]
<1>1. TypeOK
  BY Parts
<1> DEFINE k == HASH(x)
<1>2. k \in Slot /\ x \in 0..MaxId
  BY HashSlot, SocketServerAssumption DEF Id
<1>3. /\ slot' \in [Slot -> Socket]
      /\ \A j \in Slot : slot'[j] = IF j = k THEN t ELSE slot[j]
  BY <1>1, <1>2, PutsAt DEF Begins
<1>4. Sized(t) /\ Whole(t.low, 1)
  <2>1. t.high = <<>> /\ t.low = <<>> /\ t.wb = 0
    BY DEF Begins
  <2> QED
    BY <2>1, UnitsOfNone DEF Sized, Whole
<1>5. /\ sending \in [Slot -> [id : 0..MaxId, n : Nat]]
      /\ sending' = [sending EXCEPT ![k] = [id |-> x, n |-> 0]]
      /\ dw \in [Slot -> Buffer \cup {None}]
      /\ dw' = [dw EXCEPT ![k] = None]
  BY <1>1 DEF Begins, TypeOK
<1> HIDE DEF k
<1>6. /\ sending' \in [Slot -> [id : 0..MaxId, n : Nat]]
      /\ sending'[k].id = x /\ sending'[k].n = 0
      /\ dw' \in [Slot -> Buffer \cup {None}] /\ dw'[k] = None
      /\ \A j \in Slot \ {k} : sending'[j] = sending[j] /\ dw'[j] = dw[j]
  BY <1>2, <1>5
<1> QED
  BY <1>2, <1>3, <1>4, <1>6 DEF k

\* A socket that is accepted.
LEMMA AcceptFacts ==
  ASSUME SocketInv, ~failed, NEW x \in Id, Accept(x)
  PROVE  /\ alloc' = x /\ alloc < x /\ slot[HASH(x)].type = "invalid"
         /\ \E t : Begins(x, t)
         /\ Tell(x, "accept")
         /\ force = None
         /\ UNCHANGED <<lock, force, pipe, checkctrl, senderVars, asked, wire>>
<1>1. TypeOK
  BY Parts
<1>2. /\ alloc' = x /\ alloc < x /\ slot[HASH(x)].type = "invalid"
      /\ Tell(x, "accept") /\ force = None
      /\ UNCHANGED <<lock, force, pipe, checkctrl, senderVars, asked, wire>>
      /\ sending' = [sending EXCEPT ![HASH(x)] = [id |-> x, n |-> 0]]
      /\ dw' = [dw EXCEPT ![HASH(x)] = None]
  BY SocketServerAssumption, <1>1 DEF Accept, Handling, Reservable, TypeOK, Id
<1>3. PICK t : /\ Puts(HASH(x), t) /\ t.type = "paccept" /\ t.id = x
               /\ t.high = <<>> /\ t.low = <<>> /\ t.wb = 0
  BY <1>1, AcceptPuts
<1>4. Begins(x, t)
  BY <1>2, <1>3 DEF Begins
<1> QED
  BY <1>2, <1>4

\* The request to connect finds its slot reserved.
LEMMA OpenFacts ==
  ASSUME SocketInv, ~failed, OpenSocket
  PROVE  LET x == Head(pipe).id
             k == HASH(x)
         IN  /\ x \in Id /\ k \in Slot /\ x <= alloc
             /\ slot[k].type = "reserve" /\ slot[k].id = x
             /\ BufferEmpty(slot[k]) /\ dw[k] = None
             /\ told[x] \subseteq {"err"} /\ closes[x] = 0
             /\ pipe # <<>> /\ pipe' = Tail(pipe) /\ Head(pipe).cmd = "O" /\ force = None
             /\ UNCHANGED <<alloc, lock, checkctrl, senderVars, asked, wire, force>>
             /\ \/ /\ \E t : /\ Puts(k, t) /\ t.type = "invalid" /\ t.id = x
                             /\ t.high = <<>> /\ t.low = <<>>
                   /\ UNCHANGED <<sending, dw, failed>>
                   /\ Tell(x, "err")
                \/ \E t : /\ Begins(x, t)
                          /\ TellNothing \/ Tell(x, "open")
<1>1. TypeOK /\ IdInv /\ OpenInv /\ FreshInv
  BY Parts
<1>2. /\ pipe # <<>> /\ pipe' = Tail(pipe) /\ Head(pipe).cmd = "O" /\ force = None
      /\ UNCHANGED <<alloc, lock, checkctrl, senderVars, asked, wire, force>>
  BY DEF OpenSocket, Command
<1> DEFINE x == Head(pipe).id
           k == HASH(x)
<1>3. /\ x \in Id /\ k \in Slot /\ x <= alloc
      /\ 1 \in DOMAIN pipe /\ Head(pipe) = pipe[1]
  BY <1>1, <1>2, HeadPipe DEF IdInv
<1>4. /\ slot[k].type = "reserve" /\ slot[k].id = x
      /\ told[x] \subseteq {"err"} /\ closes[x] = 0
  <2>1. 1 \in DOMAIN pipe /\ pipe[1].cmd = "O" /\ x = pipe[1].id
    BY <1>2, <1>3
  <2> HIDE DEF x
  <2>2. /\ slot[HASH(x)].id = x /\ slot[HASH(x)].type = "reserve"
        /\ told[x] \subseteq {"err"} /\ closes[x] = 0
    BY <1>1, <2>1, OpenAt
  <2> QED
    BY <2>2
<1>5. BufferEmpty(slot[k]) /\ dw[k] = None
  BY <1>1, <1>3, <1>4 DEF FreshInv, Alive
<1>6. \E t : /\ Puts(k, t)
             /\ \/ /\ t.type = "invalid" /\ t.id = slot[k].id
                   /\ t.high = slot[k].high /\ t.low = slot[k].low
                   /\ UNCHANGED <<sending, dw, failed>>
                   /\ Tell(x, "err")
                \/ /\ t.type \in {"connecting", "connected"} /\ t.id = x
                   /\ t.high = <<>> /\ t.low = <<>> /\ t.wb = 0
                   /\ sending' = [sending EXCEPT ![k] = [id |-> x, n |-> 0]]
                   /\ dw' = [dw EXCEPT ![k] = None]
                   /\ TellNothing \/ Tell(x, "open")
  BY <1>1, OpenSocketPuts
<1> HIDE DEF x
<1>7. PICK t : /\ Puts(k, t)
             /\ \/ /\ t.type = "invalid" /\ t.id = slot[k].id
                   /\ t.high = slot[k].high /\ t.low = slot[k].low
                   /\ UNCHANGED <<sending, dw, failed>>
                   /\ Tell(x, "err")
                \/ /\ t.type \in {"connecting", "connected"} /\ t.id = x
                   /\ t.high = <<>> /\ t.low = <<>> /\ t.wb = 0
                   /\ sending' = [sending EXCEPT ![k] = [id |-> x, n |-> 0]]
                   /\ dw' = [dw EXCEPT ![k] = None]
                   /\ TellNothing \/ Tell(x, "open")
  BY <1>6, Zenon
<1>8. \/ /\ \E u : /\ Puts(k, u) /\ u.type = "invalid" /\ u.id = x
                   /\ u.high = <<>> /\ u.low = <<>>
         /\ UNCHANGED <<sending, dw, failed>>
         /\ Tell(x, "err")
      \/ \E u : /\ Begins(x, u)
                /\ TellNothing \/ Tell(x, "open")
  <2>1. CASE /\ t.type = "invalid" /\ t.id = slot[k].id
             /\ t.high = slot[k].high /\ t.low = slot[k].low
             /\ UNCHANGED <<sending, dw, failed>>
             /\ Tell(x, "err")
    BY <1>4, <1>5, <1>7, <2>1 DEF BufferEmpty
  <2>2. CASE /\ t.type \in {"connecting", "connected"} /\ t.id = x
             /\ t.high = <<>> /\ t.low = <<>> /\ t.wb = 0
             /\ sending' = [sending EXCEPT ![k] = [id |-> x, n |-> 0]]
             /\ dw' = [dw EXCEPT ![k] = None]
             /\ TellNothing \/ Tell(x, "open")
    <3>1. Begins(x, t)
      BY <1>7, <2>2 DEF Begins
    <3> QED
      BY <2>2, <3>1
  <2> QED
    BY <1>7, <2>1, <2>2
<1> QED
  BY <1>2, <1>3, <1>4, <1>5, <1>8, Zenon DEF x, k
-----------------------------------------------------------------------------
(* The invariants, one by one.                                             *)

\* The requests to the thread, after a step that is not about a new socket.
Requests ==
  \/ UNCHANGED pipe
  \/ pipe # <<>> /\ Head(pipe).cmd # "O" /\ pipe' = Tail(pipe)
  \/ \E r \in Request :
       /\ pipe' = Append(pipe, r)
       /\ r.cmd # "O" /\ r.id <= alloc
       /\ r.cmd = "D" => r.pkg.to = r.id /\ "open" \in told[r.id]
       /\ r.cmd = "R" => "accept" \in told[r.id]

\* A call is of a socket the sender was told of.
CallFacts ==
  \A c \in Sender : call'[c] # None =>
    call'[c].pkg.to \in Id /\ "open" \in told[call'[c].pkg.to]

LEMMA CallType ==
  ASSUME TypeOK, NEW c \in Sender, call[c] # None
  PROVE  /\ call[c].pkg \in Package /\ call[c].pkg.to \in Id
         /\ call[c].pkg.to \in Nat
         /\ HASH(call[c].pkg.to) \in Slot
         /\ call[c].pc \in {"try", "lock", "write", "trigger", "queue", "request"}
<1>1. call[c] \in [pc : {"try", "lock", "write", "trigger", "queue", "request"},
                   pkg : Package]
  BY DEF TypeOK
<1>2. call[c].pkg \in Package /\ call[c].pkg.to \in Id
  BY <1>1 DEF Package
<1> QED
  BY <1>1, <1>2, HashSlot DEF Id

\* A call that goes on.
LEMMA GoesFacts ==
  ASSUME TypeOK, NEW c \in Sender, call[c] # None,
         NEW pc \in {"try", "lock", "write", "trigger", "queue", "request"}, Goes(c, pc)
  PROVE  /\ call' \in [Sender -> {None} \cup
                 [pc : {"try", "lock", "write", "trigger", "queue", "request"},
                  pkg : Package]]
         /\ call'[c].pkg = call[c].pkg /\ call'[c].pc = pc
         /\ \A d \in Sender \ {c} : call'[d] = call[d]
<1> DEFINE r == [call[c] EXCEPT !.pc = pc]
           R == [pc : {"try", "lock", "write", "trigger", "queue", "request"},
                 pkg : Package]
<1>1. call[c] \in R /\ call \in [Sender -> {None} \cup R]
  BY DEF TypeOK
<1>2. call' = [call EXCEPT ![c] = r]
  BY DEF Goes
<1>3. r \in R /\ r.pkg = call[c].pkg /\ r.pc = pc
  <2> DEFINE s == call[c]
  <2>1. s \in R
    BY <1>1
  <2> HIDE DEF s
  <2>2. [s EXCEPT !.pc = pc] \in R /\ [s EXCEPT !.pc = pc].pkg = s.pkg
        /\ [s EXCEPT !.pc = pc].pc = pc
    BY <2>1
  <2> QED
    BY <2>2 DEF s
<1> HIDE DEF r, R
<1>4. /\ call' \in [Sender -> {None} \cup R]
      /\ call'[c] = r
      /\ \A d \in Sender \ {c} : call'[d] = call[d]
  BY <1>1, <1>2, <1>3
<1> QED
  BY <1>3, <1>4 DEF R

LEMMA ReturnedFacts ==
  ASSUME TypeOK, NEW c \in Sender, Returned(c)
  PROVE  /\ call' \in [Sender -> {None} \cup
                 [pc : {"try", "lock", "write", "trigger", "queue", "request"},
                  pkg : Package]]
         /\ call'[c] = None
         /\ \A d \in Sender \ {c} : call'[d] = call[d]
BY DEF TypeOK, Returned

\* What a step of a sender does to its call and to the pipe.
LEMMA SendingCalls ==
  ASSUME TypeOK, ToldInv, NEW c \in Sender, Sending(c)
  PROVE  /\ call' \in [Sender -> {None} \cup
                 [pc : {"try", "lock", "write", "trigger", "queue", "request"},
                  pkg : Package]]
         /\ \A d \in Sender \ {c} : call'[d] = call[d]
         /\ \/ /\ call[c] # None /\ UNCHANGED pipe
               /\ call'[c].pkg = call[c].pkg
               /\ \/ /\ call[c].pc = "try" /\ call'[c].pc \in {"lock", "queue"}
                     /\ TryLock(c)
                  \/ /\ call[c].pc = "lock" /\ call'[c].pc \in {"write", "queue"}
                     /\ DoubleCheck(c)
                  \/ /\ call[c].pc = "write" /\ call'[c].pc = "trigger"
                     /\ DirectWrite(c)
                  \/ /\ call[c].pc = "queue" /\ call'[c].pc = "request"
                     /\ IncSending(c)
            \/ /\ call[c] # None /\ call'[c] = None
               /\ \/ call[c].pc = "write" /\ UNCHANGED pipe /\ DirectWrite(c)
                  \/ /\ call[c].pc = "trigger" /\ Trigger(c)
                     /\ pipe' = Append(pipe, [cmd |-> "W", id |-> call[c].pkg.to])
                  \/ /\ call[c].pc = "request" /\ SendRequest(c)
                     /\ pipe' = Append(pipe, [cmd |-> "D", id |-> call[c].pkg.to,
                                              pkg |-> call[c].pkg])
            \/ /\ call[c] = None /\ UNCHANGED <<pipe, slotVars>>
               /\ \/ call'[c] = None
                  \/ /\ "open" \in told[call'[c].pkg.to] /\ call'[c].pkg.to \in Id
                     /\ call'[c].pc \in {"try", "queue"}
<1>1. CASE TryLock(c)
  <2>1. call[c] # None /\ call[c].pc = "try" /\ UNCHANGED pipe
        /\ (Goes(c, "lock") \/ Goes(c, "queue"))
    BY <1>1 DEF TryLock, pollVars
  <2> QED
    BY <1>1, <2>1, GoesFacts
<1>2. CASE DoubleCheck(c)
  <2>1. call[c] # None /\ call[c].pc = "lock" /\ UNCHANGED pipe
        /\ (Goes(c, "write") \/ Goes(c, "queue"))
    BY <1>2 DEF DoubleCheck, pollVars
  <2> QED
    BY <1>2, <2>1, GoesFacts
<1>3. CASE DirectWrite(c)
  <2>1. call[c] # None /\ call[c].pc = "write" /\ UNCHANGED pipe
        /\ (Goes(c, "trigger") \/ Returned(c))
    BY <1>3 DEF DirectWrite, pollVars
  <2> QED
    BY <1>3, <2>1, GoesFacts, ReturnedFacts
<1>4. CASE Trigger(c)
  <2>1. /\ call[c] # None /\ call[c].pc = "trigger" /\ Returned(c)
        /\ pipe' = Append(pipe, [cmd |-> "W", id |-> call[c].pkg.to])
    BY <1>4 DEF Trigger
  <2> QED
    BY <1>4, <2>1, ReturnedFacts
<1>5. CASE IncSending(c)
  <2>1. call[c] # None /\ call[c].pc = "queue" /\ UNCHANGED pipe /\ Goes(c, "request")
    BY <1>5 DEF IncSending, pollVars
  <2> QED
    BY <1>5, <2>1, GoesFacts
<1>6. CASE SendRequest(c)
  <2>1. /\ call[c] # None /\ call[c].pc = "request" /\ Returned(c)
        /\ pipe' = Append(pipe, [cmd |-> "D", id |-> call[c].pkg.to, pkg |-> call[c].pkg])
    BY <1>6 DEF SendRequest
  <2> QED
    BY <1>6, <2>1, ReturnedFacts
<1>7. ASSUME NEW x \in Id, NEW kind \in Sends, Send(c, x, kind)
      PROVE  /\ call[c] = None /\ UNCHANGED <<pipe, slotVars>>
             /\ call' \in [Sender -> {None} \cup
                 [pc : {"try", "lock", "write", "trigger", "queue", "request"},
                  pkg : Package]]
             /\ \A d \in Sender \ {c} : call'[d] = call[d]
             /\ \/ call'[c] = None
                \/ /\ "open" \in told[call'[c].pkg.to] /\ call'[c].pkg.to \in Id
                   /\ call'[c].pc \in {"try", "queue"}
  <2> DEFINE p == [by |-> c, no |-> count[c] + 1, to |-> x, kind |-> kind]
  <2>1. /\ call[c] = None /\ UNCHANGED <<pipe, slotVars>> /\ "open" \in told[x]
        /\ \/ call' = [call EXCEPT ![c] = None]
           \/ call' = [call EXCEPT ![c] = [pc |-> "try", pkg |-> p]]
           \/ call' = [call EXCEPT ![c] = [pc |-> "queue", pkg |-> p]]
    BY <1>7 DEF Send, pollVars
  <2>2. p \in Package /\ p.to = x
    BY DEF TypeOK, Package
  <2> HIDE DEF p
  <2>3. /\ [pc |-> "try", pkg |-> p]
             \in [pc : {"try", "lock", "write", "trigger", "queue", "request"}, pkg : Package]
        /\ [pc |-> "queue", pkg |-> p]
             \in [pc : {"try", "lock", "write", "trigger", "queue", "request"}, pkg : Package]
    BY <2>2
  <2>4. ASSUME NEW v, call' = [call EXCEPT ![c] = v],
               v \in {None} \cup
                 [pc : {"try", "lock", "write", "trigger", "queue", "request"},
                  pkg : Package]
        PROVE  /\ call' \in [Sender -> {None} \cup
                 [pc : {"try", "lock", "write", "trigger", "queue", "request"},
                  pkg : Package]]
               /\ \A d \in Sender \ {c} : call'[d] = call[d]
               /\ call'[c] = v
    BY <2>4 DEF TypeOK
  <2>5. CASE call' = [call EXCEPT ![c] = None]
    BY <2>1, <2>4, <2>5
  <2>6. CASE call' = [call EXCEPT ![c] = [pc |-> "try", pkg |-> p]]
    BY <2>1, <2>2, <2>3, <2>4, <2>6
  <2>7. CASE call' = [call EXCEPT ![c] = [pc |-> "queue", pkg |-> p]]
    BY <2>1, <2>2, <2>3, <2>4, <2>7
  <2> QED
    BY <2>1, <2>5, <2>6, <2>7
<1>8. CASE \E x \in Id, kind \in Sends : Send(c, x, kind)
  BY <1>7, <1>8
<1> QED
  BY <1>1, <1>2, <1>3, <1>4, <1>5, <1>6, <1>8 DEF Sending, SenderStep

LEMMA RequestType ==
  ASSUME NEW x \in Id
  PROVE  /\ \A cmd \in {"O", "R", "K", "X", "W"} : [cmd |-> cmd, id |-> x] \in Request
         /\ \A p \in Package : [cmd |-> "D", id |-> x, pkg |-> p] \in Request
BY DEF Request

LEMMA OldRequests ==
  ASSUME SocketInv, ~failed, Next, Old
  PROVE  Requests /\ CallFacts /\ pipe' \in Seq(Request)
<1>1. TypeOK /\ ToldInv /\ IdInv
  BY Parts
<1>0. pipe \in Seq(Request) /\ alloc \in Nat
  BY <1>1, SocketServerAssumption DEF TypeOK
<1>2. \A x \in Id : told[x] # {} \/ closes[x] > 0 => x <= alloc
  <2>1. ASSUME NEW x \in Id, ~(x <= alloc)
        PROVE  told[x] = {} /\ ~(closes[x] > 0)
    <3>1. alloc < x
      BY <1>0, <2>1 DEF Id
    <3> QED
      BY <1>1, <3>1 DEF IdInv
  <2> QED
    BY <2>1
<1>3. UNCHANGED call => CallFacts
  BY <1>1, CallType DEF ToldInv, CallFacts
<1>4. ASSUME NEW c \in Sender, Sending(c)
      PROVE  Requests /\ CallFacts
  <2>1. CallFacts
    <3> SUFFICES ASSUME NEW d \in Sender, call'[d] # None
                 PROVE  call'[d].pkg.to \in Id /\ "open" \in told[call'[d].pkg.to]
      BY DEF CallFacts
    <3>1. CASE d # c
      <4>1. call'[d] = call[d]
        BY <1>1, <1>4, <3>1, SendingCalls
      <4> QED
        BY <1>1, <4>1, CallType DEF ToldInv
    <3>2. CASE d = c
      <4>1. \/ call[c] # None /\ call'[c].pkg = call[c].pkg
            \/ "open" \in told[call'[c].pkg.to] /\ call'[c].pkg.to \in Id
        BY <1>1, <1>4, <3>2, SendingCalls
      <4> QED
        BY <1>1, <3>2, <4>1, CallType DEF ToldInv
    <3> QED
      BY <3>1, <3>2
  <2>2. Requests
    <3>1. \/ UNCHANGED pipe
          \/ /\ call[c] # None
             /\ \/ pipe' = Append(pipe, [cmd |-> "W", id |-> call[c].pkg.to])
                \/ pipe' = Append(pipe, [cmd |-> "D", id |-> call[c].pkg.to,
                                         pkg |-> call[c].pkg])
      BY <1>1, <1>4, SendingCalls
    <3>2. CASE UNCHANGED pipe
      BY <3>2 DEF Requests
    <3>3. ASSUME call[c] # None
          PROVE  /\ call[c].pkg.to \in Id /\ call[c].pkg.to <= alloc
                 /\ "open" \in told[call[c].pkg.to] /\ call[c].pkg \in Package
      BY <1>1, <1>2, <3>3, CallType DEF ToldInv
    <3>4. CASE /\ call[c] # None
               /\ pipe' = Append(pipe, [cmd |-> "W", id |-> call[c].pkg.to])
      <4> DEFINE r == [cmd |-> "W", id |-> call[c].pkg.to]
      <4>1. r \in Request /\ r.cmd = "W" /\ r.id <= alloc
        BY <3>3, <3>4, RequestType
      <4>2. pipe' = Append(pipe, r)
        BY <3>4
      <4> HIDE DEF r
      <4> QED
        BY <4>1, <4>2 DEF Requests
    <3>5. CASE /\ call[c] # None
               /\ pipe' = Append(pipe, [cmd |-> "D", id |-> call[c].pkg.to,
                                        pkg |-> call[c].pkg])
      <4> DEFINE r == [cmd |-> "D", id |-> call[c].pkg.to, pkg |-> call[c].pkg]
      <4>1. /\ r \in Request /\ r.cmd = "D" /\ r.id <= alloc
            /\ r.pkg.to = r.id /\ "open" \in told[r.id]
        BY <3>3, <3>5, RequestType
      <4>2. pipe' = Append(pipe, r)
        BY <3>5
      <4> HIDE DEF r
      <4> QED
        BY <4>1, <4>2 DEF Requests
    <3> QED
      BY <3>1, <3>2, <3>4, <3>5
  <2> QED
    BY <2>1, <2>2
<1>5. ASSUME Asking PROVE Requests /\ CallFacts
  <2>1. UNCHANGED call
    BY <1>5, AskingFrame DEF senderVars
  <2>2. ASSUME NEW x \in Id, Start(x) PROVE Requests
    <3> DEFINE r == [cmd |-> "R", id |-> x]
    <3>1. pipe' = Append(pipe, r) /\ "accept" \in told[x]
      BY <2>2 DEF Start
    <3>2. r \in Request /\ r.cmd = "R" /\ r.id = x /\ r.id <= alloc
      BY <1>2, <3>1, RequestType
    <3> HIDE DEF r
    <3> QED
      BY <3>1, <3>2 DEF Requests
  <2>3. ASSUME NEW x \in Id, NEW how \in Asks, Close(x, how) PROVE Requests
    <3> DEFINE cmd == IF how = "close" THEN "K" ELSE "X"
               r == [cmd |-> cmd, id |-> x]
    <3>1. pipe' = Append(pipe, r) /\ (told[x] # {} \/ closes[x] > 0)
      BY <2>3 DEF Close
    <3>2. r \in Request /\ r.cmd \in {"K", "X"} /\ r.id = x /\ r.id <= alloc
      BY <1>2, <3>1, RequestType
    <3> HIDE DEF r
    <3> QED
      BY <3>1, <3>2 DEF Requests
  <2> QED
    BY <1>3, <1>5, <2>1, <2>2, <2>3 DEF Asking
<1>6. ASSUME Peer \/ Idle PROVE Requests /\ CallFacts
  <2>1. UNCHANGED <<call, pipe>>
    BY <1>6, PeerFrame, IdleFrame DEF senderVars, pollVars
  <2> QED
    BY <1>3, <2>1 DEF Requests
<1>7. ASSUME ChangesSlot PROVE Requests /\ CallFacts
  <2>1. UNCHANGED call
    BY <1>7, ThreadFrame DEF senderVars
  <2>2. UNCHANGED pipe \/ (pipe # <<>> /\ Head(pipe).cmd # "O" /\ pipe' = Tail(pipe))
    BY <1>7, ChangesCases DEF Command, ForceClose, Handling
  <2> QED
    BY <1>3, <2>1, <2>2 DEF Requests
<1>8. Requests /\ CallFacts
  BY <1>4, <1>5, <1>6, <1>7, Cases, Zenon DEF Old
<1>9. pipe' \in Seq(Request)
  BY <1>0, <1>8 DEF Requests
<1> QED
  BY <1>8, <1>9

\* The requests are those there were, or a new one.
LEMMA RequestCases ==
  ASSUME SocketInv, ~failed, Next, Old, NEW i \in DOMAIN pipe'
  PROVE  \/ \E j \in DOMAIN pipe : pipe'[i] = pipe[j]
         \/ /\ pipe'[i] \in Request
            /\ pipe'[i].cmd # "O" /\ pipe'[i].id <= alloc
            /\ pipe'[i].cmd = "D" => /\ pipe'[i].pkg.to = pipe'[i].id
                                     /\ "open" \in told[pipe'[i].id]
            /\ pipe'[i].cmd = "R" => "accept" \in told[pipe'[i].id]
<1>1. Requests /\ pipe \in Seq(Request)
  BY OldRequests, Parts DEF TypeOK
<1>2. CASE UNCHANGED pipe
  BY <1>2
<1>3. CASE pipe # <<>> /\ pipe' = Tail(pipe)
  <2>1. TypeOK /\ IdInv
    BY Parts
  <2>2. \A j \in DOMAIN Tail(pipe) : j + 1 \in DOMAIN pipe /\ Tail(pipe)[j] = pipe[j + 1]
    BY <1>3, <2>1, HeadPipe
  <2> QED
    BY <1>3, <2>2
<1>4. ASSUME NEW r \in Request, pipe' = Append(pipe, r)
      PROVE  \/ i \in DOMAIN pipe /\ pipe'[i] = pipe[i]
             \/ pipe'[i] = r
  <2>1. \A j \in DOMAIN Append(pipe, r) :
          \/ j \in DOMAIN pipe /\ Append(pipe, r)[j] = pipe[j]
          \/ Append(pipe, r)[j] = r
    BY <1>1
  <2> QED
    BY <1>4, <2>1
<1> QED
  BY <1>1, <1>2, <1>3, <1>4, Zenon DEF Requests

LEMMA AskedFacts ==
  ASSUME TypeOK, IdInv, Asking
  PROVE  /\ asked' \in [Id -> SUBSET {"start", "close", "shutdown"}]
         /\ \A y \in Id : alloc < y => asked'[y] = asked[y]
<1>1. /\ asked \in [Id -> SUBSET {"start", "close", "shutdown"}]
      /\ Asks \subseteq {"close", "shutdown"}
  BY SocketServerAssumption DEF TypeOK
<1>2. ASSUME NEW x \in Id, NEW w \in {"start", "close", "shutdown"},
             told[x] # {} \/ closes[x] > 0,
             asked' = [asked EXCEPT ![x] = @ \cup {w}]
      PROVE  /\ asked' \in [Id -> SUBSET {"start", "close", "shutdown"}]
             /\ \A y \in Id : alloc < y => asked'[y] = asked[y]
  <2>1. ~(alloc < x)
    BY <1>2 DEF IdInv
  <2>2. \A y \in Id : y # x => asked'[y] = asked[y]
    BY <1>1, <1>2
  <2>3. asked' \in [Id -> SUBSET {"start", "close", "shutdown"}]
    BY <1>1, <1>2
  <2> QED
    BY <2>1, <2>2, <2>3
<1>3. ASSUME NEW x \in Id, Start(x)
      PROVE  told[x] # {} /\ asked' = [asked EXCEPT ![x] = @ \cup {"start"}]
  BY <1>3 DEF Start
<1>4. ASSUME NEW x \in Id, NEW how \in Asks, Close(x, how)
      PROVE  /\ told[x] # {} \/ closes[x] > 0
             /\ asked' = [asked EXCEPT ![x] = @ \cup {how}]
  BY <1>4 DEF Close
<1> QED
  BY <1>1, <1>2, <1>3, <1>4 DEF Asking

LEMMA OldAsked ==
  ASSUME SocketInv, ~failed, Next, Old
  PROVE  /\ asked' \in [Id -> SUBSET {"start", "close", "shutdown"}]
         /\ \A x \in Id : alloc < x => asked'[x] = asked[x]
<1>1. TypeOK /\ IdInv
  BY Parts
<1>2. ~Asking => UNCHANGED asked
  BY <1>1, Cases, SendingFrame, PeerFrame, IdleFrame, ThreadFrame DEF Old, ownerVars
<1> QED
  BY <1>1, <1>2, AskedFacts DEF TypeOK

\* No step is taken after an assertion has failed.
LEMMA Running ==
  ASSUME Next
  PROVE  ~failed
<1>1. ASSUME NEW c \in Sender, SenderStep(c)
      PROVE  ~failed
  BY <1>1 DEF SenderStep, TryLock, DoubleCheck, DirectWrite, Trigger, IncSending,
              SendRequest
<1>2. ASSUME NEW c \in Sender, NEW x \in Id, NEW kind \in Sends, Send(c, x, kind)
      PROVE  ~failed
  BY <1>2 DEF Send
<1>3. ASSUME OwnerStep
      PROVE  ~failed
  <2>1. ASSUME NEW x \in Id, Connect(x) \/ Start(x)
        PROVE  ~failed
    BY <2>1 DEF Connect, Start
  <2>2. ASSUME NEW x \in Id, NEW how \in Asks, Close(x, how)
        PROVE  ~failed
    BY <2>2 DEF Close
  <2> QED
    BY <1>3, <2>1, <2>2, Zenon DEF OwnerStep
<1>4. ASSUME Ctrl
      PROVE  ~failed
  BY <1>4 DEF Ctrl, OpenSocket, ResumeSocket, CloseSocket, SendSocket, TriggerWrite,
              NoCommand, Command
<1>5. ASSUME NEW e, HandleEvent(e)
      PROVE  ~failed
  <2>1. ASSUME NEW u, SendBuffer(e, u)
        PROVE  ~failed
    BY <2>1 DEF SendBuffer, Default, Handling
  <2>2. ASSUME ReportConnect(e) \/ InvalidEvent(e) \/ ReadData(e) \/ ReadEnd(e)
        PROVE  ~failed
    BY <2>2 DEF ReportConnect, InvalidEvent, ReadData, ReadEnd, Default, Handling
  <2>3. ASSUME \/ ReadError(e) \/ ErrorEvent(e) \/ EofEvent(e)
               \/ WriteError(e) \/ WriteBlocked(e)
        PROVE  ~failed
    BY <2>3 DEF ReadError, ErrorEvent, EofEvent, WriteError, WriteBlocked, Default,
                Handling
  <2> QED
    BY <1>5, <2>1, <2>2, <2>3, Zenon DEF HandleEvent
<1>6. ASSUME Events
      PROVE  ~failed
  BY <1>5, <1>6 DEF Events, Accept, AcceptDropped, Handling
<1>7. ASSUME Thread
      PROVE  ~failed
  BY <1>4, <1>6, <1>7 DEF Thread, ForceClose, Wait
<1>8. ASSUME NEW x \in Id, PeerCloses(x) \/ PeerResets(x)
      PROVE  ~failed
  BY <1>8 DEF PeerCloses, PeerResets, PeerSet
<1> QED
  BY <1>1, <1>2, <1>3, <1>7, <1>8, Zenon DEF Next

\* SOCKET_CLOSE is raised once, also by a step that fails.
LEMMA CloseOnceStep ==
  ASSUME SocketInv, [Next]_vars
  PROVE  CloseOnce'
<1>1. CASE UNCHANGED vars
  BY <1>1 DEF SocketInv, CloseOnce, vars, ownerVars
<1>2. CASE Next
  <2>1. ~failed
    BY <1>2, Running
  <2>2. TypeOK /\ IdInv /\ CloseInv /\ CloseOnce
    BY <2>1, Parts
  <2>3. CASE Old
    <3>1. Tells
      BY <1>2, <2>1, <2>3, OldTells
    <3>2. \A x \in Id :
            /\ closes'[x] = closes[x] \/ closes'[x] = 1
            /\ \/ told'[x] \subseteq told[x] \cup {"err"}
               \/ told'[x] \subseteq told[x] \cup {"open"}
      BY <2>2, <3>1, TellFacts
    <3> QED
      BY <2>2, <3>2 DEF CloseOnce
  <2>4. CASE UNCHANGED closes /\ \E x : \E what \in {"accept", "open", "err"} : Tell(x, what)
    <3>1. PICK x : \E what \in {"accept", "open", "err"} : Tell(x, what)
      BY <2>4
    <3>a. PICK what \in {"accept", "open", "err"} : Tell(x, what)
      BY <3>1
    <3>2. \A y \in Id : told'[y] = IF y = x THEN told[y] \cup {what} ELSE told[y]
      <4>1. TypeOK
        BY <2>2
      <4> QED
        BY ONLY <4>1, <3>a, what \in {"accept", "open", "err"}, TellOne, Zenon
    <3> QED
      <4> SUFFICES ASSUME NEW y \in Id PROVE closes'[y] <= 1 /\ "late" \notin told'[y]
        BY DEF CloseOnce
      <4>1. closes[y] <= 1 /\ "late" \notin told[y] /\ closes'[y] = closes[y]
        BY <2>2, <2>4 DEF CloseOnce
      <4>2. told'[y] = told[y] \/ told'[y] = told[y] \cup {what}
        BY <3>2
      <4> QED
        BY <4>1, <4>2
  <2>5. CASE UNCHANGED <<told, closes>>
    BY <2>2, <2>5 DEF CloseOnce
  <2>6. \/ Old
        \/ UNCHANGED <<told, closes>>
        \/ UNCHANGED closes /\ \E x : \E what \in {"accept", "open", "err"} : Tell(x, what)
    <3>1. (\E x \in Id : Connect(x)) => UNCHANGED <<told, closes>>
      BY <2>1, ConnectFacts DEF ownerVars
    <3>2. ASSUME NEW x \in Id, Accept(x) PROVE Tell(x, "accept")
      BY <2>1, <3>2, AcceptFacts
    <3>3. OpenSocket => TellNothing \/ \E x : Tell(x, "err") \/ Tell(x, "open")
      BY DEF OpenSocket
    <3>4. \A x, what : Tell(x, what) => UNCHANGED closes
      BY DEF Tell
    <3>5. TellNothing => UNCHANGED <<told, closes>>
      BY DEF TellNothing
    <3> QED
      <4>1. \A x : Tell(x, "accept") \/ Tell(x, "err") \/ Tell(x, "open")
              => \E y : \E what \in {"accept", "open", "err"} : Tell(y, what)
        OBVIOUS
      <4> QED
        <5>1. CASE \E x \in Id : Accept(x)
          <6>1. PICK x : Tell(x, "accept")
            BY <3>2, <5>1
          <6> QED
            BY <3>4, <4>1, <6>1, Zenon
        <5>2. CASE OpenSocket
          <6>1. TellNothing \/ \E x : Tell(x, "err") \/ Tell(x, "open")
            BY <3>3, <5>2
          <6> QED
            BY <3>3, <3>4, <3>5, <4>1, <6>1
        <5> QED
          BY <3>1, <5>1, <5>2 DEF Old
  <2> QED
    BY <2>3, <2>4, <2>5, <2>6
<1> QED
  BY <1>1, <1>2

\* The old sockets keep IdInv, OpenInv, ToldInv and CloseInv.
LEMMA OldIds ==
  ASSUME SocketInv, ~failed, ~failed', Next, Old
  PROVE  IdInv' /\ CloseInv'
<1>1. TypeOK /\ IdInv /\ CloseInv
  BY Parts
<1>2. /\ UNCHANGED alloc /\ slot' \in [Slot -> Socket]
      /\ \A k \in Slot :
           /\ slot'[k].id = slot[k].id /\ sending'[k].id = sending[k].id
           /\ slot[k].type = "invalid" => slot'[k].type = "invalid"
           /\ slot[k].type = "halfclose_read"
                => slot'[k].type \in {"halfclose_read", "invalid"}
  BY OldSlots
<1>3. \A x \in Id :
        /\ \/ closes'[x] = closes[x]
           \/ \E k \in Slot : /\ Alive(k) /\ slot[k].id = x
                              /\ slot'[k].type \in {"halfclose_read", "invalid"}
        /\ alloc < x => told'[x] = told[x] /\ closes'[x] = closes[x] /\ asked'[x] = asked[x]
  BY <1>1, OldTells, TellFacts, OldAsked
<1>4. \A i \in DOMAIN pipe' : 0 < pipe'[i].id /\ pipe'[i].id <= alloc'
  <2> TAKE i \in DOMAIN pipe'
  <2>1. CASE \E j \in DOMAIN pipe : pipe'[i] = pipe[j]
    BY <1>1, <1>2, <2>1 DEF IdInv
  <2>2. CASE pipe'[i] \in Request /\ pipe'[i].id <= alloc
    BY <1>2, <2>2 DEF Request, Id
  <2> QED
    BY <2>1, <2>2, RequestCases
<1>5. IdInv'
  BY <1>1, <1>2, <1>3, <1>4 DEF IdInv
<1>6. CloseInv'
  <2> SUFFICES ASSUME NEW k \in Slot, slot'[k].id # 0, closes'[slot'[k].id] > 0
               PROVE  slot'[k].type \in {"halfclose_read", "invalid"}
    BY DEF CloseInv
  <2> DEFINE x == slot[k].id
  <2>1. x \in Id /\ slot'[k].id = x /\ HASH(x) = k /\ x # 0
    BY <1>1, <1>2, SlotOf
  <2> HIDE DEF x
  <2>2. CASE closes'[x] = closes[x]
    <3>1. slot[k].type \in {"halfclose_read", "invalid"}
      BY <1>1, <2>1, <2>2 DEF CloseInv, x
    <3> QED
      BY <1>2, <3>1
  <2>3. CASE \E j \in Slot : /\ Alive(j) /\ slot[j].id = x
                             /\ slot'[j].type \in {"halfclose_read", "invalid"}
    <3>1. PICK j \in Slot : /\ Alive(j) /\ slot[j].id = x
                            /\ slot'[j].type \in {"halfclose_read", "invalid"}
      BY <2>3
    <3>2. j = k
      BY <1>1, <2>1, <3>1 DEF IdInv
    <3> QED
      BY <3>1, <3>2
  <2> QED
    BY <1>3, <2>1, <2>2, <2>3
<1> QED
  BY <1>5, <1>6

LEMMA OldTold ==
  ASSUME SocketInv, ~failed, ~failed', Next, Old
  PROVE  ToldInv'
<1>1. TypeOK /\ IdInv /\ CloseInv /\ ToldInv
  BY Parts
<1>2. \A k \in Slot :
        /\ slot'[k].id = slot[k].id /\ sending'[k].id = sending[k].id
        /\ slot'[k].type = "reserve" <=> slot[k].type = "reserve"
        /\ slot[k].type = "invalid" => slot'[k].type = "invalid"
  BY OldSlots
<1>3. \A x \in Id :
        /\ told[x] \subseteq told'[x]
        /\ \/ told'[x] \subseteq told[x] \cup {"err"}
           \/ \E k \in Slot : Alive(k) /\ slot[k].id = x
  BY <1>1, OldTells, TellFacts
<1>4. \A c \in Sender : call'[c] # None => "open" \in told'[call'[c].pkg.to]
  BY <1>3, OldRequests DEF CallFacts
<1>5. \A i \in DOMAIN pipe' :
        /\ pipe'[i].cmd = "D" => /\ pipe'[i].pkg.to = pipe'[i].id
                                 /\ "open" \in told'[pipe'[i].id]
        /\ pipe'[i].cmd = "R" => "accept" \in told'[pipe'[i].id]
  <2> TAKE i \in DOMAIN pipe'
  <2>1. pipe'[i].id \in Id
    BY OldRequests DEF Request
  <2>2. /\ pipe'[i].cmd = "D" => /\ pipe'[i].pkg.to = pipe'[i].id
                                 /\ "open" \in told[pipe'[i].id]
        /\ pipe'[i].cmd = "R" => "accept" \in told[pipe'[i].id]
    BY <1>1, RequestCases DEF ToldInv
  <2> QED
    BY <1>3, <2>1, <2>2
<1>6. ASSUME NEW x \in Id, told'[x] \cap {"open", "accept"} # {}, slot'[HASH(x)].id = x
      PROVE  slot'[HASH(x)].type # "reserve" /\ sending'[HASH(x)].id = x
  <2> DEFINE k == HASH(x)
  <2>1. k \in Slot
    BY HashSlot DEF Id
  <2>2. CASE told[x] \cap {"open", "accept"} # {}
    BY <1>1, <1>2, <1>6, <2>1, <2>2 DEF ToldInv
  <2>3. CASE \E j \in Slot : Alive(j) /\ slot[j].id = x
    <3>1. PICK j \in Slot : Alive(j) /\ slot[j].id = x
      BY <2>3
    <3>2. j = k
      BY <1>1, <3>1, AliveId DEF Alive
    <3> QED
      BY <1>1, <1>2, <2>1, <3>1, <3>2 DEF ToldInv, Alive
  <2> QED
    BY <1>3, <1>6, <2>2, <2>3
<1>7. \A k \in Slot : Alive(k)' => sending'[k].id = slot'[k].id
  BY <1>1, <1>2 DEF ToldInv, Alive
<1> QED
  BY <1>4, <1>5, <1>6, <1>7 DEF ToldInv

LEMMA OldOpen ==
  ASSUME SocketInv, ~failed, ~failed', Next, Old
  PROVE  OpenInv'
<1>1. TypeOK /\ IdInv /\ CloseInv /\ OpenInv
  BY Parts
<1>2. \A k \in Slot :
        /\ slot'[k].id = slot[k].id
        /\ slot'[k].type = "reserve" <=> slot[k].type = "reserve"
  BY OldSlots
<1>3. Requests /\ pipe \in Seq(Request)
  BY <1>1, OldRequests DEF TypeOK
<1>4. ASSUME NEW x \in Id, slot[HASH(x)].id = x, slot[HASH(x)].type = "reserve",
             told[x] \subseteq {"err"}, closes[x] = 0
      PROVE  /\ slot'[HASH(x)].id = x /\ slot'[HASH(x)].type = "reserve"
             /\ told'[x] \subseteq {"err"} /\ closes'[x] = 0
  <2>1. HASH(x) \in Slot
    BY HashSlot DEF Id
  <2>2. ~ \E k \in Slot : Alive(k) /\ slot[k].id = x
    <3> SUFFICES ASSUME NEW k \in Slot, Alive(k), slot[k].id = x PROVE FALSE
      OBVIOUS
    <3>1. HASH(x) = k
      BY <1>1, AliveId DEF Alive
    <3> QED
      BY <1>4, <3>1 DEF Alive
  <2>3. told'[x] \subseteq told[x] \cup {"err"} /\ closes'[x] = closes[x]
    BY <1>1, <2>2, OldTells, TellFacts
  <2> QED
    BY <1>2, <1>4, <2>1, <2>3
\* The requests before and after: n is the number of them that are gone.
<1>5. ASSUME NEW n \in {0, 1},
             \A i \in DOMAIN pipe : pipe[i].cmd = "O" =>
               n < i /\ i - n \in DOMAIN pipe' /\ pipe'[i - n] = pipe[i],
             \A i \in DOMAIN pipe' :
               \/ i + n \in DOMAIN pipe /\ pipe'[i] = pipe[i + n]
               \/ pipe'[i].cmd # "O",
             \A i \in DOMAIN pipe' : \A j \in DOMAIN pipe' :
               i + n \in DOMAIN pipe /\ j < i =>
                 j + n \in DOMAIN pipe /\ pipe'[j] = pipe[j + n],
             DOMAIN pipe' \subseteq Nat
      PROVE  OpenInv'
  <2>1. ASSUME NEW k \in Slot, slot'[k].type = "reserve"
        PROVE  \E i \in DOMAIN pipe' : pipe'[i].cmd = "O" /\ pipe'[i].id = slot'[k].id
    <3>1. PICK i \in DOMAIN pipe : pipe[i].cmd = "O" /\ pipe[i].id = slot[k].id
      BY <1>1, <1>2, <2>1 DEF OpenInv
    <3>2. i - n \in DOMAIN pipe' /\ pipe'[i - n] = pipe[i]
      BY <1>5, <3>1
    <3> QED
      BY <1>2, <3>1, <3>2
  <2>2. ASSUME NEW i \in DOMAIN pipe', pipe'[i].cmd = "O", NEW x, x = pipe'[i].id
        PROVE  /\ slot'[HASH(x)].id = x /\ slot'[HASH(x)].type = "reserve"
               /\ told'[x] \subseteq {"err"} /\ closes'[x] = 0
               /\ \A j \in DOMAIN pipe' : j < i => pipe'[j].id # x
    <3>1. i + n \in DOMAIN pipe /\ pipe'[i] = pipe[i + n]
      BY <1>5, <2>2
    <3>2. x \in Id
      BY <1>3, <2>2, <3>1 DEF Request
    <3>3. /\ slot[HASH(x)].id = x /\ slot[HASH(x)].type = "reserve"
          /\ told[x] \subseteq {"err"} /\ closes[x] = 0
          /\ \A j \in DOMAIN pipe : j < i + n => pipe[j].id # x
      <4> DEFINE m == i + n
      <4>1. m \in DOMAIN pipe /\ pipe[m].cmd = "O" /\ x = pipe[m].id
        BY <2>2, <3>1
      <4> HIDE DEF m
      <4>2. /\ slot[HASH(x)].id = x /\ slot[HASH(x)].type = "reserve"
            /\ told[x] \subseteq {"err"} /\ closes[x] = 0
            /\ \A j \in DOMAIN pipe : j < m => pipe[j].id # x
        BY <1>1, <4>1, Zenon DEF OpenInv
      <4> QED
        BY <4>2 DEF m
    <3>4. ASSUME NEW j \in DOMAIN pipe', j < i PROVE pipe'[j].id # x
      <4>1. j + n \in DOMAIN pipe /\ pipe'[j] = pipe[j + n]
        BY <1>5, <3>1, <3>4
      <4>2. j + n < i + n
        BY <1>5, <3>4
      <4> QED
        BY <3>3, <4>1, <4>2
    <3> QED
      BY <1>4, <3>2, <3>3, <3>4
  <2> QED
    BY <2>1, <2>2 DEF OpenInv
<1>6. CASE UNCHANGED pipe
  <2>1. \A i \in DOMAIN pipe : i \in Nat /\ 0 < i /\ i - 0 = i /\ i + 0 = i
    BY <1>3
  <2>2. /\ \A i \in DOMAIN pipe : i - 0 \in DOMAIN pipe /\ pipe[i - 0] = pipe[i]
        /\ \A i \in DOMAIN pipe : i + 0 \in DOMAIN pipe /\ pipe[i] = pipe[i + 0]
        /\ DOMAIN pipe \subseteq Nat
    BY <2>1
  <2> QED
    BY <1>5, <1>6, <2>1, <2>2
<1>7. CASE pipe # <<>> /\ Head(pipe).cmd # "O" /\ pipe' = Tail(pipe)
  <2>1. /\ \A i \in DOMAIN Tail(pipe) :
              i \in Nat /\ i + 1 \in DOMAIN pipe /\ Tail(pipe)[i] = pipe[i + 1]
        /\ \A i \in DOMAIN pipe : i # 1 =>
              1 < i /\ i - 1 \in DOMAIN Tail(pipe) /\ Tail(pipe)[i - 1] = pipe[i]
        /\ pipe[1] = Head(pipe)
    BY <1>3, <1>7
  <2> HIDE DEF OpenInv
  <2>2. \A i \in DOMAIN pipe : pipe[i].cmd = "O" => i # 1
    BY <1>7, <2>1
  <2>3. DOMAIN Tail(pipe) \subseteq Nat
    BY <2>1
  <2> QED
    BY <1>5, <1>7, <2>1, <2>2, <2>3
<1>8. ASSUME NEW r \in Request, pipe' = Append(pipe, r), r.cmd # "O"
      PROVE  OpenInv'
  <2>1. /\ \A i \in DOMAIN pipe : /\ i \in Nat /\ 0 < i /\ i - 0 = i /\ i + 0 = i
                                  /\ i \in DOMAIN Append(pipe, r)
                                  /\ Append(pipe, r)[i] = pipe[i]
        /\ \A i \in DOMAIN Append(pipe, r) :
              /\ i \in Nat /\ i + 0 = i
              /\ i \in DOMAIN pipe \/ Append(pipe, r)[i] = r
        /\ \A i \in DOMAIN Append(pipe, r) : \A j \in DOMAIN Append(pipe, r) :
              i \in DOMAIN pipe /\ j < i => j \in DOMAIN pipe
    BY <1>3
  <2>2. DOMAIN Append(pipe, r) \subseteq Nat
    BY <2>1
  <2> QED
    BY <1>5, <1>8, <2>1, <2>2
<1> QED
  BY <1>3, <1>6, <1>7, <1>8 DEF Requests

\* Who has the lock of a connection, and what is left of a direct write.
LEMMA SendingFresh ==
  ASSUME SocketInv, ~failed, NEW c \in Sender, Sending(c)
  PROVE  /\ FreshInv'
         /\ dw' \in [Slot -> Buffer \cup {None}]
         /\ lock' \in [Slot -> Sender \cup {None}]
<1>1. TypeOK /\ ToldInv /\ FreshInv
  BY Parts
<1>2. UNCHANGED slot
  BY <1>1, SendingFrame
<1>3. /\ dw \in [Slot -> Buffer \cup {None}]
      /\ lock \in [Slot -> Sender \cup {None}]
  BY <1>1 DEF TypeOK
<1> DEFINE k == HASH(call[c].pkg.to)
           L(d) == call'[d] # None =>
                     LET j == HASH(call'[d].pkg.to) IN
                     /\ call'[d].pc \in {"lock", "write"} => lock'[j] = d
                     /\ call'[d].pc = "write" => Alive(j) /\ dw'[j] = None
\* The senders that have the lock of another slot, or none.
<1>4. ASSUME \A j \in Slot : lock[j] # None /\ lock[j] # c => lock'[j] = lock[j],
             \A j \in Slot : dw'[j] = dw[j] \/ (Alive(j) /\ lock[j] = c),
             dw' \in [Slot -> Buffer \cup {None}],
             lock' \in [Slot -> Sender \cup {None}],
             L(c)
      PROVE  /\ FreshInv'
             /\ dw' \in [Slot -> Buffer \cup {None}]
             /\ lock' \in [Slot -> Sender \cup {None}]
  <2>1. ASSUME NEW j \in Slot, ~Alive(j)'
        PROVE  BufferEmpty(slot'[j]) /\ dw'[j] = None
    <3>1. ~Alive(j) /\ slot'[j] = slot[j]
      BY <1>2, <2>1 DEF Alive
    <3> QED
      BY <1>1, <1>4, <3>1 DEF FreshInv
  <2>2. ASSUME NEW d \in Sender PROVE L(d)
    <3>1. CASE d = c
      BY <1>4, <3>1
    <3>2. CASE d # c
      <4>1. call'[d] = call[d]
        BY <1>1, <3>2, SendingCalls
      <4> SUFFICES ASSUME call[d] # None
                   PROVE  LET j == HASH(call[d].pkg.to) IN
                          /\ call[d].pc \in {"lock", "write"} => lock'[j] = d
                          /\ call[d].pc = "write" => Alive(j) /\ dw'[j] = None
        BY <4>1
      <4> DEFINE j == HASH(call[d].pkg.to)
      <4>2. j \in Slot
        BY <1>1, CallType
      <4>3. /\ call[d].pc \in {"lock", "write"} => lock[j] = d
            /\ call[d].pc = "write" => Alive(j) /\ dw[j] = None
        BY <1>1 DEF FreshInv
      <4> HIDE DEF j
      <4>4. d # None
        BY SocketServerAssumption
      <4>5. call[d].pc \in {"lock", "write"} => lock'[j] = d
        BY <1>4, <3>2, <4>2, <4>3, <4>4
      <4>6. call[d].pc = "write" => Alive(j) /\ dw'[j] = None
        BY <1>4, <3>2, <4>2, <4>3
      <4> QED
        BY <4>5, <4>6, Zenon DEF j
    <3> QED
      BY <3>1, <3>2
  <2> HIDE DEF L
  <2>3. \A d \in Sender : L(d)
    BY <2>2
  <2>4. \A j : Alive(j)' <=> Alive(j)
    BY <1>2 DEF Alive
  <2> QED
    BY <1>4, <2>1, <2>3, <2>4 DEF FreshInv, L
<1> HIDE DEF L
<1>5. ASSUME UNCHANGED <<dw, lock>>,
             call'[c] = None \/ call'[c].pc \notin {"lock", "write"}
      PROVE  /\ FreshInv'
             /\ dw' \in [Slot -> Buffer \cup {None}]
             /\ lock' \in [Slot -> Sender \cup {None}]
  BY <1>3, <1>4, <1>5 DEF L
<1>6. CASE \/ call[c] = None
           \/ Trigger(c) \/ IncSending(c) \/ SendRequest(c)
  <2>1. UNCHANGED <<dw, lock>>
    <3>1. call[c] = None => UNCHANGED slotVars
      BY <1>1, SendingCalls
    <3> QED
      BY <1>6, <3>1 DEF Trigger, IncSending, SendRequest, slotVars
  <2>2. call'[c] = None \/ call'[c].pc \notin {"lock", "write"}
    <3>1. call[c] # None => call[c].pc \in {"trigger", "queue", "request"}
      BY <1>6 DEF Trigger, IncSending, SendRequest
    <3> QED
      BY <1>1, <3>1, SendingCalls
  <2> QED
    BY <1>5, <2>1, <2>2
<1>7. ASSUME call[c] # None
      PROVE  /\ k \in Slot
             /\ call[c].pc \in {"lock", "write"} => lock[k] = c
             /\ call[c].pc = "write" => Alive(k) /\ dw[k] = None
  BY <1>1, <1>7, CallType DEF FreshInv
<1>8. CASE TryLock(c)
  <2>1. /\ call[c] # None /\ UNCHANGED dw
        /\ \/ lock[k] = None /\ Goes(c, "lock") /\ lock' = [lock EXCEPT ![k] = c]
           \/ Goes(c, "queue") /\ UNCHANGED lock
    BY <1>8 DEF TryLock
  <2>2. CASE Goes(c, "queue") /\ UNCHANGED lock
    <3>1. call'[c].pc = "queue"
      BY <1>1, <2>1, <2>2, GoesFacts
    <3> QED
      BY <1>5, <2>1, <2>2, <3>1
  <2>3. CASE lock[k] = None /\ Goes(c, "lock") /\ lock' = [lock EXCEPT ![k] = c]
    <3>1. call'[c].pc = "lock" /\ call'[c].pkg = call[c].pkg
      BY <1>1, <2>1, <2>3, GoesFacts
    <3>2. k \in Slot /\ HASH(call'[c].pkg.to) = k
      BY <1>7, <2>1, <3>1
    <3> HIDE DEF k
    <3>3. /\ lock' \in [Slot -> Sender \cup {None}] /\ lock'[k] = c
          /\ \A j \in Slot : j # k => lock'[j] = lock[j]
      BY <1>3, <2>3, <3>2
    <3>4. L(c)
      BY <3>1, <3>2, <3>3 DEF L
    <3> QED
      BY <1>3, <1>4, <2>1, <2>3, <3>3, <3>4
  <2> QED
    BY <2>1, <2>2, <2>3
<1>9. CASE DoubleCheck(c)
  <2> DEFINE x == call[c].pkg.to
  <2>1. /\ call[c] # None /\ call[c].pc = "lock" /\ UNCHANGED dw
        /\ \/ CanDirectWrite(x) /\ Goes(c, "write") /\ UNCHANGED lock
           \/ Goes(c, "queue") /\ lock' = [lock EXCEPT ![k] = None]
    BY <1>9 DEF DoubleCheck
  <2>2. k \in Slot /\ lock[k] = c
    BY <1>7, <2>1
  <2>3. CASE CanDirectWrite(x) /\ Goes(c, "write") /\ UNCHANGED lock
    <3>1. call'[c].pc = "write" /\ call'[c].pkg = call[c].pkg
      BY <1>1, <2>1, <2>3, GoesFacts
    <3>2. Alive(k) /\ dw[k] = None
      BY <2>3 DEF CanDirectWrite, NoMoreSending, Alive
    <3>3. HASH(call'[c].pkg.to) = k
      BY <3>1
    <3> HIDE DEF k
    <3>4. L(c)
      BY <2>1, <2>2, <2>3, <3>1, <3>2, <3>3 DEF L
    <3> QED
      BY <1>3, <1>4, <2>1, <2>3, <3>4
  <2>4. CASE Goes(c, "queue") /\ lock' = [lock EXCEPT ![k] = None]
    <3>1. call'[c].pc = "queue"
      BY <1>1, <2>1, <2>4, GoesFacts
    <3>2. L(c)
      BY <3>1 DEF L
    <3> HIDE DEF k
    <3> QED
      BY <1>3, <1>4, <2>1, <2>2, <2>4, <3>2
  <2> QED
    BY <2>1, <2>3, <2>4
<1>10. CASE DirectWrite(c)
  <2> DEFINE p == call[c].pkg
  <2>1. /\ call[c] # None /\ call[c].pc = "write"
        /\ \E n \in Writes(p.to, Unit) :
             \/ UNCHANGED dw
             \/ n # Unit /\ dw' = [dw EXCEPT ![k] = [pkg |-> p, left |-> Unit - n]]
        /\ lock' = [lock EXCEPT ![k] = None]
    BY <1>10 DEF DirectWrite
  <2>2. k \in Slot /\ lock[k] = c /\ Alive(k) /\ p \in Package
    BY <1>1, <1>7, <2>1, CallType
  <2>3. call'[c] = None \/ call'[c].pc = "trigger"
    BY <1>1, <1>10, <2>1, SendingCalls
  <2>4. L(c)
    BY <2>3 DEF L
  <2> HIDE DEF k, p
  <2>5. /\ lock' \in [Slot -> Sender \cup {None}]
        /\ \A j \in Slot : lock[j] # None /\ lock[j] # c => lock'[j] = lock[j]
    BY <1>3, <2>1, <2>2
  <2>6. /\ dw' \in [Slot -> Buffer \cup {None}]
        /\ \A j \in Slot : dw'[j] = dw[j] \/ j = k
    <3>1. PICK n \in Writes(p.to, Unit) :
             \/ UNCHANGED dw
             \/ n # Unit /\ dw' = [dw EXCEPT ![k] = [pkg |-> p, left |-> Unit - n]]
      BY <2>1
    <3>2. n \in 0..Unit
      BY DEF Writes, Unit
    <3>3. n # Unit => [pkg |-> p, left |-> Unit - n] \in Buffer
      BY <2>2, <3>2 DEF Buffer, Unit
    <3> QED
      BY <1>3, <2>2, <3>1, <3>3
  <2> QED
    BY <1>4, <2>2, <2>4, <2>5, <2>6
<1> QED
  BY <1>1, <1>6, <1>8, <1>9, <1>10, SendingCalls

\* The lists of the slots, in the steps that are not about a new socket.
LEMMA TouchFresh ==
  ASSUME SocketInv, ~failed, NEW k \in Slot, NEW t, Touch(k, t),
         UNCHANGED <<lock, call>>
  PROVE  /\ FreshInv'
         /\ dw' \in [Slot -> Buffer \cup {None}]
<1>1. TypeOK /\ FreshInv
  BY Parts
<1>2. \A j \in Slot : slot'[j] = IF j = k THEN t ELSE slot[j]
  BY <1>1, PutsAt DEF Touch
<1>3. /\ dw' \in [Slot -> Buffer \cup {None}]
      /\ \A j \in Slot : dw'[j] = dw[j] \/ (j = k /\ dw'[j] = None)
  <2>1. dw \in [Slot -> Buffer \cup {None}]
    BY <1>1 DEF TypeOK
  <2> QED
    BY <2>1 DEF Touch
<1>4. /\ t.type \in {"invalid", "reserve"} => BufferEmpty(t) /\ dw'[k] = None
      /\ t.type = "invalid" => lock[k] = None
      /\ Alive(k) => t.type # "reserve"
  BY DEF Touch, Alive
<1>5. ASSUME NEW j \in Slot, ~Alive(j)'
      PROVE  BufferEmpty(slot'[j]) /\ dw'[j] = None
  <2>1. CASE j = k
    BY <1>2, <1>4, <1>5, <2>1 DEF Alive
  <2>2. CASE j # k
    <3>1. slot'[j] = slot[j] /\ dw'[j] = dw[j]
      BY <1>2, <1>3, <2>2
    <3> QED
      BY <1>1, <1>5, <3>1 DEF FreshInv, Alive
  <2> QED
    BY <2>1, <2>2
<1>6. ASSUME NEW c \in Sender, call[c] # None, NEW j, j = HASH(call[c].pkg.to)
      PROVE  /\ call[c].pc \in {"lock", "write"} => lock[j] = c
             /\ call[c].pc = "write" => Alive(j)' /\ dw'[j] = None
  <2>1. /\ call[c].pc \in {"lock", "write"} => lock[j] = c
        /\ call[c].pc = "write" => Alive(j) /\ dw[j] = None
    BY <1>1, <1>6 DEF FreshInv
  <2>2. j \in Slot /\ c # None
    BY <1>1, <1>6, CallType, SocketServerAssumption
  <2>3. ASSUME call[c].pc = "write" PROVE Alive(j)' /\ dw'[j] = None
    <3>1. lock[j] # None /\ Alive(j) /\ dw[j] = None
      BY <2>1, <2>2, <2>3
    <3>2. dw'[j] = None
      BY <1>3, <2>2, <3>1
    <3>3. Alive(j)'
      <4>1. CASE j = k
        BY <1>2, <1>4, <2>2, <3>1, <4>1 DEF Alive
      <4>2. CASE j # k
        BY <1>2, <2>2, <3>1, <4>2 DEF Alive
      <4> QED
        BY <4>1, <4>2
    <3> QED
      BY <3>2, <3>3
  <2> QED
    BY <2>1, <2>3
<1>7. FreshInv'
  BY <1>5, <1>6 DEF FreshInv
<1> QED
  BY <1>3, <1>7

LEMMA OldFresh ==
  ASSUME SocketInv, ~failed, ~failed', Next, Old
  PROVE  /\ FreshInv'
         /\ dw' \in [Slot -> Buffer \cup {None}]
         /\ lock' \in [Slot -> Sender \cup {None}]
<1>1. TypeOK /\ FreshInv
  BY Parts
<1>2. CASE \E c \in Sender : Sending(c)
  BY <1>2, SendingFresh
<1>3. CASE UNCHANGED <<slot, dw, lock, call>>
  BY <1>1, <1>3 DEF TypeOK, FreshInv, Alive
<1>4. CASE Asking \/ Peer \/ Idle
  <2>1. UNCHANGED <<slot, dw, lock, call>>
    BY <1>4, AskingFrame, PeerFrame, IdleFrame DEF slotVars, senderVars
  <2> QED
    BY <1>3, <2>1
<1>5. CASE ChangesSlot
  <2>1. UNCHANGED <<lock, call>>
    BY <1>5, ThreadFrame DEF senderVars
  <2>2. CASE \E k \in Slot : \E t : Touch(k, t)
    BY <1>1, <2>1, <2>2, TouchFresh DEF TypeOK
  <2>3. CASE UNCHANGED slot
    <3>1. \/ UNCHANGED dw
          \/ \E k \in Slot : dw' = [dw EXCEPT ![k] = None]
      <4>1. ForceClose => \E k \in Slot : \E t : Touch(k, t)
        BY ForceCloseTouch
      <4>2. ASSUME NEW e \in ev \ {None}, WriteError(e) \/ \E u : SendBuffer(e, u)
            PROVE  \E k \in Slot : \E t : Touch(k, t)
        BY <4>2, WriteErrorTouch, SendBufferTouch
      <4>3. \A k, t : Touch(k, t) => \/ UNCHANGED dw
                                    \/ dw' = [dw EXCEPT ![k] = None]
        BY DEF Touch
      <4>4. \/ ForceClose
            \/ \E e \in ev \ {None} : WriteError(e) \/ \E u : SendBuffer(e, u)
            \/ UNCHANGED dw
        BY <1>5 DEF ChangesSlot, ResumeSocket, CloseSocket, SendSocket, TriggerWrite,
             ReportConnect, ReadEnd, EofEvent
      <4> QED
        BY <4>1, <4>2, <4>3, <4>4, Zenon
    <3>2. CASE UNCHANGED dw
      BY <1>3, <2>1, <2>3, <3>2
    <3>3. ASSUME NEW k \in Slot, dw' = [dw EXCEPT ![k] = None]
          PROVE  /\ FreshInv'
                 /\ dw' \in [Slot -> Buffer \cup {None}]
                 /\ lock' \in [Slot -> Sender \cup {None}]
      <4>1. /\ dw \in [Slot -> Buffer \cup {None}]
            /\ lock \in [Slot -> Sender \cup {None}]
        BY <1>1 DEF TypeOK
      <4>2. /\ dw' \in [Slot -> Buffer \cup {None}]
            /\ \A j \in Slot : dw[j] = None => dw'[j] = None
        BY <3>3, <4>1
      <4>3. \A c \in Sender : call[c] # None => HASH(call[c].pkg.to) \in Slot
        BY <1>1, CallType
      <4> QED
        BY <1>1, <2>1, <2>3, <4>1, <4>2, <4>3 DEF FreshInv, Alive
    <3> QED
      BY <3>1, <3>2, <3>3
  <2> QED
    BY <1>5, <2>2, <2>3, ChangesTouch
<1> QED
  BY <1>2, <1>4, <1>5, Cases DEF Old

\* What the steps do with force.
Forces(k, raise) ==
  /\ ForceCloseAt(k, raise) /\ slot[k].type # "invalid"
  /\ raise = "close" => slot[k].type # "halfclose_read"
  /\ UNCHANGED <<closes, dw>>

LEMMA ForceCases ==
  ASSUME SocketInv, ~failed, ChangesSlot
  PROVE  \/ ForceClose /\ force' = None
         \/ force = None /\ force' = None
         \/ /\ force = None
            /\ \E k \in Slot, raise \in {"close", "err", "none"} : Forces(k, raise)
<1>1. TypeOK /\ IdInv /\ OpenInv
  BY Parts
<1>2. ForceClose => force' = None
  BY DEF ForceClose
<1>3. ChangesSlot => ForceClose \/ force = None
  BY ChangesCases DEF Command, Handling
<1>4. ResumeSocket \/ SendSocket \/ TriggerWrite => UNCHANGED force
  BY DEF ResumeSocket, SendSocket, TriggerWrite
<1>5. ASSUME NEW e \in ev \ {None}, WriteError(e) \/ \E u : SendBuffer(e, u)
      PROVE  UNCHANGED force
  BY <1>5 DEF WriteError, SendBuffer
<1>6. ASSUME NEW cmd \in {"K", "X"}, CloseSocket(cmd)
      PROVE  \/ UNCHANGED force
             \/ \E k \in Slot, raise \in {"close", "err", "none"} : Forces(k, raise)
  <2> DEFINE x == Head(pipe).id
             k == HASH(x)
  <2>1. pipe # <<>> /\ UNCHANGED dw
    BY <1>6 DEF CloseSocket, Command
  <2>2. k \in Slot
    BY <1>1, <2>1, HeadPipe
  <2>3. \/ UNCHANGED force
        \/ /\ ~Invalid(x)
           /\ ForceCloseAt(k, Raises(k)) /\ TellNothing
    BY <1>1, <1>6, CloseSocketPuts, Zenon
  <2>4. CASE /\ ~Invalid(x)
             /\ ForceCloseAt(k, Raises(k)) /\ TellNothing
    <3>1. slot[k].type # "invalid"
      BY <2>4 DEF Invalid
    <3>2. /\ Raises(k) \in {"close", "err", "none"}
          /\ Raises(k) = "close" => slot[k].type # "halfclose_read"
      BY DEF Raises
    <3> HIDE DEF k, x
    <3>3. Forces(k, Raises(k))
      BY <2>1, <2>4, <3>1, <3>2 DEF Forces, TellNothing
    <3> QED
      BY <2>2, <3>2, <3>3
  <2> QED
    BY <2>3, <2>4
<1>7. ASSUME NEW e \in ev \ {None}, EofEvent(e) \/ ReportConnect(e) \/ ReadEnd(e)
      PROVE  \/ UNCHANGED force
             \/ \E k \in Slot, raise \in {"close", "err", "none"} : Forces(k, raise)
  <2> DEFINE k == e.s
  <2>1. k \in Slot
    BY <1>1, EventSlot
  <2>2. UNCHANGED dw
    BY <1>7 DEF EofEvent, ReportConnect, ReadEnd
  <2>3. CASE EofEvent(e)
    <3>1. ForceCloseAt(k, Raises(k)) /\ TellNothing /\ slot[k].type # "invalid"
      BY <2>3 DEF EofEvent, Default
    <3>2. /\ Raises(k) \in {"close", "err", "none"}
          /\ Raises(k) = "close" => slot[k].type # "halfclose_read"
      BY DEF Raises
    <3> HIDE DEF k
    <3>3. Forces(k, Raises(k))
      BY <2>2, <3>1, <3>2 DEF Forces, TellNothing
    <3> QED
      BY <2>1, <3>2, <3>3
  <2>4. CASE ReportConnect(e)
    <3>1. /\ slot[k].type = "connecting"
          /\ \/ UNCHANGED force
             \/ ForceCloseAt(k, "err") /\ TellNothing
      BY <1>1, <2>4, ReportConnectPuts, Zenon
    <3> HIDE DEF k
    <3>2. ForceCloseAt(k, "err") /\ TellNothing => Forces(k, "err")
      BY <2>2, <3>1 DEF Forces, TellNothing
    <3> QED
      BY <2>1, <3>1, <3>2
  <2>5. CASE ReadEnd(e)
    <3>1. /\ Alive(k)
          /\ \/ UNCHANGED force
             \/ ForceCloseAt(k, "none") /\ TellNothing
             \/ /\ slot[k].type # "halfclose_read"
                /\ ForceCloseAt(k, "close") /\ TellNothing
      BY <1>1, <2>5, ReadEndPuts, Zenon
    <3> HIDE DEF k
    <3>2. /\ ForceCloseAt(k, "none") /\ TellNothing => Forces(k, "none")
          /\ slot[k].type # "halfclose_read" /\ ForceCloseAt(k, "close") /\ TellNothing
               => Forces(k, "close")
      BY <2>2, <3>1 DEF Forces, TellNothing, Alive
    <3> QED
      BY <2>1, <3>1, <3>2
  <2> QED
    BY <1>7, <2>3, <2>4, <2>5
<1>8. \/ ForceClose
      \/ UNCHANGED force
      \/ \E k \in Slot, raise \in {"close", "err", "none"} : Forces(k, raise)
  <2>1. "K" \in {"K", "X"} /\ "X" \in {"K", "X"}
    OBVIOUS
  <2> QED
    BY <1>4, <1>5, <1>6, <1>7, <2>1, Zenon DEF ChangesSlot
<1> QED
  BY <1>2, <1>3, <1>8

LEMMA OldForce ==
  ASSUME SocketInv, ~failed, ~failed', Next, Old
  PROVE  /\ ForceInv'
         /\ force' \in [s : Slot, raise : {"close", "err", "none"}] \cup {None}
<1>1. TypeOK /\ IdInv /\ CloseInv /\ ForceInv /\ FreshInv
  BY Parts
<1>2. force \in [s : Slot, raise : {"close", "err", "none"}] \cup {None}
  BY <1>1 DEF TypeOK
<1>3. CASE UNCHANGED <<slot, closes, force>>
  BY <1>1, <1>2, <1>3 DEF ForceInv, Alive
<1>4. CASE (\E c \in Sender : Sending(c)) \/ Asking \/ Peer
  <2>1. UNCHANGED <<slot, closes, force>>
    BY <1>1, <1>4, SendingFrame, AskingFrame, PeerFrame DEF slotVars, pollVars, ownerVars
  <2> QED
    BY <1>3, <2>1
<1>5. CASE force' = None
  BY <1>5 DEF ForceInv
<1>6. CASE Idle
  BY <1>5, <1>6, IdleFrame
<1>7. CASE ChangesSlot
  <2>1. CASE \E k \in Slot, raise \in {"close", "err", "none"} : Forces(k, raise)
    <3>1. PICK k \in Slot, raise \in {"close", "err", "none"} : Forces(k, raise)
      BY <2>1
    <3>2. /\ ForceCloseAt(k, raise) /\ slot[k].type # "invalid" /\ UNCHANGED <<dw, closes>>
          /\ raise = "close" => slot[k].type # "halfclose_read"
      BY <3>1 DEF Forces
    <3>3. /\ Alive(k) /\ Touch(k, Freed(slot[k]))
          /\ force' # None /\ force'.s = k /\ force'.raise = raise
      BY <1>1, <3>2, TouchForce
    <3>4. slot'[k] = Freed(slot[k])
      BY <1>1, <3>3, PutsAt DEF Touch
    <3>5. Same(slot[k], Freed(slot[k])) /\ BufferEmpty(Freed(slot[k]))
      BY <1>1, FreedFacts DEF TypeOK
    <3>6. raise = "close" => closes[slot[k].id] = 0
      BY <1>1, <3>2, AliveId
    <3>7. force' = [s |-> k, raise |-> raise]
      BY <3>2 DEF ForceCloseAt
    <3>8. slot'[k].type = slot[k].type /\ slot'[k].id = slot[k].id
      BY <3>4, <3>5 DEF Same
    <3>9. Alive(k)' /\ BufferEmpty(slot'[k])
      BY <3>3, <3>4, <3>5, <3>8 DEF Alive
    <3>10. ForceInv'
      BY <3>2, <3>3, <3>6, <3>8, <3>9 DEF ForceInv
    <3> QED
      BY <3>7, <3>10
  <2> QED
    BY <1>5, <1>7, <2>1, ForceCases
<1> QED
  BY <1>4, <1>6, <1>7, Cases DEF Old

LEMMA OldSize ==
  ASSUME SocketInv, ~failed, ~failed', Next, Old
  PROVE  SizeInv'
<1>1. TypeOK /\ SizeInv
  BY Parts
<1>2. SizeInv <=> \A k \in Slot :
        /\ Alive(k) /\ (force = None \/ force.s # k) => Sized(slot[k])
        /\ Whole(slot[k].low, 1)
  BY DEF SizeInv, Sized
<1>3. SizeInv' <=> \A k \in Slot :
        /\ Alive(k)' /\ (force' = None \/ force'.s # k) => Sized(slot'[k])
        /\ Whole(slot'[k].low, 1)
  BY DEF SizeInv, Sized
<1>4. CASE (\E c \in Sender : Sending(c)) \/ Asking \/ Peer \/ Idle
  <2>1. UNCHANGED <<slot, force>>
    BY <1>1, <1>4, SendingFrame, AskingFrame, PeerFrame, IdleFrame DEF slotVars, pollVars
  <2> QED
    BY <1>1, <1>2, <1>3, <2>1 DEF Alive
<1>5. ASSUME NEW k \in Slot, NEW t, Touch(k, t), force = None \/ force.s = k
      PROVE  SizeInv'
  <2>1. \A j \in Slot : slot'[j] = IF j = k THEN t ELSE slot[j]
    BY <1>1, <1>5, PutsAt DEF Touch
  <2>2. /\ \/ t.type \in {"invalid", "reserve"}
           \/ force' # None /\ force'.s = k
           \/ Sized(t)
        /\ Whole(t.low, 1)
    BY <1>5 DEF Touch
  <2>3. ASSUME NEW j \in Slot, j # k
        PROVE  /\ Alive(j)' => Sized(slot'[j])
               /\ Whole(slot'[j].low, 1)
    <3>1. slot'[j] = slot[j] /\ (Alive(j)' <=> Alive(j)) /\ (force = None \/ force.s # j)
      BY <1>5, <2>1, <2>3 DEF Alive
    <3> QED
      BY <1>1, <1>2, <3>1
  <2>4. /\ Alive(k)' /\ (force' = None \/ force'.s # k) => Sized(slot'[k])
        /\ Whole(slot'[k].low, 1)
    BY <2>1, <2>2 DEF Alive
  <2> QED
    BY <1>3, <2>3, <2>4
<1>6. CASE ForceClose
  BY <1>5, <1>6, ForceCloseTouch
<1>7. CASE ChangesSlot /\ ~ForceClose
  <2>1. force = None
    BY <1>7, ForceCases
  <2>2. CASE ~UNCHANGED slot
    BY <1>5, <1>7, <2>1, <2>2, ChangesTouch
  <2>3. CASE UNCHANGED slot
    BY <1>1, <1>2, <1>3, <2>1, <2>3 DEF Alive
  <2> QED
    BY <2>2, <2>3
<1> QED
  BY <1>4, <1>6, <1>7, Cases DEF Old
-----------------------------------------------------------------------------
(* The packages that are counted.                                          *)

LEMMA CountFinite ==
  ASSUME NEW x, pipe \in Seq(Request)
  PROVE  /\ IsFiniteSet(Coming(x)) /\ Cardinality(Coming(x)) \in Nat
         /\ IsFiniteSet(Going(x)) /\ Cardinality(Going(x)) \in Nat
<1>1. IsFiniteSet(Coming(x))
  <2>1. DOMAIN pipe = 1..Len(pipe) /\ Len(pipe) \in Int /\ 1 \in Int
    OBVIOUS
  <2>2. IsFiniteSet(1..Len(pipe))
    BY <2>1, FS_Interval
  <2>3. Coming(x) \in SUBSET (1..Len(pipe))
    BY <2>1 DEF Coming
  <2> QED
    BY <2>2, <2>3, FS_Subset
<1>2. IsFiniteSet(Going(x))
  <2>1. Going(x) \in SUBSET Sender /\ IsFiniteSet(Sender)
    BY SocketServerAssumption DEF Going
  <2> QED
    BY <2>1, FS_Subset
<1> QED
  BY <1>1, <1>2, FS_CardinalityType

\* A request more, and one less.
LEMMA ComingAppend ==
  ASSUME NEW x, pipe \in Seq(Request), NEW r \in Request, pipe' = Append(pipe, r)
  PROVE  /\ Cardinality(Coming(x)') \in Nat
         /\ Cardinality(Coming(x)') <= Cardinality(Coming(x)) + 1
         /\ ~(r.cmd = "D" /\ r.id = x) => Coming(x)' = Coming(x)
<1> DEFINE n == Len(pipe) + 1
<1>1. /\ DOMAIN pipe' = DOMAIN pipe \cup {n} /\ n \notin DOMAIN pipe
      /\ pipe'[n] = r /\ \A i \in DOMAIN pipe : pipe'[i] = pipe[i]
  OBVIOUS
<1>2. Coming(x)' = {i \in DOMAIN pipe' : pipe'[i].cmd = "D" /\ pipe'[i].id = x}
  BY DEF Coming
<1> HIDE DEF n
<1>3. \/ Coming(x)' = Coming(x)
      \/ r.cmd = "D" /\ r.id = x /\ Coming(x)' = Coming(x) \cup {n}
  <2>1. CASE r.cmd = "D" /\ r.id = x
    BY <1>1, <1>2, <2>1 DEF Coming
  <2>2. CASE ~(r.cmd = "D" /\ r.id = x)
    BY <1>1, <1>2, <2>2 DEF Coming
  <2> QED
    BY <2>1, <2>2
<1>4. /\ IsFiniteSet(Coming(x)) /\ Cardinality(Coming(x)) \in Nat
  BY CountFinite
<1> DEFINE C == Coming(x)
<1>5. /\ Cardinality(C) \in Nat /\ Cardinality(C) <= Cardinality(C) + 1
      /\ Cardinality(C \cup {n}) <= Cardinality(C) + 1
      /\ Cardinality(C \cup {n}) \in Nat
  <2> HIDE DEF C
  <2>1. IsFiniteSet(C) /\ Cardinality(C) \in Nat
    BY <1>4 DEF C
  <2>2. Cardinality(C \cup {n}) = IF n \in C THEN Cardinality(C) ELSE Cardinality(C) + 1
    BY <2>1, FS_AddElement
  <2> QED
    BY <2>1, <2>2
<1>6. PICK D : D = Coming(x)'
  OBVIOUS
<1>7. /\ Cardinality(D) \in Nat
      /\ Cardinality(D) <= Cardinality(C) + 1
      /\ ~(r.cmd = "D" /\ r.id = x) => D = C
  <2>1. D = C \/ (r.cmd = "D" /\ r.id = x /\ D = C \cup {n})
    BY <1>3, <1>6
  <2> HIDE DEF C
  <2> QED
    BY <1>5, <2>1
<1> QED
  BY <1>6, <1>7

LEMMA ComingTail ==
  ASSUME NEW x, pipe \in Seq(Request), pipe # <<>>, pipe' = Tail(pipe)
  PROVE  /\ Cardinality(Coming(x)') \in Nat
         /\ Cardinality(Coming(x)') <= Cardinality(Coming(x))
         /\ Head(pipe).cmd = "D" /\ Head(pipe).id = x
              => Cardinality(Coming(x)') + 1 <= Cardinality(Coming(x))
<1> DEFINE S == {i \in DOMAIN pipe' : pipe'[i].cmd = "D" /\ pipe'[i].id = x}
           C == Coming(x)
           f == [i \in S |-> i + 1]
<1>1. Coming(x)' = S
  BY DEF Coming
<1>2. IsFiniteSet(C) /\ Cardinality(C) \in Nat
  BY CountFinite
<1>3. /\ IsFiniteSet(C \ {1})
      /\ Cardinality(C \ {1}) = IF 1 \in C THEN Cardinality(C) - 1 ELSE Cardinality(C)
  <2> HIDE DEF C
  <2> QED
    BY <1>2, FS_RemoveElement
<1>4. \A i \in DOMAIN pipe' :
        /\ i \in Nat /\ i # 0
        /\ i + 1 \in DOMAIN pipe /\ pipe'[i] = pipe[i + 1]
  OBVIOUS
<1>5. f \in Injection(S, C \ {1})
  <2>1. \A i \in S : f[i] = i + 1 /\ i + 1 \in C \ {1} /\ i \in Nat
    BY <1>4 DEF Coming
  <2>2. f \in [S -> C \ {1}]
    BY <2>1
  <2>3. \A i, j \in S : f[i] = f[j] => i = j
    BY <2>1
  <2> QED
    BY <2>2, <2>3 DEF Injection, IsInjective
<1> HIDE DEF f, S
<1>6. IsFiniteSet(S) /\ Cardinality(S) <= Cardinality(C \ {1})
  <2> HIDE DEF C
  <2> QED
    BY <1>3, <1>5, FS_Injection
<1>7. Cardinality(S) \in Nat
  BY <1>6, FS_CardinalityType
<1>8. Head(pipe).cmd = "D" /\ Head(pipe).id = x => 1 \in C
  BY DEF Coming
<1> HIDE DEF C
<1>9. /\ Cardinality(S) \in Nat /\ Cardinality(S) <= Cardinality(C)
      /\ 1 \in C => Cardinality(S) + 1 <= Cardinality(C)
  BY <1>2, <1>3, <1>6, <1>7
<1> QED
  BY <1>1, <1>8, <1>9 DEF C

\* A sender begins to send a request, or has sent it.
LEMMA GoingSend ==
  ASSUME TypeOK, ToldInv, NEW c \in Sender, Sending(c), NEW x
  PROVE  /\ Cardinality(Going(x)') \in Nat
         /\ Cardinality(Going(x)') <= Cardinality(Going(x)) + 1
         /\ ~(IncSending(c) /\ call[c].pkg.to = x)
              => Cardinality(Going(x)') <= Cardinality(Going(x))
         /\ call'[c] = None /\ c \in Going(x)
              => Cardinality(Going(x)') + 1 <= Cardinality(Going(x))
<1> DEFINE S == {d \in Sender : call'[d] # None /\ call'[d].pc = "request"
                                /\ call'[d].pkg.to = x}
           G == Going(x)
<1>1. Going(x)' = S
  BY DEF Going
<1>2. IsFiniteSet(G) /\ Cardinality(G) \in Nat
  BY CountFinite DEF TypeOK
<1>3. \A d \in Sender \ {c} : call'[d] = call[d]
  BY SendingCalls
<1>4. S \subseteq G \cup {c}
  BY <1>3 DEF Going
<1>5. ~(IncSending(c) /\ call[c].pkg.to = x) => S \subseteq G
  <2> SUFFICES ASSUME ~(IncSending(c) /\ call[c].pkg.to = x), c \in S PROVE FALSE
    BY <1>4
  <2>1. call'[c] # None /\ call'[c].pc = "request" /\ call'[c].pkg.to = x
    OBVIOUS
  <2>2. call[c] # None /\ call'[c].pkg = call[c].pkg /\ IncSending(c)
    BY <2>1, SendingCalls
  <2> QED
    BY <2>1, <2>2
<1>6. call'[c] = None => S \subseteq G \ {c}
  BY <1>3 DEF Going
<1> HIDE DEF S, G
<1>7. /\ IsFiniteSet(G \cup {c}) /\ Cardinality(G \cup {c}) <= Cardinality(G) + 1
      /\ IsFiniteSet(G \ {c})
      /\ c \in G => Cardinality(G \ {c}) = Cardinality(G) - 1
  BY <1>2, FS_AddElement, FS_RemoveElement
<1>8. /\ IsFiniteSet(S) /\ Cardinality(S) <= Cardinality(G \cup {c})
      /\ S \subseteq G => Cardinality(S) <= Cardinality(G)
      /\ S \subseteq G \ {c} => Cardinality(S) <= Cardinality(G \ {c})
  BY <1>2, <1>4, <1>7, FS_Subset
<1>9. /\ Cardinality(S) \in Nat /\ Cardinality(G \cup {c}) \in Nat
      /\ Cardinality(G \ {c}) \in Nat
  BY <1>7, <1>8, FS_CardinalityType
<1>10. /\ Cardinality(S) \in Nat
       /\ Cardinality(S) <= Cardinality(G) + 1
       /\ ~(IncSending(c) /\ call[c].pkg.to = x) => Cardinality(S) <= Cardinality(G)
       /\ call'[c] = None /\ c \in G => Cardinality(S) + 1 <= Cardinality(G)
  BY <1>2, <1>5, <1>6, <1>7, <1>8, <1>9
<1> QED
  BY <1>1, <1>10 DEF G

LEMMA CountFrom ==
  ASSUME \A k \in Slot : \A x :
           sending'[k].id = x
             => Cardinality(Coming(x)') + Cardinality(Going(x)') <= sending'[k].n
  PROVE  CountInv'
<1> SUFFICES ASSUME NEW k \in Slot
             PROVE  (Cardinality(Coming(sending[k].id)) + Cardinality(Going(sending[k].id))
                       <= sending[k].n)'
  BY DEF CountInv
<1>1. PICK x : x = sending'[k].id
  OBVIOUS
<1>2. Cardinality(Coming(x)') + Cardinality(Going(x)') <= sending'[k].n
  BY <1>1
<1>3. Coming(x)' = Coming(sending[k].id)' /\ Going(x)' = Going(sending[k].id)'
  BY <1>1 DEF Coming, Going
<1> QED
  BY <1>2, <1>3

\* What the senders count, before they send it.
LEMMA SendingCount ==
  ASSUME SocketInv, ~failed, NEW c \in Sender, Sending(c)
  PROVE  CountInv'
<1>1. TypeOK /\ ToldInv /\ IdInv /\ CountInv
  BY Parts
<1>2. pipe \in Seq(Request) /\ sending \in [Slot -> [id : 0..MaxId, n : Nat]]
  BY <1>1 DEF TypeOK
<1> SUFFICES ASSUME NEW k \in Slot, NEW x, sending'[k].id = x
             PROVE  Cardinality(Coming(x)') + Cardinality(Going(x)') <= sending'[k].n
  BY CountFrom
<1> DEFINE C == Cardinality(Coming(x))
           G == Cardinality(Going(x))
<1>3. sending[k].id = x /\ sending[k].n \in Nat
  BY <1>1, <1>2, SendingFrame
<1>4. C + G <= sending[k].n /\ C \in Nat /\ G \in Nat
  BY <1>1, <1>2, <1>3, CountFinite DEF CountInv
<1>5. PICK D : D = Coming(x)'
  OBVIOUS
<1>6. PICK F : F = Going(x)'
  OBVIOUS
<1>7. /\ Cardinality(F) \in Nat
      /\ Cardinality(F) <= G + 1
      /\ ~(IncSending(c) /\ call[c].pkg.to = x) => Cardinality(F) <= G
      /\ call'[c] = None /\ c \in Going(x) => Cardinality(F) + 1 <= G
  BY <1>1, <1>6, GoingSend
<1>8. UNCHANGED pipe => Cardinality(D) = C
  BY <1>5 DEF Coming
<1>9. CASE IncSending(c)
  <2>1. UNCHANGED pipe
    BY <1>9 DEF IncSending, pollVars
  <2>2. call[c] # None
    BY <1>9 DEF IncSending
  <2>3. call[c].pkg.to \in Id
    BY <1>1, <2>2, CallType
  <2> DEFINE y == call[c].pkg.to
             j == HASH(y)
             n == sending[j].n + 1
  <2>4. sending' = IF sending[j].id = y THEN [sending EXCEPT ![j].n = n] ELSE sending
    BY <1>9 DEF IncSending
  <2>5. y = x => j = k
    <3>1. x \in Id => x # 0
      BY DEF Id
    <3> QED
      BY <1>1, <1>3, <2>3, <3>1 DEF IdInv
  <2>6. /\ sending'[k].n \in Nat /\ sending[k].n <= sending'[k].n
        /\ y = x => sending'[k].n = sending[k].n + 1
    <3> HIDE DEF y, j
    <3>1. CASE sending[j].id = y
      <4>1. sending' = [sending EXCEPT ![j].n = n]
        BY <2>4, <3>1
      <4>2. j \in Slot => n \in Nat
        BY <1>2
      <4> HIDE DEF n
      <4>3. sending'[k].n = IF k = j THEN n ELSE sending[k].n
        BY <1>1, <4>1, <4>2, CountSet
      <4> QED
        BY <1>2, <2>5, <4>3 DEF n
    <3>2. CASE sending[j].id # y
      <4>1. sending' = sending /\ y # x
        BY <1>3, <2>4, <2>5, <3>2
      <4> QED
        BY <1>3, <4>1
    <3> QED
      BY <3>1, <3>2
  <2> HIDE DEF C, G
  <2>7. Cardinality(D) + Cardinality(F) <= sending'[k].n
    <3>1. CASE y = x
      BY <1>3, <1>4, <1>7, <1>8, <2>1, <2>6, <3>1
    <3>2. CASE y # x
      BY <1>3, <1>4, <1>7, <1>8, <2>1, <2>6, <3>2
    <3> QED
      BY <3>1, <3>2
  <2> QED
    BY <1>5, <1>6, <2>7
<1>10. CASE ~IncSending(c)
  <2>1. sending' = sending
    BY <1>10 DEF Sending, SenderStep, Send, TryLock, DoubleCheck, DirectWrite, Trigger,
                 SendRequest, slotVars
  <2>2. Cardinality(D) \in Nat /\ Cardinality(D) + Cardinality(F) <= C + G
    <3>1. CASE UNCHANGED pipe
      <4>1. Cardinality(D) = C
        BY <1>8, <3>1
      <4> HIDE DEF C, G
      <4> QED
        BY <1>4, <1>7, <1>10, <4>1
    <3>2. CASE Trigger(c)
      <4>1. call[c] # None /\ pipe' = Append(pipe, [cmd |-> "W", id |-> call[c].pkg.to])
        BY <3>2 DEF Trigger
      <4> DEFINE r == [cmd |-> "W", id |-> call[c].pkg.to]
      <4>2. r \in Request /\ r.cmd # "D"
        BY <1>1, <4>1, CallType, RequestType
      <4> HIDE DEF r
      <4>3. Coming(x)' = Coming(x)
        BY <1>2, <4>1, <4>2, ComingAppend DEF r
      <4>4. Cardinality(D) = C
        BY <1>5, <4>3
      <4> HIDE DEF C, G
      <4> QED
        BY <1>4, <1>7, <1>10, <4>4
    <3>3. CASE SendRequest(c)
      <4> DEFINE p == call[c].pkg
                 r == [cmd |-> "D", id |-> p.to, pkg |-> p]
      <4>1. call[c] # None /\ call[c].pc = "request" /\ pipe' = Append(pipe, r)
            /\ Returned(c)
        BY <3>3 DEF SendRequest
      <4>2. r \in Request /\ r.id = p.to
        BY <1>1, <4>1, CallType, RequestType
      <4>3. call'[c] = None
        BY <1>1, <4>1, ReturnedFacts
      <4>4. p.to = x => c \in Going(x)
        BY <4>1 DEF Going
      <4> HIDE DEF p, r
      <4>5. /\ Cardinality(Coming(x)') \in Nat
            /\ Cardinality(Coming(x)') <= Cardinality(Coming(x)) + 1
            /\ ~(r.cmd = "D" /\ r.id = x) => Coming(x)' = Coming(x)
        BY <1>2, <4>1, <4>2, ComingAppend
      <4>6. /\ Cardinality(D) \in Nat /\ Cardinality(D) <= C + 1
            /\ p.to # x => Cardinality(D) = C
        BY <1>5, <4>2, <4>5
      <4> HIDE DEF C, G
      <4>7. CASE p.to = x
        BY <1>4, <1>7, <4>3, <4>4, <4>6, <4>7
      <4>8. CASE p.to # x
        BY <1>4, <1>7, <1>10, <4>6, <4>8
      <4> QED
        BY <4>7, <4>8
    <3> QED
      BY <1>10, <3>1, <3>2, <3>3 DEF Sending, SenderStep, Send, TryLock, DoubleCheck,
                                    DirectWrite, pollVars
  <2>3. sending'[k].n = sending[k].n
    BY <2>1
  <2> HIDE DEF C, G
  <2>4. Cardinality(D) + Cardinality(F) <= sending'[k].n
    BY <1>3, <1>4, <1>7, <2>2, <2>3
  <2> QED
    BY <1>5, <1>6, <2>4
<1> QED
  BY <1>9, <1>10

\* The thread takes a request, and counts it off when it is one of those.
LEMMA ChangesCount ==
  ASSUME SocketInv, ~failed, ~failed', ChangesSlot
  PROVE  CountInv'
<1>1. TypeOK /\ ToldInv /\ IdInv /\ CountInv
  BY Parts
<1>2. pipe \in Seq(Request) /\ sending \in [Slot -> [id : 0..MaxId, n : Nat]]
  BY <1>1 DEF TypeOK
<1> SUFFICES ASSUME NEW k \in Slot, NEW x, sending'[k].id = x
             PROVE  Cardinality(Coming(x)') + Cardinality(Going(x)') <= sending'[k].n
  BY CountFrom
<1> DEFINE C == Cardinality(Coming(x))
           G == Cardinality(Going(x))
<1>3. sending[k].id = x /\ sending[k].n \in Nat
  BY <1>1, <1>2, ChangesFrame
<1>4. C + G <= sending[k].n /\ C \in Nat /\ G \in Nat
  BY <1>1, <1>2, <1>3, CountFinite DEF CountInv
<1>5. Going(x)' = Going(x)
  BY ThreadFrame DEF Going, senderVars
<1>6. PICK D : D = Coming(x)'
  OBVIOUS
<1>7. UNCHANGED pipe \/ (pipe # <<>> /\ pipe' = Tail(pipe))
  BY ChangesCases DEF Command, ForceClose, Handling
<1>8. /\ Cardinality(D) \in Nat /\ Cardinality(D) <= C
      /\ pipe' = Tail(pipe) /\ pipe # <<>> /\ Head(pipe).cmd = "D" /\ Head(pipe).id = x
           => Cardinality(D) + 1 <= C
  <2>1. CASE UNCHANGED pipe
    <3>1. D = Coming(x)
      BY <1>6, <2>1 DEF Coming
    <3>2. pipe # <<>> => Tail(pipe) # pipe
      BY <1>2
    <3>3. Cardinality(D) = C
      BY <3>1
    <3> HIDE DEF C, G
    <3> QED
      BY <1>4, <2>1, <3>2, <3>3
  <2>2. CASE pipe # <<>> /\ pipe' = Tail(pipe)
    BY <1>2, <1>6, <2>2, ComingTail
  <2> QED
    BY <1>7, <2>1, <2>2
<1>9. CASE ~SendSocket
  <2>1. sending'[k].n = sending[k].n
    BY <1>1, <1>9, ChangesFrame
  <2> HIDE DEF C, G
  <2>2. Cardinality(D) + G <= sending'[k].n
    BY <1>3, <1>4, <1>8, <2>1
  <2> QED
    BY <1>5, <1>6, <2>2 DEF G
<1>10. CASE SendSocket
  <2> DEFINE y == Head(pipe).id
             j == HASH(y)
             p == Head(pipe).pkg
             counted == slot[j].id = y /\ slot[j].type # "reserve"
  <2>1. pipe # <<>> /\ Head(pipe).cmd = "D" /\ pipe' = Tail(pipe)
    BY <1>10 DEF SendSocket, Command
  <2>2. y \in Id /\ j \in Slot /\ Head(pipe) = pipe[1] /\ 1 \in DOMAIN pipe
    BY <1>1, <2>1, HeadPipe
  <2>3. p.to = y /\ "open" \in told[y]
    BY <1>1, <2>1, <2>2 DEF ToldInv
  <2>4. /\ failed' = (counted /\ sending[j].n = 0)
        /\ sending' = IF counted /\ ~failed' THEN [sending EXCEPT ![j].n = @ - 1]
                      ELSE sending
    BY <1>10, <2>3 DEF SendSocket
  <2>5. counted => sending[j].id = y
    BY <1>1, <2>2, <2>3 DEF ToldInv
  <2>6. /\ sending'[k].n \in Nat
        /\ \/ sending'[k].n = sending[k].n
           \/ y = x /\ sending'[k].n = sending[k].n - 1
    <3> HIDE DEF y, j, counted
    <3>1. CASE counted
      <4> DEFINE n == sending[j].n - 1
      <4>1. sending' = [sending EXCEPT ![j].n = n] /\ sending[j].n # 0
        BY <2>4, <3>1
      <4>2. j \in Slot => n \in Nat
        BY <1>2, <4>1
      <4> HIDE DEF n
      <4>3. sending'[k].n = IF k = j THEN n ELSE sending[k].n
        BY <1>1, <4>1, <4>2, CountSet
      <4>4. CASE k = j
        BY <1>3, <2>2, <2>5, <3>1, <4>2, <4>3, <4>4 DEF n
      <4>5. CASE k # j
        BY <1>3, <4>3, <4>5
      <4> QED
        BY <4>4, <4>5
    <3>2. CASE ~counted
      <4>1. sending' = sending
        BY <2>4, <3>2
      <4> QED
        BY <1>3, <4>1
    <3> QED
      BY <3>1, <3>2
  <2> HIDE DEF C, G
  <2>7. y = x => Cardinality(D) + 1 <= C
    BY <1>8, <2>1
  <2>8. Cardinality(D) + G <= sending'[k].n
    <3> HIDE DEF y
    <3> QED
      BY <1>3, <1>4, <1>8, <2>6, <2>7
  <2> QED
    BY <1>5, <1>6, <2>8 DEF G
<1> QED
  BY <1>9, <1>10

LEMMA OldCount ==
  ASSUME SocketInv, ~failed, ~failed', Next, Old
  PROVE  CountInv'
<1>1. CASE \E c \in Sender : Sending(c)
  BY <1>1, SendingCount
<1>2. CASE ChangesSlot
  BY <1>2, ChangesCount
<1>3. CASE Asking \/ Peer \/ Idle
  <2>1. TypeOK /\ CountInv /\ ToldInv /\ IdInv
    BY Parts
  <2>2. UNCHANGED <<sending, call>>
    BY <1>3, AskingFrame, PeerFrame, IdleFrame DEF slotVars, senderVars
  <2>3. pipe \in Seq(Request)
    BY <2>1 DEF TypeOK
  <2>4. \A x : Coming(x)' = Coming(x)
    <3>1. CASE UNCHANGED pipe
      BY <3>1 DEF Coming
    <3>2. CASE Asking
      <4>1. PICK x \in Id, cmd \in {"R", "K", "X"} :
              pipe' = Append(pipe, [cmd |-> cmd, id |-> x])
        <5>1. PICK x \in Id : Start(x) \/ \E how \in Asks : Close(x, how)
          BY <3>2 DEF Asking
        <5>2. \/ pipe' = Append(pipe, [cmd |-> "R", id |-> x])
              \/ pipe' = Append(pipe, [cmd |-> "K", id |-> x])
              \/ pipe' = Append(pipe, [cmd |-> "X", id |-> x])
          BY <5>1 DEF Start, Close
        <5> QED
          BY <5>2
      <4> DEFINE r == [cmd |-> cmd, id |-> x]
      <4>2. r \in Request /\ r.cmd # "D"
        BY RequestType
      <4> HIDE DEF r
      <4>3. pipe' = Append(pipe, r)
        BY <4>1 DEF r
      <4> QED
        BY <2>3, <4>2, <4>3, ComingAppend
    <3> QED
      BY <1>3, <3>1, <3>2, PeerFrame, IdleFrame DEF pollVars
  <2>5. \A x : Going(x)' = Going(x)
    BY <2>2 DEF Going
  <2> SUFFICES ASSUME NEW k \in Slot, NEW x, sending'[k].id = x
               PROVE  Cardinality(Coming(x)') + Cardinality(Going(x)') <= sending'[k].n
    BY CountFrom
  <2>6. Cardinality(Coming(x)) + Cardinality(Going(x)) <= sending[k].n
    BY <2>1, <2>2 DEF CountInv
  <2> QED
    BY <2>2, <2>4, <2>5, <2>6
<1> QED
  BY <1>1, <1>2, <1>3, Cases DEF Old
-----------------------------------------------------------------------------
(* The steps about a new socket keep the invariants.                       *)

\* A list without a buffer.
LEMMA WholeEmpty ==
  ASSUME NEW s, BufferEmpty(s)
  PROVE  Whole(s.low, 1)
BY DEF BufferEmpty, Whole

\* A request behind the others.
LEMMA AppendFacts ==
  ASSUME pipe \in Seq(Request), NEW r \in Request, pipe' = Append(pipe, r)
  PROVE  \E n : /\ pipe' \in Seq(Request)
                /\ n \in DOMAIN pipe' /\ pipe'[n] = r /\ n \notin DOMAIN pipe
                /\ DOMAIN pipe' = DOMAIN pipe \cup {n}
                /\ \A i \in DOMAIN pipe : pipe'[i] = pipe[i] /\ i < n
                /\ DOMAIN pipe \subseteq Nat /\ n \in Nat
<1> DEFINE n == Len(pipe) + 1
<1>1. /\ pipe' \in Seq(Request)
      /\ n \in DOMAIN pipe' /\ pipe'[n] = r /\ n \notin DOMAIN pipe
      /\ DOMAIN pipe' = DOMAIN pipe \cup {n}
      /\ \A i \in DOMAIN pipe : pipe'[i] = pipe[i] /\ i < n
      /\ DOMAIN pipe \subseteq Nat /\ n \in Nat
  OBVIOUS
<1> HIDE DEF n
<1> QED
  BY <1>1

LEMMA ConnectIds ==
  ASSUME SocketInv, ~failed, NEW x \in Id, Connect(x)
  PROVE  /\ IdInv' /\ OpenInv' /\ CloseInv' /\ pipe' \in Seq(Request)
         /\ CountInv'
<1>1. TypeOK /\ IdInv /\ OpenInv /\ CloseInv /\ CountInv
  BY Parts
<1> DEFINE r == [cmd |-> "O", id |-> x]
           k == HASH(x)
<1>2. /\ alloc' = x /\ alloc < x /\ slot[k].type = "invalid"
      /\ slot'[k].type = "reserve" /\ slot'[k].id = x
      /\ \A j \in Slot \ {k} : slot'[j] = slot[j]
      /\ pipe' = Append(pipe, r)
      /\ UNCHANGED <<sending, call, told, asked, closes>>
  BY ConnectFacts DEF senderVars, ownerVars
<1>3. r \in Request /\ r.id = x /\ r.cmd = "O"
  BY RequestType
<1>4. /\ x \in Nat /\ x # 0 /\ k \in Slot /\ alloc \in Nat
      /\ sending \in [Slot -> [id : 0..MaxId, n : Nat]]
      /\ pipe \in Seq(Request)
  <2>1. x \in Nat /\ x # 0
    BY DEF Id
  <2>2. k \in Slot
    BY <2>1, HashSlot
  <2>3. alloc \in 0..MaxId
    BY <1>1 DEF TypeOK
  <2>4. alloc \in Nat
    BY <2>3, SocketServerAssumption
  <2> QED
    BY <1>1, <2>1, <2>2, <2>4 DEF TypeOK
<1>5. told[x] = {} /\ asked[x] = {} /\ closes[x] = 0
  BY <1>1, <1>2 DEF IdInv
<1> HIDE DEF r, k
<1>6. PICK n : /\ pipe' \in Seq(Request)
               /\ n \in DOMAIN pipe' /\ pipe'[n] = r /\ n \notin DOMAIN pipe
               /\ DOMAIN pipe' = DOMAIN pipe \cup {n}
               /\ \A i \in DOMAIN pipe : pipe'[i] = pipe[i] /\ i < n
               /\ DOMAIN pipe \subseteq Nat /\ n \in Nat
  BY <1>2, <1>3, <1>4, AppendFacts
<1>7. IdInv'
  <2>1. \A y \in Id : alloc' < y => told'[y] = {} /\ asked'[y] = {} /\ closes'[y] = 0
    <3> SUFFICES ASSUME NEW y \in Id, alloc' < y PROVE alloc < y
      BY <1>1, <1>2 DEF IdInv
    <3> QED
      BY <1>2, <1>4 DEF Id
  <2>2. ASSUME NEW j \in Slot
        PROVE  /\ slot'[j].id <= alloc' /\ sending'[j].id <= alloc'
               /\ slot'[j].id # 0 => HASH(slot'[j].id) = j
               /\ sending'[j].id # 0 => HASH(sending'[j].id) = j
               /\ slot'[j].type # "invalid" => slot'[j].id # 0
    <3>1. /\ slot[j].id <= alloc /\ sending[j].id <= alloc
          /\ slot[j].id # 0 => HASH(slot[j].id) = j
          /\ sending[j].id # 0 => HASH(sending[j].id) = j
          /\ slot[j].type # "invalid" => slot[j].id # 0
      BY <1>1 DEF IdInv
    <3>2. slot[j].id \in Nat /\ sending[j].id \in Nat
      BY <1>1, <1>4, SlotOf, SocketServerAssumption
    <3>3. slot[j].id <= x /\ sending[j].id <= x /\ x <= x
      BY <1>2, <1>4, <3>1, <3>2
    <3>4. CASE j = k
      BY <1>2, <1>4, <3>1, <3>3, <3>4 DEF k
    <3>5. CASE j # k
      BY <1>2, <3>1, <3>3, <3>5
    <3> QED
      BY <3>4, <3>5
  <2>3. ASSUME NEW i \in DOMAIN pipe'
        PROVE  0 < pipe'[i].id /\ pipe'[i].id <= alloc'
    <3>1. CASE i \in DOMAIN pipe
      <4>1. 0 < pipe[i].id /\ pipe[i].id <= alloc /\ pipe'[i] = pipe[i]
        BY <1>1, <1>6, <3>1 DEF IdInv
      <4>2. pipe[i].id \in Nat
        <5>1. pipe[i] \in Request
          BY <1>4, <3>1
        <5> QED
          BY <5>1 DEF Request, Id
      <4> QED
        BY <1>2, <1>4, <4>1, <4>2
    <3>2. CASE i = n
      <4>1. pipe'[i].id = x
        BY <1>3, <1>6, <3>2
      <4> QED
        BY <1>2, <1>4, <4>1
    <3> QED
      BY <1>6, <3>1, <3>2
  <2> QED
    BY <2>1, <2>2, <2>3 DEF IdInv, HASH
<1>8. OpenInv'
  <2>1. ASSUME NEW j \in Slot, slot'[j].type = "reserve"
        PROVE  \E i \in DOMAIN pipe' : pipe'[i].cmd = "O" /\ pipe'[i].id = slot'[j].id
    <3>1. CASE j = k
      BY <1>2, <1>3, <1>6, <3>1
    <3>2. CASE j # k
      <4>1. PICK i \in DOMAIN pipe : pipe[i].cmd = "O" /\ pipe[i].id = slot[j].id
        BY <1>1, <1>2, <2>1, <3>2 DEF OpenInv
      <4> QED
        BY <1>2, <1>6, <3>2, <4>1
    <3> QED
      BY <3>1, <3>2
  <2>2. ASSUME NEW i \in DOMAIN pipe', pipe'[i].cmd = "O", NEW y, y = pipe'[i].id
        PROVE  /\ slot'[HASH(y)].id = y /\ slot'[HASH(y)].type = "reserve"
               /\ told'[y] \subseteq {"err"} /\ closes'[y] = 0
               /\ \A j \in DOMAIN pipe' : j < i => pipe'[j].id # y
    <3>1. CASE i \in DOMAIN pipe
      <4>1. pipe[i] = pipe'[i] /\ pipe[i] \in Request
        BY <1>4, <1>6, <3>1
      <4>2. /\ slot[HASH(y)].id = y /\ slot[HASH(y)].type = "reserve"
            /\ told[y] \subseteq {"err"} /\ closes[y] = 0
            /\ \A j \in DOMAIN pipe : j < i => pipe[j].id # y
        BY <1>1, <2>2, <3>1, <4>1 DEF OpenInv
      <4>3. y \in Nat
        BY <2>2, <4>1 DEF Request, Id
      <4>4. HASH(y) \in Slot \ {k}
        BY <1>2, <4>2, <4>3, HashSlot
      <4>5. \A j \in DOMAIN pipe' : j < i => j \in DOMAIN pipe
        <5>1. i < n /\ i \in Nat
          BY <1>6, <3>1
        <5> QED
          BY <1>6, <5>1
      <4> QED
        BY <1>2, <1>6, <4>2, <4>4, <4>5
    <3>2. CASE i = n
      <4>1. y = x
        BY <1>3, <1>6, <2>2, <3>2
      <4>2. \A j \in DOMAIN pipe' : j < n => j \in DOMAIN pipe
        BY <1>6
      <4>3. \A j \in DOMAIN pipe : pipe[j].id # x
        <5> SUFFICES ASSUME NEW j \in DOMAIN pipe, pipe[j].id = x PROVE FALSE
          OBVIOUS
        <5>1. pipe[j].id <= alloc
          BY <1>1 DEF IdInv
        <5> QED
          BY <1>2, <1>4, <5>1
      <4> QED
        BY <1>2, <1>5, <1>6, <3>2, <4>1, <4>2, <4>3 DEF k
    <3> QED
      BY <1>6, <3>1, <3>2
  <2> QED
    BY <2>1, <2>2 DEF OpenInv, HASH
<1>9. CloseInv'
  <2> SUFFICES ASSUME NEW j \in Slot, slot'[j].id # 0, closes'[slot'[j].id] > 0
               PROVE  slot'[j].type \in {"halfclose_read", "invalid"}
    BY DEF CloseInv
  <2>1. CASE j = k
    BY <1>2, <1>5, <2>1
  <2>2. CASE j # k
    BY <1>1, <1>2, <2>2 DEF CloseInv
  <2> QED
    BY <2>1, <2>2
<1>10. CountInv'
  <2>1. \A y : Coming(y)' = Coming(y) /\ Going(y)' = Going(y)
    BY <1>2, <1>3, <1>4, ComingAppend DEF Going
  <2> SUFFICES ASSUME NEW j \in Slot, NEW y, sending'[j].id = y
               PROVE  Cardinality(Coming(y)') + Cardinality(Going(y)') <= sending'[j].n
    BY CountFrom
  <2>2. Cardinality(Coming(y)) + Cardinality(Going(y)) <= sending[j].n
    BY <1>1, <1>2 DEF CountInv
  <2> QED
    BY <1>2, <2>1, <2>2
<1> QED
  BY <1>6, <1>7, <1>8, <1>9, <1>10

LEMMA ConnectKeeps ==
  ASSUME SocketInv, ~failed, NEW x \in Id, Connect(x)
  PROVE  /\ ToldInv' /\ FreshInv' /\ SizeInv' /\ ForceInv'
<1>1. TypeOK /\ IdInv /\ ToldInv /\ FreshInv /\ SizeInv /\ ForceInv
  BY Parts
<1> DEFINE r == [cmd |-> "O", id |-> x]
           k == HASH(x)
<1>2. /\ alloc' = x /\ alloc < x /\ slot[k].type = "invalid"
      /\ slot'[k].type = "reserve" /\ slot'[k].id = x /\ BufferEmpty(slot'[k])
      /\ \A j \in Slot \ {k} : slot'[j] = slot[j]
      /\ pipe' = Append(pipe, r)
      /\ UNCHANGED <<sending, dw, lock, force, call, told, closes>>
  BY ConnectFacts DEF senderVars, ownerVars
<1>3. r \in Request /\ r.id = x /\ r.cmd = "O"
  BY RequestType
<1>4. /\ x \in Nat /\ k \in Slot /\ pipe \in Seq(Request)
  <2>1. x \in Nat
    BY DEF Id
  <2>2. k \in Slot
    BY <2>1, HashSlot
  <2> QED
    BY <1>1, <2>1, <2>2 DEF TypeOK
<1>5. told[x] = {}
  BY <1>1, <1>2 DEF IdInv
<1> HIDE DEF r, k
<1>6. PICK n : /\ n \in DOMAIN pipe' /\ pipe'[n] = r /\ n \notin DOMAIN pipe
               /\ DOMAIN pipe' = DOMAIN pipe \cup {n}
               /\ \A i \in DOMAIN pipe : pipe'[i] = pipe[i] /\ i < n
  BY <1>2, <1>3, <1>4, AppendFacts
<1>7. ToldInv'
  <2>1. \A c \in Sender : call'[c] # None => "open" \in told'[call'[c].pkg.to]
    BY <1>1, <1>2 DEF ToldInv
  <2>2. ASSUME NEW i \in DOMAIN pipe'
        PROVE  /\ pipe'[i].cmd = "D" => /\ pipe'[i].pkg.to = pipe'[i].id
                                        /\ "open" \in told'[pipe'[i].id]
               /\ pipe'[i].cmd = "R" => "accept" \in told'[pipe'[i].id]
    BY <1>1, <1>2, <1>3, <1>6 DEF ToldInv
  <2>3. ASSUME NEW y \in Id, told'[y] \cap {"open", "accept"} # {},
               NEW j, j = HASH(y), slot'[j].id = y
        PROVE  slot'[j].type # "reserve" /\ sending'[j].id = y
    <3>1. y # x /\ j \in Slot
      <4>1. y \in Nat
        BY DEF Id
      <4> QED
        BY <1>2, <1>5, <2>3, <4>1, HashSlot
    <3>2. j # k
      BY <1>2, <2>3, <3>1
    <3> QED
      BY <1>1, <1>2, <2>3, <3>1, <3>2 DEF ToldInv
  <2>4. \A j \in Slot : Alive(j)' => sending'[j].id = slot'[j].id
    <3> SUFFICES ASSUME NEW j \in Slot, Alive(j)' PROVE sending'[j].id = slot'[j].id
      OBVIOUS
    <3>1. j # k
      BY <1>2 DEF Alive
    <3> QED
      BY <1>1, <1>2, <3>1 DEF ToldInv, Alive
  <2> QED
    BY <2>1, <2>2, <2>3, <2>4 DEF ToldInv, HASH
<1>8. FreshInv'
  <2>1. \A j \in Slot : ~Alive(j)' => BufferEmpty(slot'[j]) /\ dw'[j] = None
    <3> SUFFICES ASSUME NEW j \in Slot, ~Alive(j)'
                 PROVE  BufferEmpty(slot'[j]) /\ dw'[j] = None
      OBVIOUS
    <3>1. CASE j = k
      BY <1>1, <1>2, <3>1 DEF FreshInv, Alive
    <3>2. CASE j # k
      BY <1>1, <1>2, <3>2 DEF FreshInv, Alive
    <3> QED
      BY <3>1, <3>2
  <2>2. ASSUME NEW c \in Sender, call'[c] # None, NEW j, j = HASH(call'[c].pkg.to)
        PROVE  /\ call'[c].pc \in {"lock", "write"} => lock'[j] = c
               /\ call'[c].pc = "write" => Alive(j)' /\ dw'[j] = None
    <3>1. call[c] # None /\ j = HASH(call[c].pkg.to) /\ j \in Slot
      BY <1>1, <1>2, <2>2, CallType
    <3>2. /\ call[c].pc \in {"lock", "write"} => lock[j] = c
          /\ call[c].pc = "write" => Alive(j) /\ dw[j] = None
      BY <1>1, <3>1 DEF FreshInv
    <3>3. Alive(j) => j # k
      BY <1>2 DEF Alive
    <3> QED
      BY <1>2, <3>1, <3>2, <3>3 DEF Alive
  <2> QED
    BY <2>1, <2>2 DEF FreshInv, BufferEmpty, HASH
<1>9. SizeInv'
  <2> SUFFICES ASSUME NEW j \in Slot
               PROVE  /\ Alive(j)' /\ (force' = None \/ force'.s # j)
                           => slot'[j].wb = Len(Units(slot'[j].high)) + Len(Units(slot'[j].low))
                      /\ Whole(slot'[j].low, 1)
    BY DEF SizeInv, Units, Copies, Whole
  <2>1. CASE j = k
    BY <1>2, <2>1, WholeEmpty DEF Alive
  <2>2. CASE j # k
    BY <1>1, <1>2, <2>2 DEF SizeInv, Alive
  <2> QED
    BY <2>1, <2>2
<1>10. ForceInv'
  <2> SUFFICES ASSUME force' # None, NEW j, j = force'.s
               PROVE  /\ Alive(j)' /\ BufferEmpty(slot'[j])
                      /\ force'.raise = "close" =>
                           slot'[j].type # "halfclose_read" /\ closes'[slot'[j].id] = 0
    BY DEF ForceInv, BufferEmpty, Alive
  <2>1. j \in Slot
    BY <1>1, <1>2 DEF TypeOK
  <2>2. /\ Alive(j) /\ BufferEmpty(slot[j])
        /\ force.raise = "close" =>
             slot[j].type # "halfclose_read" /\ closes[slot[j].id] = 0
    BY <1>1, <1>2 DEF ForceInv
  <2>3. j # k
    BY <1>2, <2>2 DEF Alive
  <2> QED
    BY <1>2, <2>1, <2>2, <2>3 DEF Alive
<1> QED
  BY <1>7, <1>8, <1>9, <1>10

\* The slot of a socket that is opened or not: nobody was told that it is open.
Opens(x) ==
  LET k == HASH(x) IN
  /\ slot[k].type \in {"invalid", "reserve"}
  /\ slot' \in [Slot -> Socket]
  /\ slot'[k].id = x /\ slot'[k].type # "reserve" /\ BufferEmpty(slot'[k])
  /\ dw'[k] = None
  /\ \A j \in Slot \ {k} :
       slot'[j] = slot[j] /\ sending'[j] = sending[j] /\ dw'[j] = dw[j]
  /\ \/ /\ Alive(k)' /\ Sized(slot'[k])
        /\ sending'[k].id = x /\ sending'[k].n = 0
     \/ /\ slot'[k].type = "invalid" /\ sending'[k] = sending[k]
        /\ told'[x] \cap {"open", "accept"} = {}
  /\ "open" \notin told[x] /\ closes[x] = 0
  /\ told[x] \subseteq told'[x]
  /\ \A y \in Id \ {x} : told'[y] = told[y]
  /\ UNCHANGED closes
  /\ force = None
  /\ UNCHANGED <<lock, force, call, asked>>
  /\ UNCHANGED pipe \/ (pipe # <<>> /\ pipe' = Tail(pipe))

\* The requests that are left are some of those there were.
LEMMA PipeLeft ==
  ASSUME pipe \in Seq(Request),
         UNCHANGED pipe \/ (pipe # <<>> /\ pipe' = Tail(pipe)),
         NEW i \in DOMAIN pipe'
  PROVE  \E j \in DOMAIN pipe : pipe'[i] = pipe[j] /\ pipe[j] \in Request
<1>1. CASE UNCHANGED pipe
  BY <1>1
<1>2. CASE pipe # <<>> /\ pipe' = Tail(pipe)
  <2>1. i + 1 \in DOMAIN pipe /\ pipe'[i] = pipe[i + 1] /\ pipe[i + 1] \in Request
    BY <1>2
  <2> QED
    BY <2>1
<1> QED
  BY <1>1, <1>2

LEMMA OpensIds ==
  ASSUME SocketInv, ~failed, NEW x \in Id, Opens(x),
         alloc' \in Nat, alloc <= alloc', x <= alloc'
  PROVE  IdInv' /\ CloseInv'
<1>1. TypeOK /\ IdInv /\ CloseInv /\ pipe \in Seq(Request)
  BY Parts DEF TypeOK
<1> DEFINE k == HASH(x)
<1>2. /\ slot'[k].id = x
      /\ \A j \in Slot \ {k} : slot'[j] = slot[j] /\ sending'[j] = sending[j]
      /\ sending'[k].id = x \/ sending'[k] = sending[k]
      /\ \A y \in Id \ {x} : told'[y] = told[y]
      /\ UNCHANGED <<closes, asked>> /\ closes[x] = 0
  BY DEF Opens
<1>3. x \in Nat /\ x # 0
  BY DEF Id
<1>4. k \in Slot
  BY <1>3, HashSlot
<1>5. alloc \in Nat
  <2>1. alloc \in 0..MaxId
    BY <1>1 DEF TypeOK
  <2> QED
    BY <2>1, SocketServerAssumption
<1>6. \A y \in Id : alloc' < y => told'[y] = {} /\ asked'[y] = {} /\ closes'[y] = 0
  <2> SUFFICES ASSUME NEW y \in Id, alloc' < y PROVE y # x /\ alloc < y
    BY <1>1, <1>2 DEF IdInv
  <2>1. y \in Nat
    BY DEF Id
  <2> QED
    BY <1>3, <1>5, <2>1
<1>7. ASSUME NEW j \in Slot
      PROVE  /\ slot'[j].id <= alloc' /\ sending'[j].id <= alloc'
             /\ slot'[j].id # 0 => HASH(slot'[j].id) = j
             /\ sending'[j].id # 0 => HASH(sending'[j].id) = j
             /\ slot'[j].type # "invalid" => slot'[j].id # 0
  <2>1. /\ slot[j].id <= alloc /\ sending[j].id <= alloc
        /\ slot[j].id # 0 => HASH(slot[j].id) = j
        /\ sending[j].id # 0 => HASH(sending[j].id) = j
        /\ slot[j].type # "invalid" => slot[j].id # 0
    BY <1>1 DEF IdInv
  <2>2. slot[j].id \in Nat /\ sending[j].id \in Nat
    <3>1. slot[j].id \in 0..MaxId /\ sending[j].id \in 0..MaxId
      BY <1>1, SlotOf DEF TypeOK
    <3> QED
      BY <3>1, SocketServerAssumption
  <2>3. slot[j].id <= alloc' /\ sending[j].id <= alloc'
    BY <1>5, <2>1, <2>2
  <2>4. CASE j = k
    BY <1>2, <1>3, <2>1, <2>3, <2>4 DEF k
  <2>5. CASE j # k
    BY <1>2, <2>1, <2>3, <2>5
  <2> QED
    BY <2>4, <2>5
<1>8. ASSUME NEW i \in DOMAIN pipe'
      PROVE  0 < pipe'[i].id /\ pipe'[i].id <= alloc'
  <2>1. PICK j \in DOMAIN pipe : pipe'[i] = pipe[j] /\ pipe[j] \in Request
    BY <1>1, PipeLeft DEF Opens
  <2>2. 0 < pipe[j].id /\ pipe[j].id <= alloc /\ pipe[j].id \in Nat
    BY <1>1, <2>1 DEF IdInv, Request, Id
  <2> QED
    BY <1>5, <2>1, <2>2
<1>9. IdInv'
  BY <1>6, <1>7, <1>8 DEF IdInv, HASH
<1>10. CloseInv'
  <2> SUFFICES ASSUME NEW j \in Slot, slot'[j].id # 0, closes'[slot'[j].id] > 0
               PROVE  slot'[j].type \in {"halfclose_read", "invalid"}
    BY DEF CloseInv
  <2>1. j # k
    BY <1>2
  <2> QED
    BY <1>1, <1>2, <2>1 DEF CloseInv
<1> QED
  BY <1>9, <1>10

LEMMA OpensTold ==
  ASSUME SocketInv, ~failed, NEW x \in Id, Opens(x)
  PROVE  ToldInv' /\ FreshInv'
<1>1. TypeOK /\ IdInv /\ ToldInv /\ FreshInv /\ pipe \in Seq(Request)
  BY Parts DEF TypeOK
<1> DEFINE k == HASH(x)
<1>2. /\ slot[k].type \in {"invalid", "reserve"}
      /\ slot'[k].id = x /\ slot'[k].type # "reserve" /\ BufferEmpty(slot'[k])
      /\ dw'[k] = None
      /\ \A j \in Slot \ {k} :
           slot'[j] = slot[j] /\ sending'[j] = sending[j] /\ dw'[j] = dw[j]
      /\ \/ Alive(k)' /\ sending'[k].id = x
         \/ /\ slot'[k].type = "invalid"
            /\ told'[x] \cap {"open", "accept"} = {}
      /\ told[x] \subseteq told'[x]
      /\ \A y \in Id \ {x} : told'[y] = told[y]
      /\ UNCHANGED <<lock, call>>
  BY Zenon DEF Opens
<1>3. \A y \in Id : told[y] \subseteq told'[y] /\ HASH(y) \in Slot
  <2> SUFFICES ASSUME NEW y \in Id PROVE told[y] \subseteq told'[y] /\ HASH(y) \in Slot
    OBVIOUS
  <2>1. y \in Nat
    BY DEF Id
  <2> QED
    BY <1>2, <2>1, HashSlot
<1> HIDE DEF k
<1>4. ToldInv'
  <2>1. ASSUME NEW c \in Sender, call'[c] # None
        PROVE  "open" \in told'[call'[c].pkg.to]
    <3>1. call[c] # None /\ call[c].pkg.to \in Id
      BY <1>1, <1>2, <2>1, CallType
    <3> QED
      BY <1>1, <1>2, <1>3, <3>1 DEF ToldInv
  <2>2. ASSUME NEW i \in DOMAIN pipe'
        PROVE  /\ pipe'[i].cmd = "D" => /\ pipe'[i].pkg.to = pipe'[i].id
                                        /\ "open" \in told'[pipe'[i].id]
               /\ pipe'[i].cmd = "R" => "accept" \in told'[pipe'[i].id]
    <3>1. PICK j \in DOMAIN pipe : pipe'[i] = pipe[j] /\ pipe[j] \in Request
      BY <1>1, PipeLeft DEF Opens
    <3>2. pipe[j].id \in Id
      BY <3>1 DEF Request
    <3>3. /\ pipe[j].cmd = "D" => /\ pipe[j].pkg.to = pipe[j].id
                                  /\ "open" \in told[pipe[j].id]
          /\ pipe[j].cmd = "R" => "accept" \in told[pipe[j].id]
      BY <1>1 DEF ToldInv
    <3> QED
      BY <1>3, <3>1, <3>2, <3>3
  <2>3. ASSUME NEW y \in Id, told'[y] \cap {"open", "accept"} # {},
               NEW j, j = HASH(y), slot'[j].id = y
        PROVE  slot'[j].type # "reserve" /\ sending'[j].id = y
    <3>1. CASE y = x
      BY <1>2, <2>3, <3>1 DEF k
    <3>2. CASE y # x
      <4>1. j \in Slot \ {k}
        BY <1>2, <1>3, <2>3, <3>2
      <4> QED
        BY <1>1, <1>2, <2>3, <3>2, <4>1 DEF ToldInv
    <3> QED
      BY <3>1, <3>2
  <2>4. \A j \in Slot : Alive(j)' => sending'[j].id = slot'[j].id
    <3> SUFFICES ASSUME NEW j \in Slot, Alive(j)' PROVE sending'[j].id = slot'[j].id
      OBVIOUS
    <3>1. CASE j = k
      BY <1>2, <3>1 DEF Alive
    <3>2. CASE j # k
      BY <1>1, <1>2, <3>2 DEF ToldInv, Alive
    <3> QED
      BY <3>1, <3>2
  <2> QED
    BY <2>1, <2>2, <2>3, <2>4 DEF ToldInv, HASH
<1>5. FreshInv'
  <2>1. \A j \in Slot : ~Alive(j)' => BufferEmpty(slot'[j]) /\ dw'[j] = None
    <3> SUFFICES ASSUME NEW j \in Slot, ~Alive(j)'
                 PROVE  BufferEmpty(slot'[j]) /\ dw'[j] = None
      OBVIOUS
    <3>1. CASE j = k
      BY <1>2, <3>1
    <3>2. CASE j # k
      BY <1>1, <1>2, <3>2 DEF FreshInv, Alive
    <3> QED
      BY <3>1, <3>2
  <2>2. ASSUME NEW c \in Sender, call'[c] # None, NEW j, j = HASH(call'[c].pkg.to)
        PROVE  /\ call'[c].pc \in {"lock", "write"} => lock'[j] = c
               /\ call'[c].pc = "write" => Alive(j)' /\ dw'[j] = None
    <3>1. call[c] # None /\ j = HASH(call[c].pkg.to) /\ j \in Slot
      BY <1>1, <1>2, <2>2, CallType
    <3>2. /\ call[c].pc \in {"lock", "write"} => lock[j] = c
          /\ call[c].pc = "write" => Alive(j) /\ dw[j] = None
      BY <1>1, <3>1 DEF FreshInv
    <3>3. Alive(j) => j # k
      BY <1>2 DEF Alive
    <3> QED
      BY <1>2, <3>1, <3>2, <3>3 DEF Alive
  <2> QED
    BY <2>1, <2>2 DEF FreshInv, BufferEmpty, HASH
<1> QED
  BY <1>4, <1>5

LEMMA OpensCount ==
  ASSUME SocketInv, ~failed, NEW x \in Id, Opens(x)
  PROVE  CountInv' /\ SizeInv' /\ ForceInv'
<1>1. TypeOK /\ IdInv /\ ToldInv /\ SizeInv /\ CountInv
  BY Parts
<1>2. pipe \in Seq(Request) /\ sending \in [Slot -> [id : 0..MaxId, n : Nat]]
  BY <1>1 DEF TypeOK
<1> DEFINE k == HASH(x)
<1>3. /\ BufferEmpty(slot'[k])
      /\ \A j \in Slot \ {k} : slot'[j] = slot[j] /\ sending'[j] = sending[j]
      /\ \/ /\ Alive(k)' /\ Sized(slot'[k])
            /\ sending'[k].id = x /\ sending'[k].n = 0
         \/ slot'[k].type = "invalid" /\ sending'[k] = sending[k]
      /\ "open" \notin told[x]
      /\ force = None /\ UNCHANGED <<force, call>>
      /\ UNCHANGED pipe \/ (pipe # <<>> /\ pipe' = Tail(pipe))
  BY Zenon DEF Opens
<1> HIDE DEF k
<1>4. CountInv'
  <2> SUFFICES ASSUME NEW j \in Slot, NEW y, sending'[j].id = y
               PROVE  Cardinality(Coming(y)') + Cardinality(Going(y)') <= sending'[j].n
    BY CountFrom
  <2>1. Going(y)' = Going(y)
    BY <1>3 DEF Going
  <2>2. CASE sending'[j] = sending[j]
    <3>1. PICK D : D = Coming(y)'
      OBVIOUS
    <3> DEFINE C == Cardinality(Coming(y))
               G == Cardinality(Going(y))
    <3>2. C + G <= sending[j].n /\ C \in Nat /\ G \in Nat /\ sending[j].n \in Nat
      BY <1>1, <1>2, <2>2, CountFinite DEF CountInv
    <3>3. Cardinality(D) \in Nat /\ Cardinality(D) <= C
      <4>1. CASE UNCHANGED pipe
        <5>1. D = Coming(y)
          BY <3>1, <4>1 DEF Coming
        <5>2. Cardinality(D) = C
          BY <5>1
        <5> HIDE DEF C, G
        <5> QED
          BY <3>2, <5>2
      <4>2. CASE pipe # <<>> /\ pipe' = Tail(pipe)
        BY <1>2, <3>1, <4>2, ComingTail
      <4> QED
        BY <1>3, <4>1, <4>2
    <3> HIDE DEF C, G
    <3>4. Cardinality(D) + G <= sending[j].n
      BY <3>2, <3>3
    <3> QED
      BY <2>1, <2>2, <3>1, <3>4 DEF G
  <2>3. CASE j = k /\ sending'[k].id = x /\ sending'[k].n = 0
    <3>1. Coming(y)' = {}
      <4> SUFFICES ASSUME NEW i \in DOMAIN pipe', pipe'[i].cmd = "D", pipe'[i].id = x
                   PROVE  FALSE
        BY <2>3 DEF Coming
      <4>1. PICK l \in DOMAIN pipe : pipe'[i] = pipe[l]
        BY <1>2, <1>3, PipeLeft
      <4> QED
        BY <1>1, <1>3, <4>1 DEF ToldInv
    <3>2. Going(y) = {}
      BY <1>1, <1>3, <2>3 DEF Going, ToldInv
    <3> QED
      BY <2>1, <2>3, <3>1, <3>2, FS_EmptySet
  <2> QED
    BY <1>3, <2>2, <2>3
<1>5. SizeInv'
  <2> SUFFICES ASSUME NEW j \in Slot
               PROVE  /\ Alive(j)' /\ (force' = None \/ force'.s # j)
                           => slot'[j].wb = Len(Units(slot'[j].high)) + Len(Units(slot'[j].low))
                      /\ Whole(slot'[j].low, 1)
    BY DEF SizeInv, Units, Copies, Whole
  <2>1. CASE j = k
    BY <1>3, <2>1, WholeEmpty DEF Alive, Sized
  <2>2. CASE j # k
    BY <1>1, <1>3, <2>2 DEF SizeInv, Alive
  <2> QED
    BY <2>1, <2>2
<1> QED
  BY <1>3, <1>4, <1>5 DEF ForceInv

\* A slot that is reserved still waits for its request, which is another one.
LEMMA OpensOpen ==
  ASSUME SocketInv, ~failed, NEW x \in Id, Opens(x),
         \/ UNCHANGED pipe /\ slot[HASH(x)].type = "invalid"
         \/ /\ pipe # <<>> /\ pipe' = Tail(pipe)
            /\ Head(pipe).cmd = "O" /\ Head(pipe).id = x
            /\ slot[HASH(x)].id = x
  PROVE  OpenInv'
<1>1. TypeOK /\ IdInv /\ OpenInv /\ pipe \in Seq(Request)
  BY Parts DEF TypeOK
<1> DEFINE k == HASH(x)
<1>2. /\ slot'[k].type # "reserve"
      /\ \A j \in Slot \ {k} : slot'[j] = slot[j]
      /\ \A y \in Id \ {x} : told'[y] = told[y]
      /\ UNCHANGED closes
  BY Zenon DEF Opens
<1>3. x \in Id /\ k \in Slot /\ k = HASH(x) /\ x # 0
  <2>1. x \in Nat /\ x # 0
    BY DEF Id
  <2> QED
    BY <2>1, HashSlot
<1> HIDE DEF k
<1>4. CASE UNCHANGED pipe /\ slot[HASH(x)].type = "invalid"
  <2>1. ASSUME NEW j \in Slot, slot'[j].type = "reserve"
        PROVE  \E i \in DOMAIN pipe' : pipe'[i].cmd = "O" /\ pipe'[i].id = slot'[j].id
    BY <1>1, <1>2, <1>4, <2>1 DEF OpenInv
  <2>2. ASSUME NEW i \in DOMAIN pipe', pipe'[i].cmd = "O", NEW y, y = pipe'[i].id
        PROVE  /\ slot'[HASH(y)].id = y /\ slot'[HASH(y)].type = "reserve"
               /\ told'[y] \subseteq {"err"} /\ closes'[y] = 0
               /\ \A j \in DOMAIN pipe' : j < i => pipe'[j].id # y
    <3>1. y \in Id /\ y \in Nat
      BY <1>1, <1>4, <2>2 DEF Request, Id
    <3>2. /\ slot[HASH(y)].id = y /\ slot[HASH(y)].type = "reserve"
          /\ told[y] \subseteq {"err"} /\ closes[y] = 0
          /\ \A j \in DOMAIN pipe : j < i => pipe[j].id # y
      BY <1>1, <1>4, <2>2 DEF OpenInv
    <3>3. y # x /\ HASH(y) \in Slot \ {k}
      BY <1>3, <1>4, <3>1, <3>2, HashSlot
    <3> QED
      BY <1>2, <1>4, <3>1, <3>2, <3>3
  <2> QED
    BY <2>1, <2>2 DEF OpenInv, HASH
<1>5. CASE /\ pipe # <<>> /\ pipe' = Tail(pipe)
           /\ Head(pipe).cmd = "O" /\ Head(pipe).id = x
           /\ slot[HASH(x)].id = x
  <2>0. /\ \A i \in DOMAIN pipe' : i \in Nat /\ i # 0 /\ i + 1 \in DOMAIN pipe
                                  /\ pipe'[i] = pipe[i + 1]
        /\ \A i \in DOMAIN pipe \ {1} : i \in Nat /\ i - 1 \in DOMAIN pipe'
                                  /\ pipe'[i - 1] = pipe[i]
        /\ 1 \in DOMAIN pipe /\ pipe[1] = Head(pipe)
    BY <1>1, <1>5
  <2>1. ASSUME NEW j \in Slot, slot'[j].type = "reserve"
        PROVE  \E i \in DOMAIN pipe' : pipe'[i].cmd = "O" /\ pipe'[i].id = slot'[j].id
    <3>1. j # k /\ slot'[j] = slot[j] /\ slot[j].type = "reserve"
      BY <1>2, <2>1
    <3>2. PICK i \in DOMAIN pipe : pipe[i].cmd = "O" /\ pipe[i].id = slot[j].id
      BY <1>1, <3>1 DEF OpenInv
    <3>3. slot[j].id # x
      BY <1>1, <1>3, <3>1 DEF IdInv
    <3>4. i # 1
      BY <1>5, <2>0, <3>2, <3>3
    <3> QED
      BY <2>0, <3>1, <3>2, <3>4
  <2>2. ASSUME NEW i \in DOMAIN pipe', pipe'[i].cmd = "O", NEW y, y = pipe'[i].id
        PROVE  /\ slot'[HASH(y)].id = y /\ slot'[HASH(y)].type = "reserve"
               /\ told'[y] \subseteq {"err"} /\ closes'[y] = 0
               /\ \A j \in DOMAIN pipe' : j < i => pipe'[j].id # y
    <3> DEFINE l == i + 1
    <3>1. i \in Nat /\ i # 0 /\ l \in DOMAIN pipe /\ pipe'[i] = pipe[l] /\ 1 < l
      <4>1. i \in Nat /\ i # 0 /\ l \in DOMAIN pipe /\ pipe'[i] = pipe[l]
        BY <2>0
      <4> QED
        BY <4>1
    <3>2. \A j \in DOMAIN pipe' : j < i => j + 1 \in DOMAIN pipe /\ j + 1 < l
                                          /\ pipe'[j] = pipe[j + 1]
      BY <2>0, <3>1
    <3> HIDE DEF l
    <3>3. y \in Id /\ y \in Nat
      BY <1>1, <2>2, <3>1 DEF Request, Id
    <3>4. /\ slot[HASH(y)].id = y /\ slot[HASH(y)].type = "reserve"
          /\ told[y] \subseteq {"err"} /\ closes[y] = 0
          /\ \A j \in DOMAIN pipe : j < l => pipe[j].id # y
      <4>1. l \in DOMAIN pipe /\ pipe[l].cmd = "O" /\ y = pipe[l].id
        BY <2>2, <3>1
      <4>2. OpenInv
        BY <1>1
      <4> QED
        BY <4>1, <4>2 DEF OpenInv
    <3>5. y # x
      BY <1>5, <2>0, <3>1, <3>4
    <3>6. HASH(y) \in Slot \ {k}
      BY <1>3, <1>5, <3>3, <3>4, <3>5, HashSlot
    <3> QED
      BY <1>2, <3>1, <3>2, <3>3, <3>4, <3>5, <3>6
  <2> QED
    BY <2>1, <2>2 DEF OpenInv, HASH
<1> QED
  BY <1>4, <1>5

\* Both steps open a slot, or fail.
LEMMA BeginsOpens ==
  ASSUME SocketInv, ~failed, NEW x \in Id, NEW t, Begins(x, t),
         slot[HASH(x)].type \in {"invalid", "reserve"},
         "open" \notin told[x], closes[x] = 0,
         told[x] \subseteq told'[x], \A y \in Id \ {x} : told'[y] = told[y],
         UNCHANGED closes, force = None, UNCHANGED <<lock, force, call, asked>>,
         UNCHANGED pipe \/ (pipe # <<>> /\ pipe' = Tail(pipe))
  PROVE  Opens(x)
<1> DEFINE k == HASH(x)
<1>1. /\ slot' \in [Slot -> Socket]
      /\ slot'[k] = t /\ Sized(t)
      /\ sending'[k].id = x /\ sending'[k].n = 0
      /\ dw'[k] = None
      /\ \A j \in Slot \ {k} :
           slot'[j] = slot[j] /\ sending'[j] = sending[j] /\ dw'[j] = dw[j]
  BY BeginsFacts
<1>2. /\ t.type \in {"connecting", "connected", "paccept"} /\ t.id = x
      /\ BufferEmpty(t)
  BY DEF Begins, BufferEmpty
<1>3. /\ Alive(k)' /\ Sized(slot'[k]) /\ slot'[k].id = x
      /\ slot'[k].type # "reserve" /\ BufferEmpty(slot'[k])
  BY <1>1, <1>2 DEF Alive
<1> QED
  BY <1>1, <1>3, Zenon DEF Opens

LEMMA AcceptOpens ==
  ASSUME SocketInv, ~failed, NEW x \in Id, Accept(x)
  PROVE  /\ Opens(x) /\ alloc' = x /\ alloc < x /\ UNCHANGED pipe
         /\ slot[HASH(x)].type = "invalid"
<1>1. TypeOK /\ IdInv
  BY Parts
<1>2. /\ alloc' = x /\ alloc < x /\ slot[HASH(x)].type = "invalid"
      /\ Tell(x, "accept") /\ force = None
      /\ UNCHANGED <<lock, force, pipe, call, asked>>
  BY AcceptFacts DEF senderVars
<1>3. PICK t : Begins(x, t)
  BY AcceptFacts
<1>4. told[x] = {} /\ closes[x] = 0
  BY <1>1, <1>2 DEF IdInv
<1>5. /\ told[x] \subseteq told'[x] /\ UNCHANGED closes
      /\ \A y \in Id \ {x} : told'[y] = told[y]
  BY <1>1, <1>2, TellOne
<1> QED
  BY <1>2, <1>3, <1>4, <1>5, BeginsOpens

LEMMA OpenSocketOpens ==
  ASSUME SocketInv, ~failed, OpenSocket
  PROVE  Head(pipe).id \in Id /\ Opens(Head(pipe).id)
<1>1. TypeOK
  BY Parts
<1> DEFINE x == Head(pipe).id
           k == HASH(x)
<1>2. /\ x \in Id /\ k \in Slot
      /\ slot[k].type = "reserve" /\ BufferEmpty(slot[k]) /\ dw[k] = None
      /\ told[x] \subseteq {"err"} /\ closes[x] = 0
      /\ pipe # <<>> /\ pipe' = Tail(pipe) /\ force = None
      /\ UNCHANGED <<lock, call, asked, force>>
      /\ \/ /\ \E t : /\ Puts(k, t) /\ t.type = "invalid" /\ t.id = x
                      /\ t.high = <<>> /\ t.low = <<>>
            /\ UNCHANGED <<sending, dw, failed>>
            /\ Tell(x, "err")
         \/ \E t : /\ Begins(x, t)
                   /\ TellNothing \/ Tell(x, "open")
  BY OpenFacts DEF senderVars
<1>3. ASSUME NEW what \in {"err", "open"}, TellNothing \/ Tell(x, what)
      PROVE  /\ told[x] \subseteq told'[x] /\ UNCHANGED closes
             /\ told'[x] \subseteq told[x] \cup {what}
             /\ \A y \in Id \ {x} : told'[y] = told[y]
  <2>1. CASE TellNothing
    BY <2>1 DEF TellNothing
  <2>2. CASE Tell(x, what)
    <3>1. x \in Id /\ told[x] \subseteq {"err"}
      BY <1>2
    <3> HIDE DEF x
    <3>2. /\ UNCHANGED closes
          /\ \A y \in Id : told'[y] = IF y = x THEN told[y] \cup {what} ELSE told[y]
      BY <1>1, <2>2, TellOne, Zenon
    <3> QED
      BY <3>1, <3>2
  <2> QED
    BY <1>3, <2>1, <2>2
<1>4. CASE /\ \E t : /\ Puts(k, t) /\ t.type = "invalid" /\ t.id = x
                     /\ t.high = <<>> /\ t.low = <<>>
           /\ UNCHANGED <<sending, dw, failed>>
           /\ Tell(x, "err")
  <2>1. PICK t : /\ Puts(k, t) /\ t.type = "invalid" /\ t.id = x
                 /\ t.high = <<>> /\ t.low = <<>>
    BY <1>4
  <2>2. /\ slot' \in [Slot -> Socket] /\ slot'[k] = t
        /\ \A j \in Slot \ {k} : slot'[j] = slot[j]
    <3> HIDE DEF k, x
    <3> QED
      BY <1>1, <1>2, <2>1, PutsAt
  <2>3. /\ told[x] \subseteq told'[x] /\ UNCHANGED closes
        /\ told'[x] \subseteq told[x] \cup {"err"}
        /\ \A y \in Id \ {x} : told'[y] = told[y]
    BY <1>3, <1>4
  <2>4. told'[x] \cap {"open", "accept"} = {} /\ "open" \notin told[x]
    BY <1>2, <2>3
  <2>5. /\ slot'[k].id = x /\ slot'[k].type = "invalid" /\ BufferEmpty(slot'[k])
        /\ slot[k].type \in {"invalid", "reserve"} /\ slot'[k].type # "reserve"
    BY <1>2, <2>1, <2>2 DEF BufferEmpty
  <2>6. /\ UNCHANGED <<sending, dw>> /\ dw'[k] = None
        /\ sending'[k] = sending[k]
        /\ \A j \in Slot \ {k} : sending'[j] = sending[j] /\ dw'[j] = dw[j]
    BY <1>2, <1>4
  <2> HIDE DEF x
  <2>7. Opens(x)
    BY <1>2, <2>2, <2>3, <2>4, <2>5, <2>6, Zenon DEF Opens
  <2> QED
    BY <1>2, <2>7 DEF x
<1>5. CASE \E t : Begins(x, t) /\ (TellNothing \/ Tell(x, "open"))
  <2>1. PICK t : Begins(x, t) /\ (TellNothing \/ Tell(x, "open"))
    BY <1>5
  <2>2. /\ told[x] \subseteq told'[x] /\ UNCHANGED closes
        /\ \A y \in Id \ {x} : told'[y] = told[y]
    BY <1>3, <2>1
  <2>3. "open" \notin told[x] /\ slot[k].type \in {"invalid", "reserve"}
    BY <1>2
  <2> HIDE DEF x
  <2>4. Opens(x)
    BY <1>2, <2>1, <2>2, <2>3, BeginsOpens
  <2> QED
    BY <1>2, <2>4 DEF x
<1> QED
  BY <1>2, <1>4, <1>5
-----------------------------------------------------------------------------
(* The types of the variables that no invariant is about.                  *)

LEMMA EventCases ==
  ASSUME Next
  PROVE  \/ ev' \subseteq ev
         \/ \E e \in ev \ {None} : ev' \subseteq ev \cup {[e EXCEPT !.read = FALSE]}
         \/ \E data \in SUBSET Slot, accept \in BOOLEAN : Wait(data, accept)
<1>1. CASE (\E c \in Sender : Sending(c)) \/ Asking \/ Peer
  BY <1>1 DEF Sending, SenderStep, Send, TryLock, DoubleCheck, DirectWrite, Trigger,
              IncSending, SendRequest, Asking, Start, Close, Peer, PeerCloses,
              PeerResets, PeerSet, pollVars
<1>2. CASE Idle
  <2>1. CASE NoCommand \/ AcceptDropped
    BY <2>1 DEF NoCommand, AcceptDropped, Handled
  <2>2. ASSUME NEW e \in ev \ {None},
               InvalidEvent(e) \/ ReadData(e) \/ ReadError(e) \/ ErrorEvent(e) \/ WriteBlocked(e)
        PROVE  \/ ev' \subseteq ev
               \/ ev' \subseteq ev \cup {[e EXCEPT !.read = FALSE]}
    BY <2>2 DEF InvalidEvent, ReadData, ReadError, ErrorEvent, WriteBlocked, Handled,
                ReadOnly
  <2> QED
    BY <1>2, <2>1, <2>2 DEF Idle
<1>3. CASE ChangesSlot
  <2>1. CASE \/ ResumeSocket \/ CloseSocket("K") \/ CloseSocket("X") \/ SendSocket
             \/ TriggerWrite \/ ForceClose
    BY <2>1 DEF ResumeSocket, CloseSocket, SendSocket, TriggerWrite, ForceClose,
                ClearClosed
  <2>2. ASSUME NEW e \in ev \ {None},
               \/ ReportConnect(e) \/ ReadEnd(e) \/ EofEvent(e) \/ WriteError(e)
               \/ \E u : SendBuffer(e, u)
        PROVE  \/ ev' \subseteq ev
               \/ ev' \subseteq ev \cup {[e EXCEPT !.read = FALSE]}
    BY <2>2 DEF ReportConnect, ReadEnd, EofEvent, WriteError, SendBuffer, Handled,
                ReadOnly
  <2> QED
    BY <1>3, <2>1, <2>2 DEF ChangesSlot
<1>4. CASE OpenSocket
  BY <1>4 DEF OpenSocket, ClearClosed
<1>5. CASE \E x \in Id : Connect(x) \/ Accept(x)
  BY <1>5 DEF Connect, Accept, Handled
<1> QED
  BY <1>1, <1>2, <1>3, <1>4, <1>5, Cases

LEMMA EventType ==
  ASSUME TypeOK, Next
  PROVE  ev' \in SUBSET (Event \cup {None})
<1>1. ev \in SUBSET (Event \cup {None})
  BY DEF TypeOK
<1>2. ASSUME NEW e \in ev \ {None} PROVE [e EXCEPT !.read = FALSE] \in Event
  BY EventSlot DEF Event
<1>3. ASSUME NEW data \in SUBSET Slot, NEW k \in Slot PROVE EventOf(k, data) \in Event
  <2> DEFINE end == peer[slot[k].id]
  <2>1. slot[k].reading \in BOOLEAN /\ slot[k].writing \in BOOLEAN
    BY DEF TypeOK, Socket
  <2>2. (CASE end = "rst" -> "err" [] end = "dead" -> "hup" [] OTHER -> "none")
          \in {"none", "err", "hup"}
    OBVIOUS
  <2> HIDE DEF end
  <2>3. (slot[k].reading /\ (end # "open" \/ k \in data)) \in BOOLEAN
    OBVIOUS
  <2> QED
    BY <2>1, <2>2, <2>3 DEF EventOf, Event, end
<1>4. CASE \E data \in SUBSET Slot, accept \in BOOLEAN : Wait(data, accept)
  <2>1. PICK data \in SUBSET Slot, accept \in BOOLEAN : Wait(data, accept)
    BY <1>4
  <2>2. \A k \in Slot : EventOf(k, data) \in Event
    BY <1>3
  <2> DEFINE all == {EventOf(k, data) : k \in {j \in Slot : Registered(j)}}
  <2>3. all \subseteq Event
    BY <2>2
  <2>4. ev' = {e \in all : Reportable(e)} \cup IF accept THEN {None} ELSE {}
    BY <2>1 DEF Wait
  <2> HIDE DEF all
  <2> QED
    BY <2>3, <2>4
<1> QED
  BY <1>1, <1>2, <1>4, EventCases

LEMMA PollType ==
  ASSUME TypeOK, Next
  PROVE  checkctrl' \in BOOLEAN
<1>1. \/ UNCHANGED checkctrl \/ checkctrl' = FALSE \/ checkctrl' = TRUE
  <2>1. CASE (\E c \in Sender : Sending(c)) \/ Asking \/ Peer
    BY <2>1 DEF Sending, SenderStep, Send, TryLock, DoubleCheck, DirectWrite, Trigger,
                IncSending, SendRequest, Asking, Start, Close, Peer, PeerCloses,
                PeerResets, PeerSet, pollVars
  <2>2. CASE Idle
    BY <2>2 DEF Idle, NoCommand, AcceptDropped, Handling, InvalidEvent, ReadData, ReadError,
                ErrorEvent, WriteBlocked, Default, Wait
  <2>3. CASE ChangesSlot
    BY <2>3, ChangesCases DEF Command, ForceClose, Handling
  <2>4. CASE OpenSocket \/ \E x \in Id : Connect(x) \/ Accept(x)
    BY <2>4 DEF OpenSocket, Command, Connect, Accept, Handling
  <2> QED
    BY <2>1, <2>2, <2>3, <2>4, Cases
<1> QED
  BY <1>1 DEF TypeOK

LEMMA FailedType ==
  ASSUME TypeOK, Next
  PROVE  failed' \in BOOLEAN
<1>1. failed \in BOOLEAN
  BY DEF TypeOK
<1>2. CASE (\E c \in Sender : Sending(c)) \/ Asking \/ Peer
  BY <1>1, <1>2, SendingFrame, AskingFrame, PeerFrame
<1>3. CASE Idle
  BY <1>1, <1>3, IdleFrame
<1>4. CASE ChangesSlot
  <2>1. CASE \/ ResumeSocket \/ CloseSocket("K") \/ CloseSocket("X") \/ SendSocket
             \/ TriggerWrite \/ ForceClose
    BY <1>1, <2>1 DEF ResumeSocket, CloseSocket, SendSocket, TriggerWrite, ForceClose,
                      ForceCloseAt
  <2>2. ASSUME NEW e \in ev \ {None},
               \/ ReportConnect(e) \/ ReadEnd(e) \/ EofEvent(e) \/ WriteError(e)
               \/ \E u : SendBuffer(e, u)
        PROVE  failed' \in BOOLEAN
    BY <1>1, <2>2 DEF ReportConnect, ReadEnd, EofEvent, WriteError, SendBuffer, ForceCloseAt
  <2> QED
    BY <1>4, <2>1, <2>2 DEF ChangesSlot
<1>5. CASE OpenSocket \/ \E x \in Id : Connect(x) \/ Accept(x)
  BY <1>1, <1>5 DEF OpenSocket, NewFd, Connect, Accept
<1> QED
  BY <1>2, <1>3, <1>4, <1>5, Cases

LEMMA PeerType ==
  ASSUME TypeOK, Next
  PROVE  peer' \in [Id -> {"none", "open", "fin", "rst", "dead"}]
<1>1. peer \in [Id -> {"none", "open", "fin", "rst", "dead"}]
  BY DEF TypeOK
<1> DEFINE T == peer' \in [Id -> {"none", "open", "fin", "rst", "dead"}]
<1>2. ASSUME NEW x, NEW end, end \in {"none", "open", "fin", "rst", "dead"},
             peer' = [peer EXCEPT ![x] = end]
      PROVE  T
  BY <1>1, <1>2
<1>3. ASSUME UNCHANGED peer PROVE T
  BY <1>1, <1>3
<1>4. \A x : Left(peer[x]) \in {"none", "dead"}
  BY DEF Left
<1> HIDE DEF T
<1> SUFFICES T
  BY DEF T
<1>5. CASE (\E c \in Sender : Sending(c)) \/ Asking
  BY <1>3, <1>5, SendingFrame, AskingFrame DEF netVars
<1>6. CASE Peer
  <2>1. PICK x \in Id : PeerCloses(x) \/ PeerResets(x)
    BY <1>6 DEF Peer
  <2>2. peer' = [peer EXCEPT ![x] = "fin"] \/ peer' = [peer EXCEPT ![x] = "rst"]
    BY <2>1 DEF PeerCloses, PeerResets, PeerSet
  <2> QED
    BY <1>2, <2>2
<1>7. CASE Idle
  <2>1. CASE \/ NoCommand \/ AcceptDropped
             \/ \E data \in SUBSET Slot, accept \in BOOLEAN : Wait(data, accept)
    BY <1>3, <2>1 DEF NoCommand, AcceptDropped, Wait, netVars
  <2>2. ASSUME NEW e \in ev \ {None},
               InvalidEvent(e) \/ ReadData(e) \/ ReadError(e) \/ ErrorEvent(e) \/ WriteBlocked(e)
        PROVE  T
    <3>1. UNCHANGED peer \/ peer' = [peer EXCEPT ![slot[e.s].id] = "dead"]
      BY <2>2 DEF InvalidEvent, ReadData, ReadError, ErrorEvent, WriteBlocked, netVars
    <3> QED
      BY <1>2, <1>3, <3>1
  <2> QED
    BY <1>7, <2>1, <2>2 DEF Idle
<1>8. CASE ChangesSlot
  <2>1. CASE \/ ResumeSocket \/ CloseSocket("K") \/ CloseSocket("X") \/ SendSocket
             \/ TriggerWrite
    BY <1>3, <2>1 DEF ResumeSocket, CloseSocket, SendSocket, TriggerWrite
  <2>2. CASE ForceClose
    <3> DEFINE x == slot[force.s].id
               y == Left(peer[x])
    <3>1. peer' = [peer EXCEPT ![x] = y]
      BY <2>2 DEF ForceClose
    <3>2. y \in {"none", "dead"}
      BY <1>4
    <3> HIDE DEF x, y
    <3> QED
      BY <1>2, <3>1, <3>2
  <2>3. ASSUME NEW e \in ev \ {None}, ReportConnect(e) \/ ReadEnd(e) \/ EofEvent(e)
        PROVE  T
    BY <1>3, <2>3 DEF ReportConnect, ReadEnd, EofEvent, netVars
  <2>4. ASSUME NEW e \in ev \ {None}, WriteError(e)
        PROVE  T
    <3>1. UNCHANGED peer \/ peer' = [peer EXCEPT ![slot[e.s].id] = "dead"]
      BY <2>4 DEF WriteError
    <3> QED
      BY <1>2, <1>3, <3>1
  <2>5. ASSUME NEW e \in ev \ {None}, NEW u, SendBuffer(e, u)
        PROVE  T
    <3> DEFINE x == slot[e.s].id
               y == Left(peer[x])
    <3>1. UNCHANGED peer \/ peer' = [peer EXCEPT ![x] = y]
      BY <2>5 DEF SendBuffer
    <3>2. y \in {"none", "dead"}
      BY <1>4
    <3> HIDE DEF x, y
    <3> QED
      BY <1>2, <1>3, <3>1, <3>2
  <2> QED
    BY <1>8, <2>1, <2>2, <2>3, <2>4, <2>5 DEF ChangesSlot
<1>9. CASE OpenSocket
  <2> DEFINE x == Head(pipe).id
  <2>1. UNCHANGED peer \/ peer' = [peer EXCEPT ![x] = "open"]
    BY <1>9 DEF OpenSocket, NewFd
  <2> HIDE DEF x
  <2> QED
    BY <1>2, <1>3, <2>1
<1>10. CASE \E x \in Id : Connect(x)
  BY <1>3, <1>10 DEF Connect, netVars
<1>11. CASE \E x \in Id : Accept(x)
  <2>1. PICK x \in Id : peer' = [peer EXCEPT ![x] = "open"]
    BY <1>11 DEF Accept
  <2> QED
    BY <1>2, <2>1
<1> QED
  BY <1>5, <1>6, <1>7, <1>8, <1>9, <1>10, <1>11, Cases

\* What is written on a connection.
LEMMA WireType ==
  ASSUME TypeOK, ToldInv, Next
  PROVE  wire' \in [Id -> Seq(Package)]
<1>1. wire \in [Id -> Seq(Package)]
  BY DEF TypeOK
<1>2. ASSUME NEW x, NEW w, w \in Seq(Package), wire' = [wire EXCEPT ![x] = @ \o w]
      PROVE  wire' \in [Id -> Seq(Package)]
  <2>1. \A v \in Seq(Package) : v \o w \in Seq(Package)
    BY <1>2, ConcatProperties
  <2> DEFINE v == wire[x] \o w
  <2>2. wire' = [wire EXCEPT ![x] = v]
    BY <1>2
  <2>3. x \in Id => v \in Seq(Package)
    BY <1>1, <2>1
  <2> HIDE DEF v
  <2> QED
    BY <1>1, <2>2, <2>3
<1>3. CASE \E c \in Sender : DirectWrite(c)
  <2>1. PICK c \in Sender : DirectWrite(c)
    BY <1>3
  <2> DEFINE p == call[c].pkg
  <2>2. p \in Package
    BY <2>1, CallType DEF DirectWrite
  <2>3. PICK n \in 0..Unit :
          wire' = [wire EXCEPT ![p.to] = @ \o Copies([pkg |-> p, left |-> n])]
    <3>1. \A x : Writes(x, Unit) \subseteq 0..Unit
      BY DEF Writes, Unit
    <3> QED
      BY <2>1, <3>1 DEF DirectWrite
  <2> DEFINE w == Copies([pkg |-> p, left |-> n])
  <2>4. w \in Seq(Package)
    <3> HIDE DEF p
    <3>1. w = [j \in 1..n |-> p]
      BY DEF Copies
    <3>2. n \in Nat
      BY DEF Unit
    <3> HIDE DEF w
    <3> QED
      BY <2>2, <3>1, <3>2
  <2> HIDE DEF w, p
  <2>5. wire' = [wire EXCEPT ![p.to] = @ \o w]
    BY <2>3 DEF w
  <2> QED
    BY <1>2, <2>4, <2>5
<1>4. CASE \E e \in ev \ {None} : \E u : SendBuffer(e, u)
  <2>1. PICK e \in ev \ {None} : \E u : SendBuffer(e, u)
    BY <1>4
  <2>2. PICK u : SendBuffer(e, u)
    BY <2>1
  <2> DEFINE s == Merged(e.s)
             all == Units(s.high) \o Units(s.low)
             w == SubSeq(all, 1, u)
  <2>3. s \in Socket
    BY EventSlot, MergedFacts DEF TypeOK
  <2>4. all \in Seq(Package)
    <3> HIDE DEF s
    <3> QED
      BY <2>3, AllUnits
  <2>5. u \in 0..Len(all) /\ wire' = [wire EXCEPT ![slot[e.s].id] = @ \o w]
    BY <2>2 DEF SendBuffer
  <2>6. w \in Seq(Package)
    <3> HIDE DEF all
    <3> QED
      BY <2>4, <2>5
  <2> DEFINE x == slot[e.s].id
  <2>7. wire' = [wire EXCEPT ![x] = @ \o w]
    BY <2>5
  <2> HIDE DEF w, x
  <2> QED
    BY <1>2, <2>6, <2>7
<1>5. CASE ~(\E c \in Sender : DirectWrite(c)) /\ ~(\E e \in ev \ {None} : \E u : SendBuffer(e, u))
  <2>1. CASE (\E c \in Sender : Sending(c)) \/ Asking \/ Peer
    BY <1>1, <1>5, <2>1 DEF Sending, SenderStep, Send, TryLock, DoubleCheck, Trigger,
                IncSending, SendRequest, Asking, Start, Close, Peer, PeerCloses,
                PeerResets, PeerSet, netVars
  <2>2. CASE Idle
    BY <1>1, <2>2, IdleFrame
  <2>3. CASE ChangesSlot
    <3>1. UNCHANGED wire
      BY <1>5, <2>3 DEF ChangesSlot, ResumeSocket, CloseSocket, SendSocket, TriggerWrite,
              Command, ForceClose, ReportConnect, ReadEnd, EofEvent, WriteError, netVars
    <3> QED
      BY <1>1, <3>1
  <2>4. CASE OpenSocket \/ \E x \in Id : Connect(x) \/ Accept(x)
    BY <1>1, <2>4 DEF OpenSocket, Command, Connect, Accept, netVars
  <2> QED
    BY <2>1, <2>2, <2>3, <2>4, Cases
<1> QED
  BY <1>3, <1>4, <1>5

LEMMA SenderType ==
  ASSUME TypeOK, ToldInv, Next
  PROVE  /\ call' \in [Sender -> {None} \cup
                 [pc : {"try", "lock", "write", "trigger", "queue", "request"},
                  pkg : Package]]
         /\ count' \in [Sender -> Nat]
<1>1. /\ call \in [Sender -> {None} \cup
                 [pc : {"try", "lock", "write", "trigger", "queue", "request"},
                  pkg : Package]]
      /\ count \in [Sender -> Nat]
  BY DEF TypeOK
<1>2. ASSUME NEW c \in Sender, Sending(c)
      PROVE  count' \in [Sender -> Nat]
  <2>1. UNCHANGED count \/ count' = [count EXCEPT ![c] = @ + 1]
    BY <1>2 DEF Sending, SenderStep, Send, TryLock, DoubleCheck, DirectWrite, Trigger,
                IncSending, SendRequest
  <2> QED
    BY <1>1, <2>1
<1>3. CASE \E c \in Sender : Sending(c)
  BY <1>2, <1>3, SendingCalls
<1>4. CASE ~(\E c \in Sender : Sending(c))
  <2>1. UNCHANGED <<call, count>>
    <3>1. Asking \/ Peer \/ Idle => UNCHANGED <<call, count>>
      BY AskingFrame, PeerFrame, IdleFrame DEF senderVars
    <3>2. ChangesSlot \/ OpenSocket \/ (\E x \in Id : Accept(x)) => UNCHANGED <<call, count>>
      BY ThreadFrame DEF senderVars
    <3>3. (\E x \in Id : Connect(x)) => UNCHANGED <<call, count>>
      BY DEF Connect, senderVars
    <3> QED
      BY <1>4, <3>1, <3>2, <3>3, Cases
  <2> QED
    BY <1>1, <2>1
<1> QED
  BY <1>3, <1>4

\* The types of what a new socket begins with.
LEMMA ConnectType ==
  ASSUME SocketInv, ~failed, NEW x \in Id, Connect(x)
  PROVE  /\ alloc' \in 0..MaxId
         /\ slot' \in [Slot -> Socket]
         /\ sending' \in [Slot -> [id : 0..MaxId, n : Nat]]
         /\ dw' \in [Slot -> Buffer \cup {None}]
         /\ lock' \in [Slot -> Sender \cup {None}]
         /\ pipe' \in Seq(Request)
         /\ force' \in [s : Slot, raise : {"close", "err", "none"}] \cup {None}
         /\ asked' \in [Id -> SUBSET {"start", "close", "shutdown"}]
         /\ told' \in [Id -> SUBSET {"accept", "open", "err", "late"}]
         /\ closes' \in [Id -> Nat]
<1>1. TypeOK
  BY Parts
<1>2. /\ alloc' = x /\ slot' \in [Slot -> Socket]
      /\ UNCHANGED <<sending, dw, lock, force, asked, told, closes>>
  BY ConnectFacts DEF ownerVars
<1>3. x \in 0..MaxId
  BY SocketServerAssumption DEF Id
<1>4. pipe' \in Seq(Request)
  BY ConnectIds
<1> QED
  BY <1>1, <1>2, <1>3, <1>4 DEF TypeOK

LEMMA BeginsType ==
  ASSUME SocketInv, ~failed, NEW x \in Id, NEW t, Begins(x, t)
  PROVE  /\ slot' \in [Slot -> Socket]
         /\ sending' \in [Slot -> [id : 0..MaxId, n : Nat]]
         /\ dw' \in [Slot -> Buffer \cup {None}]
BY BeginsFacts

LEMMA AcceptType ==
  ASSUME SocketInv, ~failed, NEW x \in Id, Accept(x)
  PROVE  /\ alloc' \in 0..MaxId
         /\ slot' \in [Slot -> Socket]
         /\ sending' \in [Slot -> [id : 0..MaxId, n : Nat]]
         /\ dw' \in [Slot -> Buffer \cup {None}]
         /\ lock' \in [Slot -> Sender \cup {None}]
         /\ pipe' \in Seq(Request)
         /\ force' \in [s : Slot, raise : {"close", "err", "none"}] \cup {None}
         /\ asked' \in [Id -> SUBSET {"start", "close", "shutdown"}]
         /\ told' \in [Id -> SUBSET {"accept", "open", "err", "late"}]
         /\ closes' \in [Id -> Nat]
<1>1. TypeOK
  BY Parts
<1>2. /\ alloc' = x /\ Tell(x, "accept")
      /\ UNCHANGED <<lock, force, pipe, asked>>
  BY AcceptFacts
<1>3. PICK t : Begins(x, t)
  BY AcceptFacts
<1>4. x \in 0..MaxId
  BY SocketServerAssumption DEF Id
<1>5. /\ slot' \in [Slot -> Socket]
      /\ sending' \in [Slot -> [id : 0..MaxId, n : Nat]]
      /\ dw' \in [Slot -> Buffer \cup {None}]
  BY <1>3, BeginsType
<1>6. /\ told' \in [Id -> SUBSET {"accept", "open", "err", "late"}]
      /\ closes' \in [Id -> Nat]
  BY <1>1, <1>2, TellOne
<1> QED
  BY <1>1, <1>2, <1>4, <1>5, <1>6 DEF TypeOK

LEMMA OpenType ==
  ASSUME SocketInv, ~failed, OpenSocket
  PROVE  /\ alloc' \in 0..MaxId
         /\ slot' \in [Slot -> Socket]
         /\ sending' \in [Slot -> [id : 0..MaxId, n : Nat]]
         /\ dw' \in [Slot -> Buffer \cup {None}]
         /\ lock' \in [Slot -> Sender \cup {None}]
         /\ pipe' \in Seq(Request)
         /\ force' \in [s : Slot, raise : {"close", "err", "none"}] \cup {None}
         /\ asked' \in [Id -> SUBSET {"start", "close", "shutdown"}]
         /\ told' \in [Id -> SUBSET {"accept", "open", "err", "late"}]
         /\ closes' \in [Id -> Nat]
<1>1. TypeOK
  BY Parts
<1> DEFINE x == Head(pipe).id
           k == HASH(x)
<1>2. /\ x \in Id
      /\ pipe # <<>> /\ pipe' = Tail(pipe)
      /\ UNCHANGED <<alloc, lock, asked, force>>
      /\ \/ /\ \E t : Puts(k, t)
            /\ UNCHANGED <<sending, dw>>
            /\ Tell(x, "err")
         \/ \E t : /\ Begins(x, t)
                   /\ TellNothing \/ Tell(x, "open")
  BY OpenFacts
<1> HIDE DEF x, k
<1>3. /\ slot' \in [Slot -> Socket]
      /\ sending' \in [Slot -> [id : 0..MaxId, n : Nat]]
      /\ dw' \in [Slot -> Buffer \cup {None}]
  <2>1. CASE (\E t : Puts(k, t)) /\ UNCHANGED <<sending, dw>>
    BY <1>1, <2>1, PutsAt DEF Puts, TypeOK
  <2>2. CASE \E t : Begins(x, t)
    BY <1>2, <2>2, BeginsType
  <2> QED
    BY <1>2, <2>1, <2>2
<1>4. /\ told' \in [Id -> SUBSET {"accept", "open", "err", "late"}]
      /\ closes' \in [Id -> Nat]
  <2>1. CASE TellNothing
    BY <1>1, <2>1 DEF TellNothing, TypeOK
  <2>2. CASE Tell(x, "err") \/ Tell(x, "open")
    BY <1>1, <2>2, TellOne
  <2> QED
    BY <1>2, <2>1, <2>2
<1>5. pipe' \in Seq(Request)
  BY <1>1, <1>2 DEF TypeOK
<1> QED
  BY <1>1, <1>2, <1>3, <1>4, <1>5 DEF TypeOK

LEMMA OldType ==
  ASSUME SocketInv, ~failed, ~failed', Next, Old
  PROVE  /\ alloc' \in 0..MaxId
         /\ slot' \in [Slot -> Socket]
         /\ sending' \in [Slot -> [id : 0..MaxId, n : Nat]]
         /\ dw' \in [Slot -> Buffer \cup {None}]
         /\ lock' \in [Slot -> Sender \cup {None}]
         /\ pipe' \in Seq(Request)
         /\ force' \in [s : Slot, raise : {"close", "err", "none"}] \cup {None}
         /\ asked' \in [Id -> SUBSET {"start", "close", "shutdown"}]
         /\ told' \in [Id -> SUBSET {"accept", "open", "err", "late"}]
         /\ closes' \in [Id -> Nat]
<1>1. TypeOK /\ IdInv /\ CloseInv
  BY Parts
<1>2. Tells
  BY OldTells
<1>3. /\ told' \in [Id -> SUBSET {"accept", "open", "err", "late"}]
      /\ closes' \in [Id -> Nat]
  BY <1>1, <1>2, TellFacts
<1>4. UNCHANGED alloc /\ alloc \in 0..MaxId
  BY <1>1, OldSlots DEF TypeOK
<1> QED
  BY <1>3, <1>4, OldSlots, OldFresh, OldRequests, OldForce, OldAsked

LEMMA TypeStep ==
  ASSUME SocketInv, ~failed, ~failed', Next
  PROVE  TypeOK'
<1>1. TypeOK /\ ToldInv
  BY Parts
<1>2. /\ alloc' \in 0..MaxId
      /\ slot' \in [Slot -> Socket]
      /\ sending' \in [Slot -> [id : 0..MaxId, n : Nat]]
      /\ dw' \in [Slot -> Buffer \cup {None}]
      /\ lock' \in [Slot -> Sender \cup {None}]
      /\ pipe' \in Seq(Request)
      /\ force' \in [s : Slot, raise : {"close", "err", "none"}] \cup {None}
      /\ asked' \in [Id -> SUBSET {"start", "close", "shutdown"}]
      /\ told' \in [Id -> SUBSET {"accept", "open", "err", "late"}]
      /\ closes' \in [Id -> Nat]
  <2>1. CASE Old
    BY <2>1, OldType
  <2>2. CASE OpenSocket
    BY <2>2, OpenType
  <2>3. CASE \E x \in Id : Connect(x)
    BY <2>3, ConnectType
  <2>4. CASE \E x \in Id : Accept(x)
    BY <2>4, AcceptType
  <2> QED
    BY <2>1, <2>2, <2>3, <2>4 DEF Old
<1>3. /\ ev' \in SUBSET (Event \cup {None}) /\ checkctrl' \in BOOLEAN
      /\ failed' \in BOOLEAN
      /\ peer' \in [Id -> {"none", "open", "fin", "rst", "dead"}]
      /\ wire' \in [Id -> Seq(Package)]
      /\ count' \in [Sender -> Nat]
      /\ call' \in [Sender -> {None} \cup
                 [pc : {"try", "lock", "write", "trigger", "queue", "request"},
                  pkg : Package]]
  BY <1>1, EventType, PollType, FailedType, PeerType, WireType, SenderType
<1> QED
  BY <1>2, <1>3, Zenon DEF TypeOK
-----------------------------------------------------------------------------
(* The invariant.                                                          *)

LEMMA InitInv ==
  ASSUME Init
  PROVE  SocketInv
<1> DEFINE empty == [type |-> "invalid", id |-> 0, closing |-> FALSE, reading |-> FALSE,
                     writing |-> FALSE, high |-> <<>>, low |-> <<>>, wb |-> 0]
<1>1. /\ alloc = 0 /\ slot = [k \in Slot |-> empty]
      /\ sending = [k \in Slot |-> [id |-> 0, n |-> 0]]
      /\ dw = [k \in Slot |-> None] /\ lock = [k \in Slot |-> None]
      /\ pipe = <<>> /\ checkctrl = TRUE /\ ev = {} /\ force = None
      /\ call = [c \in Sender |-> None] /\ count = [c \in Sender |-> 0]
      /\ asked = [x \in Id |-> {}] /\ told = [x \in Id |-> {}]
      /\ closes = [x \in Id |-> 0] /\ peer = [x \in Id |-> "none"]
      /\ wire = [x \in Id |-> <<>>] /\ failed = FALSE
  BY DEF Init
<1>2. 0 \in 0..MaxId /\ 0 \in Nat
  BY SocketServerAssumption
<1>3. <<>> \in Seq(Buffer) /\ <<>> \in Seq(Request) /\ <<>> \in Seq(Package)
  OBVIOUS
<1>4. empty \in Socket
  BY <1>2, <1>3 DEF Socket, Types
<1>5. /\ empty.type = "invalid" /\ empty.id = 0 /\ BufferEmpty(empty)
  BY DEF BufferEmpty
<1>6. [id |-> 0, n |-> 0] \in [id : 0..MaxId, n : Nat]
  BY <1>2
<1> HIDE DEF empty
<1>7. TypeOK
  <2>1. /\ alloc \in 0..MaxId /\ slot \in [Slot -> Socket]
        /\ sending \in [Slot -> [id : 0..MaxId, n : Nat]]
    BY <1>1, <1>2, <1>4, <1>6
  <2>2. /\ dw \in [Slot -> Buffer \cup {None}] /\ lock \in [Slot -> Sender \cup {None}]
        /\ pipe \in Seq(Request) /\ checkctrl \in BOOLEAN
        /\ ev \in SUBSET (Event \cup {None})
        /\ force \in [s : Slot, raise : {"close", "err", "none"}] \cup {None}
    BY <1>1, <1>3
  <2>3. /\ call \in [Sender -> {None} \cup
                 [pc : {"try", "lock", "write", "trigger", "queue", "request"},
                  pkg : Package]]
        /\ count \in [Sender -> Nat]
        /\ asked \in [Id -> SUBSET {"start", "close", "shutdown"}]
        /\ told \in [Id -> SUBSET {"accept", "open", "err", "late"}]
    BY <1>1, <1>2
  <2>4. /\ closes \in [Id -> Nat]
        /\ peer \in [Id -> {"none", "open", "fin", "rst", "dead"}]
        /\ wire \in [Id -> Seq(Package)]
        /\ failed \in BOOLEAN
    BY <1>1, <1>2, <1>3
  <2> QED
    BY <2>1, <2>2, <2>3, <2>4, Zenon DEF TypeOK
<1>8. \A k \in Slot : /\ slot[k].type = "invalid" /\ slot[k].id = 0
                      /\ BufferEmpty(slot[k]) /\ dw[k] = None
                      /\ sending[k].id = 0 /\ sending[k].n = 0 /\ ~Alive(k)
  BY <1>1, <1>5 DEF Alive
<1>9. /\ \A c \in Sender : call[c] = None
      /\ DOMAIN pipe = {}
      /\ \A x \in Id : told[x] = {} /\ asked[x] = {} /\ closes[x] = 0
  BY <1>1
<1>10. CloseOnce
  BY <1>9 DEF CloseOnce
<1>11. IdInv
  BY <1>1, <1>8, <1>9 DEF IdInv
<1>12. OpenInv /\ ToldInv /\ FreshInv
  BY <1>8, <1>9 DEF OpenInv, ToldInv, FreshInv
<1>13. CountInv
  <2> SUFFICES ASSUME NEW k \in Slot
               PROVE  Cardinality(Coming(sending[k].id)) + Cardinality(Going(sending[k].id))
                        <= sending[k].n
    BY DEF CountInv
  <2>1. Coming(sending[k].id) = {} /\ Going(sending[k].id) = {}
    BY <1>9 DEF Coming, Going
  <2> QED
    BY <1>8, <2>1, FS_EmptySet
<1>14. SizeInv
  BY <1>8, WholeEmpty DEF SizeInv
<1>15. ForceInv /\ CloseInv
  BY <1>1, <1>8 DEF ForceInv, CloseInv
<1> QED
  BY <1>7, <1>10, <1>11, <1>12, <1>13, <1>14, <1>15 DEF SocketInv

LEMMA NextInv ==
  ASSUME SocketInv, [Next]_vars
  PROVE  SocketInv'
<1>1. CloseOnce'
  BY CloseOnceStep
<1>2. CASE UNCHANGED vars
  <2>1. UNCHANGED <<alloc, slot, sending, dw, lock, pipe, checkctrl, ev, force, call, count,
                    asked, told, closes, peer, wire, failed>>
    BY <1>2 DEF vars, slotVars, pollVars, senderVars, ownerVars, netVars
  <2>2. TypeOK' = TypeOK
    BY <2>1 DEF TypeOK
  <2>3. CloseOnce' = CloseOnce /\ CloseInv' = CloseInv /\ ForceInv' = ForceInv
    BY <2>1 DEF CloseOnce, CloseInv, ForceInv, Alive, BufferEmpty
  <2>4. IdInv' = IdInv /\ OpenInv' = OpenInv /\ ToldInv' = ToldInv
    BY <2>1 DEF IdInv, OpenInv, ToldInv, Alive
  <2>5. FreshInv' = FreshInv
    BY <2>1 DEF FreshInv, Alive, BufferEmpty
  <2>6. SizeInv' = SizeInv
    BY <2>1 DEF SizeInv, Alive, Units, Copies, Whole
  <2>7. CountInv' = CountInv
    BY <2>1 DEF CountInv, Coming, Going
  <2> QED
    BY <2>1, <2>2, <2>3, <2>4, <2>5, <2>6, <2>7 DEF SocketInv
<1>3. CASE Next
  <2>1. CASE failed'
    BY <1>1, <2>1 DEF SocketInv
  <2>2. CASE ~failed'
    <3>1. ~failed
      BY <1>3, Running
    <3>2. TypeOK'
      BY <1>3, <2>2, <3>1, TypeStep
    <3>3. IdInv' /\ OpenInv' /\ ToldInv' /\ FreshInv' /\ CountInv' /\ SizeInv' /\ ForceInv'
            /\ CloseInv'
      <4>1. CASE Old
        BY <1>3, <2>2, <3>1, <4>1, OldIds, OldOpen, OldTold, OldFresh, OldCount, OldSize,
           OldForce
      <4>2. CASE OpenSocket
        <5> DEFINE x == Head(pipe).id
        <5>1. x \in Id /\ Opens(x)
          BY <3>1, <4>2, OpenSocketOpens
        <5>2. /\ pipe # <<>> /\ pipe' = Tail(pipe) /\ Head(pipe).cmd = "O"
              /\ slot[HASH(x)].id = x /\ x <= alloc /\ UNCHANGED alloc
          BY <3>1, <4>2, OpenFacts
        <5>3. alloc \in 0..MaxId
          BY <3>1, Parts DEF TypeOK
        <5>4. alloc \in Nat /\ alloc <= alloc
          BY <5>3, SocketServerAssumption
        <5>5. IdInv' /\ CloseInv'
          <6> HIDE DEF x
          <6> QED
            BY <3>1, <5>1, <5>2, <5>4, OpensIds
        <5>6. OpenInv'
          BY <3>1, <5>1, <5>2, OpensOpen
        <5> HIDE DEF x
        <5> QED
          BY <3>1, <5>1, <5>5, <5>6, OpensTold, OpensCount
      <4>3. CASE \E x \in Id : Connect(x)
        BY <3>1, <4>3, ConnectIds, ConnectKeeps
      <4>4. CASE \E x \in Id : Accept(x)
        <5>1. PICK x \in Id : Accept(x)
          BY <4>4
        <5>2. /\ Opens(x) /\ alloc' = x /\ alloc < x /\ UNCHANGED pipe
              /\ slot[HASH(x)].type = "invalid"
          BY <3>1, <5>1, AcceptOpens
        <5>3. alloc \in 0..MaxId
          BY <3>1, Parts DEF TypeOK
        <5>4. x \in Nat /\ alloc <= x /\ x <= x
          BY <5>2, <5>3, SocketServerAssumption DEF Id
        <5> QED
          BY <3>1, <5>2, <5>4, OpensIds, OpensOpen, OpensTold, OpensCount
      <4> QED
        BY <4>1, <4>2, <4>3, <4>4 DEF Old
    <3> QED
      BY <1>1, <3>2, <3>3 DEF SocketInv
  <2> QED
    BY <2>1, <2>2
<1> QED
  BY <1>2, <1>3

\* What is known of the sockets as long as no assertion fails, and of the closes
\* also then.
THEOREM SocketInvariant == Spec => []SocketInv
<1>1. Init => SocketInv
  BY InitInv
<1>2. SocketInv /\ [Next]_vars => SocketInv'
  BY NextInv
<1> QED
  BY <1>1, <1>2, PTL DEF Spec

\* SOCKET_CLOSE is raised at most once for a socket, and no data is told after it:
\* whoever closes first, and also where an event of the past reaches a slot that
\* is reserved (socket_server.c:1123-1128).
THEOREM ClosedOnce == Spec => []CloseOnce
<1>1. SocketInv => CloseOnce
  BY DEF SocketInv
<1> QED
  BY <1>1, SocketInvariant, PTL
-----------------------------------------------------------------------------
(* No assertion fails, when no event of the past reaches a slot.           *)

LEMMA WholeHead ==
  ASSUME NEW s \in Socket, Whole(s.low, 1)
  PROVE  ~Uncomplete(s.low)
<1> DEFINE l == s.low
<1>1. l \in Seq(Buffer) /\ Whole(l, 1)
  BY DEF Socket
<1> HIDE DEF l
<1> SUFFICES ASSUME l # <<>> PROVE Head(l).left = Unit
  BY DEF Uncomplete, l, Unit
<1>2. 1 \in DOMAIN l /\ Head(l) = l[1]
  BY <1>1
<1> QED
  BY <1>1, <1>2 DEF Whole

\* The sender of a request was counted, so it can be counted off.
LEMMA Counted ==
  ASSUME SocketInv, ~failed, SendSocket
  PROVE  ~failed'
<1>1. TypeOK /\ IdInv /\ ToldInv /\ CountInv
  BY Parts
<1>2. pipe \in Seq(Request) /\ sending \in [Slot -> [id : 0..MaxId, n : Nat]]
  BY <1>1 DEF TypeOK
<1> DEFINE y == Head(pipe).id
           j == HASH(y)
           p == Head(pipe).pkg
<1>3. pipe # <<>> /\ Head(pipe).cmd = "D" /\ pipe' = Tail(pipe)
  BY DEF SendSocket, Command
<1>4. y \in Id /\ j \in Slot /\ Head(pipe) = pipe[1] /\ 1 \in DOMAIN pipe
  BY <1>1, <1>3, HeadPipe
<1>5. p.to = y /\ "open" \in told[y]
  BY <1>1, <1>3, <1>4 DEF ToldInv
<1>6. failed' = (slot[j].id = y /\ slot[j].type # "reserve" /\ sending[j].n = 0)
  BY <1>5 DEF SendSocket
<1> SUFFICES ASSUME slot[j].id = y PROVE sending[j].n # 0
  BY <1>6
<1>7. sending[j].id = y
  BY <1>1, <1>4, <1>5 DEF ToldInv
<1> DEFINE C == Cardinality(Coming(y))
           G == Cardinality(Going(y))
<1>8. C + G <= sending[j].n /\ C \in Nat /\ G \in Nat /\ sending[j].n \in Nat
  BY <1>1, <1>2, <1>4, <1>7, CountFinite DEF CountInv
<1>9. 1 <= C
  <2>1. PICK x : x = Head(pipe).id
    OBVIOUS
  <2>2. PICK F : F = Coming(x)'
    OBVIOUS
  <2>3. /\ Cardinality(F) \in Nat /\ Cardinality(F) + 1 <= Cardinality(Coming(x))
    BY <1>2, <1>3, <2>1, <2>2, ComingTail
  <2>4. Cardinality(F) + 1 <= C
    BY <2>1, <2>3
  <2>5. Cardinality(F) \in Nat
    BY <2>3
  <2> HIDE DEF C
  <2> QED
    BY <1>8, <2>4, <2>5
<1> HIDE DEF C, G
<1> QED
  BY <1>8, <1>9

LEMMA ForceCloseHolds ==
  ASSUME NEW k, NEW raise, ForceCloseAt(k, raise), slot[k].type # "reserve"
  PROVE  ~failed'
BY DEF ForceCloseAt

\* An event reaches a connection, or a slot that has none any more.
LEMMA EventHolds ==
  ASSUME SocketInv, FreshEvents, NEW e \in ev \ {None},
         \/ ReportConnect(e) \/ ReadEnd(e) \/ EofEvent(e) \/ WriteError(e)
         \/ \E u : SendBuffer(e, u)
  PROVE  ~failed'
<1>1. ~failed /\ slot[e.s].type # "reserve"
  BY DEF FreshEvents, EventInv
<1>2. TypeOK /\ FreshInv /\ SizeInv
  BY <1>1, Parts
<1>3. e.s \in Slot /\ slot[e.s] \in Socket
  BY <1>2, EventSlot
<1>4. CASE ReportConnect(e)
  BY <1>1, <1>2, <1>4, ReportConnectPuts, ForceCloseHolds
<1>5. CASE ReadEnd(e)
  BY <1>1, <1>2, <1>5, ReadEndPuts, ForceCloseHolds
<1>6. CASE EofEvent(e)
  BY <1>1, <1>6, ForceCloseHolds DEF EofEvent
<1> DEFINE k == e.s
<1>7. ~Uncomplete(slot[k].low)
  BY <1>2, <1>3, WholeHead DEF SizeInv
<1>8. CASE WriteError(e)
  <2> DEFINE s == Merged(k)
  <2>1. Same(slot[k], s)
    BY <1>2, <1>8, WriteErrorPuts
  <2>2. failed' = (Uncomplete(slot[k].low) \/ (s.type = "reserve" /\ s.closing))
    BY <1>8 DEF WriteError
  <2> HIDE DEF s
  <2> QED
    BY <1>1, <1>7, <2>1, <2>2 DEF Same
<1>9. ASSUME NEW u, SendBuffer(e, u) PROVE ~failed'
  <2> DEFINE t == Sent(Merged(k), u)
  <2>1. /\ slot[k].type # "invalid"
        /\ Alive(k) => Sized(t)
    BY <1>2, <1>9, SendBufferPuts
  <2>2. failed' = \/ Uncomplete(slot[k].low)
                  \/ BufferEmpty(t) /\ t.wb # 0
                  \/ BufferEmpty(t) /\ t.closing /\ slot[k].type = "reserve"
    BY <1>9 DEF SendBuffer
  <2> HIDE DEF t
  <2>3. Sized(t)
    BY <1>1, <2>1 DEF Alive
  <2>4. BufferEmpty(t) => t.wb = 0
    BY <2>3, UnitsOfNone DEF Sized, BufferEmpty
  <2> QED
    BY <1>1, <1>7, <2>2, <2>4
<1> QED
  BY <1>4, <1>5, <1>6, <1>8, <1>9

LEMMA HoldsStep ==
  ASSUME SocketInv, FreshEvents, Next
  PROVE  ~failed'
<1>1. ~failed
  BY DEF FreshEvents
<1>2. TypeOK /\ IdInv /\ OpenInv /\ FreshInv
  BY <1>1, Parts
<1>3. CASE (\E c \in Sender : Sending(c)) \/ Asking \/ Peer \/ Idle
  <2>1. UNCHANGED failed
    BY <1>2, <1>3, SendingFrame, AskingFrame, PeerFrame, IdleFrame
  <2> QED
    BY <1>1, <2>1
<1>4. CASE ChangesSlot
  <2>1. CASE ResumeSocket \/ TriggerWrite \/ ForceClose
    BY <1>1, <2>1 DEF ResumeSocket, TriggerWrite, ForceClose
  <2>2. ASSUME NEW cmd \in {"K", "X"}, CloseSocket(cmd) PROVE ~failed'
    <3>1. pipe # <<>> /\ Head(pipe).cmd # "O"
      BY <2>2 DEF CloseSocket, Command
    <3>2. CASE UNCHANGED failed
      BY <1>1, <3>2
    <3>3. CASE /\ ~Invalid(Head(pipe).id)
               /\ ForceCloseAt(HASH(Head(pipe).id), Raises(HASH(Head(pipe).id)))
      <4>1. Alive(HASH(Head(pipe).id))
        BY <1>2, <3>1, <3>3, NotReserved
      <4> QED
        BY <3>3, <4>1, ForceCloseHolds DEF Alive
    <3> QED
      BY <1>2, <2>2, <3>2, <3>3, CloseSocketPuts
  <2>3. CASE SendSocket
    BY <1>1, <2>3, Counted
  <2> QED
    BY <1>4, <2>1, <2>2, <2>3, EventHolds DEF ChangesSlot
<1>5. CASE OpenSocket
  <2>1. /\ slot[HASH(Head(pipe).id)].type = "reserve"
        /\ BufferEmpty(slot[HASH(Head(pipe).id)])
    BY <1>1, <1>5, OpenFacts
  <2> QED
    BY <1>1, <1>5, <2>1 DEF OpenSocket, NewFd
<1>6. CASE \E x \in Id : Connect(x)
  BY <1>1, <1>6 DEF Connect
<1>7. ASSUME NEW x \in Id, Accept(x) PROVE ~failed'
  <2> DEFINE k == HASH(x)
             t == [slot EXCEPT ![k].type = "reserve"]
  <2>1. slot[k].type = "invalid"
    BY <1>1, <1>7, AcceptFacts
  <2>2. k \in Slot
    <3>1. x \in Nat
      BY DEF Id
    <3> QED
      BY <3>1, HashSlot
  <2>3. BufferEmpty(slot[k]) /\ slot[k] \in Socket /\ slot \in [Slot -> Socket]
    BY <1>2, <2>1, <2>2 DEF FreshInv, Alive, TypeOK
  <2>4. failed' = ~BufferEmpty(t[k])
    BY <1>7 DEF Accept
  <2> HIDE DEF k
  <2>5. t[k].high = slot[k].high /\ t[k].low = slot[k].low
    BY <2>2, <2>3 DEF Socket
  <2> QED
    BY <2>3, <2>4, <2>5 DEF BufferEmpty
<1> QED
  BY <1>3, <1>4, <1>5, <1>6, <1>7, Cases

\* A slot is not reserved with an event of its past, and an event of a poll is of
\* a slot that has a connection.
LEMMA EventStep ==
  ASSUME ~StaleEvents, SocketInv, FreshEvents, Next
  PROVE  EventInv'
<1>1. ~failed /\ EventInv /\ ~failed'
  BY HoldsStep DEF FreshEvents
<1>2. TypeOK
  BY <1>1, Parts
<1> SUFFICES ASSUME NEW e \in ev' \ {None}
             PROVE  slot'[e.s].type # "reserve"
  BY DEF EventInv
<1>3. CASE \E data \in SUBSET Slot, accept \in BOOLEAN : Wait(data, accept)
  <2>1. PICK data \in SUBSET Slot, accept \in BOOLEAN : Wait(data, accept)
    BY <1>3
  <2>2. UNCHANGED slot
    BY <2>1 DEF Wait, slotVars
  <2> DEFINE all == {EventOf(k, data) : k \in {j \in Slot : Registered(j)}}
  <2>3. e \in all
    BY <2>1 DEF Wait
  <2>4. PICK k \in Slot : Registered(k) /\ e = EventOf(k, data)
    BY <2>3
  <2>5. e.s = k
    BY <2>4 DEF EventOf
  <2> QED
    BY <2>2, <2>4, <2>5 DEF Registered
<1>4. CASE ~(\E data \in SUBSET Slot, accept \in BOOLEAN : Wait(data, accept))
  <2>1. \E d \in ev \ {None} : d.s = e.s
    <3>1. CASE e \in ev
      BY <3>1
    <3>2. ASSUME NEW d \in ev \ {None}, e = [d EXCEPT !.read = FALSE]
          PROVE  d.s = e.s
      <4>1. d \in Event
        BY <1>2, EventSlot
      <4> QED
        BY <3>2, <4>1 DEF Event
    <3>3. \/ e \in ev
          \/ \E d \in ev \ {None} : e = [d EXCEPT !.read = FALSE]
      BY <1>4, EventCases
    <3> QED
      BY <3>1, <3>2, <3>3
  <2>2. PICK d \in ev \ {None} : d.s = e.s
    BY <2>1
  <2> DEFINE k == e.s
  <2>3. k \in Slot /\ slot[k].type # "reserve"
    BY <1>1, <1>2, <2>2, EventSlot DEF EventInv
  <2>4. CASE Old
    BY <1>1, <2>3, <2>4, OldSlots
  <2>5. ASSUME NEW x \in Id, Opens(x) PROVE slot'[k].type # "reserve"
    BY <2>3, <2>5 DEF Opens
  <2>6. CASE OpenSocket
    BY <1>1, <2>5, <2>6, OpenSocketOpens
  <2>7. CASE \E x \in Id : Accept(x)
    BY <1>1, <2>5, <2>7, AcceptOpens
  <2>8. ASSUME NEW x \in Id, Connect(x) PROVE slot'[k].type # "reserve"
    <3>1. d.s # HASH(x)
      BY <2>8 DEF Connect, Reservable
    <3>2. \A j \in Slot \ {HASH(x)} : slot'[j] = slot[j]
      BY <1>1, <2>8, ConnectFacts
    <3> QED
      BY <2>2, <2>3, <3>1, <3>2
  <2> QED
    BY <2>4, <2>6, <2>7, <2>8 DEF Old
<1> QED
  BY <1>3, <1>4

\* No assertion of the thread fails and the fields keep their types, provided a
\* slot is not reserved while an event of its past waits to be handled: of a
\* socket that is closed by an earlier event of the same poll
\* (socket_server.c:489, 533, 861, 893, 1334).
THEOREM NoAssertion == ~StaleEvents => (Spec => []NoAssert)
<1> SUFFICES ASSUME ~StaleEvents PROVE Spec => []NoAssert
  OBVIOUS
<1>1. Init => FreshEvents
  BY DEF Init, FreshEvents, EventInv
<1>2. ASSUME SocketInv, FreshEvents, [Next]_vars PROVE FreshEvents'
  <2>1. CASE Next
    BY <1>2, <2>1, HoldsStep, EventStep DEF FreshEvents
  <2>2. CASE UNCHANGED vars
    BY <1>2, <2>2 DEF vars, slotVars, pollVars, FreshEvents, EventInv
  <2> QED
    BY <1>2, <2>1, <2>2
<1>3. SocketInv /\ FreshEvents => NoAssert
  BY DEF SocketInv, FreshEvents, NoAssert
<1> QED
  BY <1>1, <1>2, <1>3, SocketInvariant, PTL DEF Spec
=============================================================================
