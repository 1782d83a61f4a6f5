---------------------------- MODULE SocketWireProofs ----------------------------
(***************************************************************************)
(* Theorems of SocketProps, checked by TLAPS, about the packages on a      *)
(* connection: they are whole and in order, and closing a socket loses     *)
(* none of its owner, for any number of sockets, slots and senders.        *)
(***************************************************************************)
EXTENDS SocketProofs

(* Streams of units, and what is put in them.                              *)

\* t is s with the two units of p behind the first n units.
Inserts(s, t, n, p) ==
  /\ Len(t) = Len(s) + Unit
  /\ \A i \in 1..n : t[i] = s[i]
  /\ t[n + 1] = p /\ t[n + 2] = p
  /\ \A i \in (n + 1)..Len(s) : t[i + Unit] = s[i]

\* Where the units of t come from.
Place(s, t, n, p, i, j) ==
  \/ i <= n /\ j = i /\ j \in DOMAIN s /\ t[i] = s[j]
  \/ i \in {n + 1, n + 2} /\ j = 0 /\ t[i] = p
  \/ n + 2 < i /\ j = i - 2 /\ j \in DOMAIN s /\ t[i] = s[j]

\* Each unit of t is one of s, or of p.
LEMMA Placed ==
  ASSUME NEW s \in Seq(Package), NEW t \in Seq(Package), NEW p,
         NEW n \in 0..Len(s), Inserts(s, t, n, p), NEW i \in DOMAIN t
  PROVE  i \in Nat /\ \E j \in Nat : Place(s, t, n, p, i, j)
<1>1. /\ Len(s) \in Nat /\ Len(t) = Len(s) + 2 /\ i \in 1..Len(t)
      /\ DOMAIN s = 1..Len(s) /\ n \in Nat
  BY DEF Inserts, Unit
<1>2. CASE i <= n
  <2>1. i \in 1..n /\ i \in DOMAIN s
    BY <1>1, <1>2
  <2> QED
    BY <1>1, <1>2, <2>1 DEF Inserts, Place
<1>3. CASE i = n + 1 \/ i = n + 2
  BY <1>1, <1>3 DEF Inserts, Place
<1>4. CASE n + 2 < i
  <2> DEFINE j == i - 2
  <2>1. j \in (n + 1)..Len(s) /\ j + 2 = i /\ j \in DOMAIN s /\ j \in Nat
    BY <1>1, <1>4
  <2>2. t[j + 2] = s[j]
    BY <2>1 DEF Inserts, Unit
  <2> QED
    BY <1>1, <1>4, <2>1, <2>2 DEF Place
<1> QED
  BY <1>1, <1>2, <1>3, <1>4

LEMMA Halves ==
  ASSUME NEW n \in Nat, n % 2 = 0
  PROVE  \E m \in Nat : \A i \in Nat \ {0} :
           /\ (i - 1) \div 2 \in Nat
           /\ i <= n => (i - 1) \div 2 < m
           /\ i \in {n + 1, n + 2} => (i - 1) \div 2 = m
           /\ n + 2 < i => /\ (i - 1) \div 2 > m
                          /\ ((i - 2) - 1) \div 2 = (i - 1) \div 2 - 1
<1>1. PICK m \in Nat : n = 2 * m
  OBVIOUS
<1>2. SUFFICES ASSUME NEW i \in Nat \ {0}
               PROVE  /\ (i - 1) \div 2 \in Nat
                      /\ i <= n => (i - 1) \div 2 < m
                      /\ i \in {n + 1, n + 2} => (i - 1) \div 2 = m
                      /\ n + 2 < i => /\ (i - 1) \div 2 > m
                                     /\ ((i - 2) - 1) \div 2 = (i - 1) \div 2 - 1
  BY <1>1
<1>3. PICK q \in Nat, r \in 0..1 : i - 1 = 2 * q + r
  <2>1. \A j \in Nat : \E q \in Nat, r \in 0..1 : j = 2 * q + r
    <3>1. \A j \in Nat : /\ j \div 2 \in Nat /\ j % 2 \in 0..1
                         /\ j = 2 * (j \div 2) + (j % 2)
      BY ONLY TRUE
    <3> QED
      BY ONLY <3>1
  <2>2. i - 1 \in Nat
    OBVIOUS
  <2> QED
    BY ONLY <2>1, <2>2
<1>4. (i - 1) \div 2 = q
  BY ONLY <1>3, q \in Nat, r \in 0..1, i \in Nat
<1>5. n + 2 < i => ((i - 2) - 1) \div 2 = q - 1
  BY ONLY <1>3, q \in Nat, r \in 0..1, i \in Nat, n \in Nat
<1>6. i <= n => q < m
  BY ONLY <1>1, <1>3, q \in Nat, r \in 0..1, i \in Nat, m \in Nat
<1>7. i \in {n + 1, n + 2} => q = m
  BY ONLY <1>1, <1>3, q \in Nat, r \in 0..1, i \in Nat, m \in Nat
<1>8. n + 2 < i => q > m
  BY ONLY <1>1, <1>3, q \in Nat, r \in 0..1, i \in Nat, m \in Nat
<1>9. (i - 1) \div 2 \in Nat /\ (n + 2 < i => ((i - 2) - 1) \div 2 = (i - 1) \div 2 - 1)
  BY ONLY <1>4, <1>5, q \in Nat
<1> QED
  BY ONLY <1>4, <1>6, <1>7, <1>8, <1>9

\* A new package, between packages, leaves the others whole.
LEMMA InsertPaired ==
  ASSUME NEW s \in Seq(Package), NEW t \in Seq(Package), NEW p \in Package,
         NEW n \in 0..Len(s), n % Unit = 0, Inserts(s, t, n, p),
         NEW x, p.to = x, Paired(s, x), Newest(s, p)
  PROVE  Paired(t, x)
<1> SUFFICES ASSUME NEW i \in DOMAIN t, NEW j \in DOMAIN t
             PROVE  /\ t[i].to = x
                    /\ t[i] = t[j] <=> (i - 1) \div 2 = (j - 1) \div 2
  BY DEF Paired, Unit
<1>1. n \in Nat /\ n % 2 = 0
  BY DEF Unit
<1>2. PICK a \in Nat : Place(s, t, n, p, i, a)
  BY Placed
<1>3. PICK b \in Nat : Place(s, t, n, p, j, b)
  BY Placed
<1>4. i \in Nat \ {0} /\ j \in Nat \ {0}
  OBVIOUS
<1>h. PICK m \in Nat : \A k \in Nat \ {0} :
        /\ (k - 1) \div 2 \in Nat
        /\ k <= n => (k - 1) \div 2 < m
        /\ k \in {n + 1, n + 2} => (k - 1) \div 2 = m
        /\ n + 2 < k => /\ (k - 1) \div 2 > m
                       /\ ((k - 2) - 1) \div 2 = (k - 1) \div 2 - 1
  BY ONLY <1>1, Halves
<1> DEFINE h(k) == (k - 1) \div 2
<1>k. \A k \in Nat \ {0} :
        /\ h(k) \in Nat
        /\ k <= n => h(k) < m
        /\ k \in {n + 1, n + 2} => h(k) = m
        /\ n + 2 < k => h(k) > m /\ h(k - 2) = h(k) - 1
  BY ONLY <1>h
<1>5. \A k \in DOMAIN s : s[k] # p /\ s[k].to = x
  <2>1. p.no \in Nat
    BY DEF Package
  <2> QED
    BY <2>1 DEF Newest, Paired
<1>6. \A k, l \in DOMAIN s : s[k] = s[l] <=> (k - 1) \div 2 = (l - 1) \div 2
  BY DEF Paired, Unit
<1>7. 0 \notin DOMAIN s /\ \A k \in DOMAIN s : k \in Nat
  OBVIOUS
<1>8. t[i].to = x
  BY <1>2, <1>5, p.to = x DEF Place
<1>9. t[i] = t[j] <=> (i - 1) \div 2 = (j - 1) \div 2
  <2>1. CASE a # 0 /\ b # 0
    <3>1. a \in DOMAIN s /\ b \in DOMAIN s /\ t[i] = s[a] /\ t[j] = s[b]
      BY <1>2, <1>3, <2>1 DEF Place
    <3>2. t[i] = t[j] <=> (a - 1) \div 2 = (b - 1) \div 2
      BY <1>6, <3>1
    <3>3. /\ (a = i /\ i <= n) \/ (a = i - 2 /\ n + 2 < i)
          /\ (b = j /\ j <= n) \/ (b = j - 2 /\ n + 2 < j)
      BY <1>2, <1>3, <2>1 DEF Place
    <3>4. h(a) = h(b) <=> h(i) = h(j)
      <4> HIDE DEF h
      <4>i. /\ h(i) \in Nat
            /\ i <= n => h(i) < m
            /\ n + 2 < i => h(i) > m /\ h(i - 2) = h(i) - 1
        BY ONLY <1>k, <1>4
      <4>j. /\ h(j) \in Nat
            /\ j <= n => h(j) < m
            /\ n + 2 < j => h(j) > m /\ h(j - 2) = h(j) - 1
        BY ONLY <1>k, <1>4
      <4>n. n \in Nat /\ i \in Nat /\ j \in Nat
        BY <1>1, <1>4
      <4>1. /\ i <= n => h(i) < m /\ h(a) = h(i)
            /\ ~(i <= n) => h(i) > m /\ h(a) = h(i) - 1
            /\ h(i) \in Nat
        BY ONLY <3>3, <4>i, <4>n
      <4>2. /\ j <= n => h(j) < m /\ h(b) = h(j)
            /\ ~(j <= n) => h(j) > m /\ h(b) = h(j) - 1
            /\ h(j) \in Nat
        BY ONLY <3>3, <4>j, <4>n
      <4> QED
        BY ONLY <4>1, <4>2, m \in Nat
    <3> QED
      BY <3>2, <3>4
  <2>2. CASE a = 0 /\ b = 0
    <3>1. i \in {n + 1, n + 2} /\ j \in {n + 1, n + 2} /\ t[i] = p /\ t[j] = p
      BY <1>2, <1>3, <1>7, <2>2 DEF Place
    <3>2. h(i) = m /\ h(j) = m
      BY ONLY <1>k, <1>4, <3>1
    <3> QED
      BY <3>1, <3>2
  <2>3. CASE a = 0 /\ b # 0
    <3>1. /\ i \in {n + 1, n + 2} /\ t[i] = p
          /\ b \in DOMAIN s /\ t[j] = s[b] /\ (j <= n \/ n + 2 < j)
      BY <1>2, <1>3, <1>7, <2>3 DEF Place
    <3>2. t[i] # t[j]
      BY <1>5, <3>1
    <3>3. h(i) # h(j)
      <4> HIDE DEF h
      <4> QED
        BY ONLY <1>k, <1>4, <3>1, m \in Nat
    <3> QED
      BY <3>2, <3>3
  <2>4. CASE a # 0 /\ b = 0
    <3>1. /\ j \in {n + 1, n + 2} /\ t[j] = p
          /\ a \in DOMAIN s /\ t[i] = s[a] /\ (i <= n \/ n + 2 < i)
      BY <1>2, <1>3, <1>7, <2>4 DEF Place
    <3>2. t[i] # t[j]
      BY <1>5, <3>1
    <3>3. h(i) # h(j)
      <4> HIDE DEF h
      <4> QED
        BY ONLY <1>k, <1>4, <3>1, m \in Nat
    <3> QED
      BY <3>2, <3>3
  <2> QED
    BY <2>1, <2>2, <2>3, <2>4
<1> QED
  BY <1>8, <1>9

\* p may come before the units behind the first n.
Passes(s, n, p) ==
  \A i \in DOMAIN s :
    n < i /\ s[i].by = p.by => p.kind = "D" /\ s[i].kind = "P"

\* It leaves them in order when those it passes are of low priority.
LEMMA InsertOrdered ==
  ASSUME NEW s \in Seq(Package), NEW t \in Seq(Package), NEW p \in Package,
         NEW n \in 0..Len(s), Inserts(s, t, n, p),
         Ordered(s), Newest(s, p), Passes(s, n, p)
  PROVE  Ordered(t)
<1> SUFFICES ASSUME NEW i \in DOMAIN t, NEW j \in DOMAIN t,
                    i < j, t[i].by = t[j].by, t[i].no > t[j].no
             PROVE  t[i].kind = "D" /\ t[j].kind = "P"
  BY DEF Ordered
<1>1. n \in Nat /\ p.no \in Nat /\ \A k \in DOMAIN s : k \in Nat /\ s[k].no \in Nat
  <2>1. \A q \in Package : q.no \in Nat
    BY DEF Package
  <2>2. \A k \in DOMAIN s : k \in Nat /\ s[k] \in Package
    OBVIOUS
  <2> QED
    BY <2>1, <2>2
<1>2. PICK a \in Nat : Place(s, t, n, p, i, a)
  BY Placed
<1>3. PICK b \in Nat : Place(s, t, n, p, j, b)
  BY Placed
<1>4. i \in Nat /\ j \in Nat
  BY Placed
<1>5. 0 \notin DOMAIN s
  OBVIOUS
<1>6. CASE a # 0 /\ b # 0
  <2>1. /\ a \in DOMAIN s /\ b \in DOMAIN s /\ t[i] = s[a] /\ t[j] = s[b]
        /\ (a = i /\ i <= n) \/ (a = i - 2 /\ n + 2 < i)
        /\ (b = j /\ j <= n) \/ (b = j - 2 /\ n + 2 < j)
    BY <1>2, <1>3, <1>6 DEF Place
  <2>2. a < b
    BY <1>1, <1>4, <2>1
  <2> QED
    BY <2>1, <2>2 DEF Ordered
<1>7. CASE a = 0 /\ b = 0
  <2>1. t[i] = t[j] /\ t[i] = p
    BY <1>2, <1>3, <1>5, <1>7 DEF Place
  <2> QED
    BY <1>1, <2>1
<1>8. CASE a = 0 /\ b # 0
  <2>1. /\ t[i] = p /\ b \in DOMAIN s /\ t[j] = s[b] /\ n + 1 <= i
        /\ (b = j /\ j <= n) \/ (b = j - 2 /\ n + 2 < j)
    BY <1>1, <1>2, <1>3, <1>5, <1>8 DEF Place
  <2>2. n < b
    BY <1>1, <1>4, <2>1
  <2> QED
    BY <2>1, <2>2 DEF Passes
<1>9. CASE a # 0 /\ b = 0
  <2>1. t[j] = p /\ a \in DOMAIN s /\ t[i] = s[a]
    BY <1>2, <1>3, <1>5, <1>9 DEF Place
  <2>2. s[a].no < p.no
    BY <2>1 DEF Newest
  <2> QED
    BY <1>1, <2>1, <2>2
<1> QED
  BY <1>6, <1>7, <1>8, <1>9

\* The beginning of a stream.
Begin(s, t) == t \in Seq(Package) /\ \E n \in 0..Len(s) : t = SubSeq(s, 1, n)

\* The first part of a stream is as good as the stream.
LEMMA BeginGood ==
  ASSUME NEW s \in Seq(Package), NEW t, Begin(s, t)
  PROVE  /\ \A i \in DOMAIN t : i \in DOMAIN s /\ t[i] = s[i]
         /\ \A x : Paired(s, x) => Paired(t, x)
         /\ Ordered(s) => Ordered(t)
         /\ s = <<>> => t = <<>>
<1>1. PICK n \in 0..Len(s) : t = SubSeq(s, 1, n)
  BY DEF Begin
<1>2. \A i \in DOMAIN t : i \in DOMAIN s /\ t[i] = s[i]
  BY <1>1
<1>3. \A x : Paired(s, x) => Paired(t, x)
  BY <1>2 DEF Paired
<1>4. Ordered(s) => Ordered(t)
  BY <1>2 DEF Ordered
<1>5. s = <<>> => t = <<>>
  BY <1>1
<1> QED
  BY <1>2, <1>3, <1>4, <1>5
-----------------------------------------------------------------------------
(* The units of a list, in part and in whole.                              *)

LEMMA ConcatAssoc ==
  \A a, b, c \in Seq(Package) : (a \o b) \o c = a \o (b \o c)
<1> DEFINE S == Package
<1> SUFFICES ASSUME NEW a \in Seq(S), NEW b \in Seq(S), NEW c \in Seq(S)
             PROVE  (a \o b) \o c = a \o (b \o c)
  OBVIOUS
<1>1. a \in Seq(S) /\ b \in Seq(S) /\ c \in Seq(S)
  OBVIOUS
<1> HIDE DEF S
<1> QED
  BY ONLY <1>1, ConcatAssociative, SMTT(60)

\* ConcatAssoc by name, for the steps that use it.
Grouped(a, b, c) == (a \o b) \o c = a \o (b \o c)

LEMMA AllGrouped ==
  \A a, b, c \in Seq(Package) : Grouped(a, b, c)
BY ConcatAssoc, Zenon DEF Grouped

LEMMA CopiesSplit ==
  ASSUME NEW b \in Buffer, NEW c \in Buffer, b.pkg = c.pkg, c.left <= b.left
  PROVE  \E w \in Seq(Package) :
           Len(w) = b.left - c.left /\ Copies(b) = w \o Copies(c)
<1> DEFINE m == b.left - c.left
           w == [i \in 1..m |-> b.pkg]
<1>1. b.pkg \in Package /\ b.left \in Nat /\ c.left \in Nat /\ m \in Nat
  BY DEF Buffer, Unit
<1>2. w \in Seq(Package) /\ Len(w) = m /\ \A i \in 1..m : w[i] = b.pkg
  BY <1>1
<1>3. /\ Copies(b) \in Seq(Package) /\ Len(Copies(b)) = b.left
      /\ \A i \in 1..b.left : Copies(b)[i] = b.pkg
  BY <1>1, CopiesType DEF Copies
<1>4. /\ Copies(c) \in Seq(Package) /\ Len(Copies(c)) = c.left
      /\ \A i \in 1..c.left : Copies(c)[i] = b.pkg
  BY <1>1, CopiesType DEF Copies
<1> HIDE DEF w
<1>5. /\ w \o Copies(c) \in Seq(Package) /\ Len(w \o Copies(c)) = b.left
      /\ \A i \in 1..b.left :
           (w \o Copies(c))[i] = IF i <= m THEN w[i] ELSE Copies(c)[i - m]
  <2>1. Len(w) + Len(Copies(c)) = b.left /\ Len(w) = m
    BY <1>1, <1>2, <1>4
  <2> DEFINE S == Package
             y == Copies(c)
  <2>2. w \in Seq(S) /\ y \in Seq(S)
    BY <1>2, <1>4
  <2> HIDE DEF S, y, m
  <2>3. /\ w \o y \in Seq(S) /\ Len(w \o y) = Len(w) + Len(y)
        /\ \A i \in 1..(Len(w) + Len(y)) :
             (w \o y)[i] = IF i <= Len(w) THEN w[i] ELSE y[i - Len(w)]
    BY ONLY <2>2, ConcatProperties
  <2> QED
    BY <2>1, <2>3 DEF S, y
<1>6. ASSUME NEW i \in 1..b.left
      PROVE  (w \o Copies(c))[i] = Copies(b)[i]
  <2>1. CASE i <= m
    BY <1>1, <1>2, <1>3, <1>5, <2>1
  <2>2. CASE ~(i <= m)
    <3>1. i - m \in 1..c.left
      BY <1>1, <2>2
    <3> QED
      BY <1>3, <1>4, <1>5, <2>2, <3>1
  <2> QED
    BY <2>1, <2>2
<1>7. Copies(b) = w \o Copies(c)
  BY <1>3, <1>5, <1>6, SeqEqual
<1> QED
  BY <1>2, <1>7

\* What After keeps: a part of one buffer and those behind it.
LEMMA AfterForm ==
  ASSUME NEW list \in Seq(Buffer), NEW u \in Nat, u < Len(Units(list))
  PROVE  \E i \in 1..Len(list), b \in Buffer :
           /\ b.pkg = list[i].pkg /\ b.left = Ends(list, i) - u
           /\ Ends(list, i - 1) <= u
           /\ After(list, u) = <<b>> \o SubSeq(list, i + 1, Len(list))
<1> DEFINE n == Len(list)
           rest == {i \in DOMAIN list : u < Ends(list, i)}
<1>1. n \in Nat /\ DOMAIN list = 1..n /\ rest \subseteq 1..n
  OBVIOUS
<1>2. Ends(list, n) = Len(Units(list)) /\ Ends(list, 0) = 0
  BY EndsStep
<1>3. n \in rest
  <2>1. n # 0
    BY <1>2
  <2> QED
    BY <1>1, <1>2, <2>1
<1>4. PICK i \in rest : \A j \in rest : i <= j
  <2>1. rest \subseteq Nat /\ rest # {}
    BY <1>1, <1>3
  <2> HIDE DEF rest
  <2> QED
    BY <2>1, Least
<1>5. Min(rest) = i
  <2>1. \A j \in rest : j \in Nat
    BY <1>1
  <2> HIDE DEF rest
  <2>2. \A x \in rest : (\A y \in rest : x <= y) => x = i
    BY <1>4, <2>1
  <2> QED
    BY <1>4, <2>2 DEF Min
<1> DEFINE b == [list[i] EXCEPT !.left = Ends(list, i) - u]
<1>6. After(list, u) = <<b>> \o SubSeq(list, i + 1, n)
  BY <1>3, <1>5 DEF After
<1>7. i \in 1..n /\ u < Ends(list, i) /\ list[i] \in Buffer
  BY <1>1
<1>8. /\ Ends(list, i) \in Nat /\ Ends(list, i - 1) \in Nat
      /\ Ends(list, i) = Ends(list, i - 1) + list[i].left
  BY <1>7, EndsStep
<1>9. Ends(list, i - 1) <= u
  <2>1. CASE i = 1
    BY <1>2, <2>1
  <2>2. CASE i # 1
    <3>1. i - 1 \in DOMAIN list /\ ~(i <= i - 1)
      BY <1>1, <1>7, <2>2
    <3>2. i - 1 \notin rest
      BY <1>4, <3>1
    <3> QED
      BY <1>8, <3>1, <3>2
  <2> QED
    BY <2>1, <2>2
<1>10. Ends(list, i) - u \in 1..Unit
  BY <1>7, <1>8, <1>9 DEF Buffer, Unit
<1>11. b \in Buffer /\ b.left = Ends(list, i) - u /\ b.pkg = list[i].pkg
  BY <1>7, <1>10 DEF Buffer
<1> HIDE DEF b
<1> QED
  BY <1>6, <1>7, <1>9, <1>11

\* The units of a list are those written of it and those left.
LEMMA UnitsAfter ==
  ASSUME NEW list \in Seq(Buffer), NEW u \in Nat, u <= Len(Units(list))
  PROVE  \E w \in Seq(Package) :
           Len(w) = u /\ Units(list) = w \o Units(After(list, u))
<1>0. Units(list) \in Seq(Package) /\ Len(Units(list)) \in Nat
  BY UnitsConcat, UnitsLen
<1>1. CASE u = Len(Units(list))
  <2>1. After(list, u) = <<>>
    BY <1>0, <1>1, AfterFacts
  <2>2. Units(list) \o <<>> = Units(list)
    BY <1>0, ConcatEmptySeq
  <2> QED
    BY <1>0, <1>1, <2>1, <2>2, UnitsEmpty
<1>2. CASE u < Len(Units(list))
  <2>1. PICK i \in 1..Len(list), b \in Buffer :
           /\ b.pkg = list[i].pkg /\ b.left = Ends(list, i) - u
           /\ Ends(list, i - 1) <= u
           /\ After(list, u) = <<b>> \o SubSeq(list, i + 1, Len(list))
    BY <1>2, AfterForm
  <2> DEFINE a == SubSeq(list, 1, i - 1)
             c == list[i]
             z == SubSeq(list, i + 1, Len(list))
  <2>2. /\ a \in Seq(Buffer) /\ z \in Seq(Buffer) /\ c \in Buffer
        /\ list = Append(a, c) \o z
    <3>1. c \in Buffer
      OBVIOUS
    <3>2. list = SubSeq(list, 1, i) \o z /\ SubSeq(list, 1, i) = Append(a, c)
          /\ a \in Seq(Buffer) /\ z \in Seq(Buffer)
      BY ListSplit
    <3> QED
      BY <3>1, <3>2
  <2>3. /\ Ends(list, i - 1) \in Nat /\ Ends(list, i) = Ends(list, i - 1) + c.left
    BY EndsStep
  <2>4. Ends(list, i - 1) = Len(Units(a))
    BY DEF Ends
  <2>5. After(list, u) = <<b>> \o z
    BY <2>1
  <2>6. b.pkg = c.pkg
    BY <2>1
  <2> HIDE DEF a, c, z
  <2>7. b.left = Ends(list, i) - u /\ Len(Units(a)) <= u
    BY <2>1, <2>4
  <2>8. /\ Len(Units(a)) \in Nat /\ c.left \in Nat /\ b.left \in Nat
        /\ b.left = Len(Units(a)) + c.left - u
    <3>1. Len(Units(a)) \in Nat /\ c.left \in Nat /\ b.left \in Nat
      BY <2>2, UnitsLen, CopiesType
    <3> QED
      BY <2>3, <2>4, <2>7, <3>1
  <2>9. PICK v \in Seq(Package) : Len(v) = c.left - b.left /\ Copies(c) = v \o Copies(b)
    <3>1. b.left <= c.left
      BY <2>7, <2>8
    <3> QED
      BY <2>2, <2>6, <3>1, CopiesSplit
  <2> DEFINE A == Units(a)
             B == Copies(b)
             Z == Units(z)
             w == A \o v
  <2>10. A \in Seq(Package) /\ B \in Seq(Package) /\ Z \in Seq(Package)
    BY <2>2, UnitsConcat, CopiesType
  <2>11. Units(list) = (A \o (v \o B)) \o Z
    <3>1. Append(a, c) \in Seq(Buffer)
      BY <2>2
    <3>2. Units(Append(a, c) \o z) = Units(Append(a, c)) \o Z
      BY <2>2, <3>1, UnitsConcat
    <3>3. Units(Append(a, c)) = A \o Copies(c)
      BY <2>2, UnitsAppend
    <3> QED
      BY <2>2, <2>9, <3>2, <3>3
  <2>12. Units(After(list, u)) = B \o Z
    <3>1. <<b>> \in Seq(Buffer)
      OBVIOUS
    <3>2. Units(<<b>> \o z) = Units(<<b>>) \o Units(z)
      BY <2>2, <3>1, UnitsConcat
    <3> QED
      BY <2>5, <3>2, UnitsOne
  <2> HIDE DEF A, B, Z
  <2>13. w \in Seq(Package) /\ Len(w) = u
    <3>1. w \in Seq(Package) /\ Len(w) = Len(A) + Len(v)
      BY <2>10, ConcatProperties
    <3> HIDE DEF w
    <3>2. Len(A) = Len(Units(a))
      BY DEF A
    <3>3. \A x1, x2, x3, x4 \in Nat : x3 = x1 + x2 - x4 => x1 + (x2 - x3) = x4
      OBVIOUS
    <3>4. Len(Units(a)) + (c.left - b.left) = u
      BY ONLY u \in Nat, <2>8, <3>3
    <3>5. Len(v) = c.left - b.left
      BY <2>9
    <3> QED
      BY ONLY <3>1, <3>2, <3>4, <3>5
  <2>14. (A \o (v \o B)) \o Z = w \o (B \o Z)
    <3>1. /\ A \in Seq(Package) /\ B \in Seq(Package) /\ Z \in Seq(Package)
          /\ v \in Seq(Package) /\ w \in Seq(Package)
      BY <2>10, <2>13
    <3>2. w = A \o v
      OBVIOUS
    <3> HIDE DEF w
    <3>3. Grouped(A, v, B) /\ Grouped(w, B, Z)
      BY ONLY <3>1, AllGrouped
    <3> QED
      BY ONLY <3>2, <3>3, Zenon DEF Grouped
  <2> HIDE DEF w
  <2> QED
    BY <2>11, <2>12, <2>13, <2>14
<1>3. u = Len(Units(list)) \/ u < Len(Units(list))
  BY <1>0
<1> QED
  BY <1>1, <1>2, <1>3, Zenon

\* A list of whole packages has an even number of units.
LEMMA WholeEven ==
  ASSUME NEW list \in Seq(Buffer), Whole(list, 1)
  PROVE  Len(Units(list)) % 2 = 0
<1> DEFINE n == Len(list)
           T == {i \in 0..n : Ends(list, i) % 2 # 0}
<1>1. n \in Nat
  OBVIOUS
<1>2. T = {}
  <2> SUFFICES ASSUME T # {} PROVE FALSE
    OBVIOUS
  <2>1. PICK i \in T : \A j \in T : i <= j
    <3>1. T \subseteq Nat
      BY <1>1
    <3> HIDE DEF T
    <3> QED
      BY <3>1, Least
  <2>2. i # 0
    BY EndsStep
  <2>3. i \in 1..n /\ i - 1 \in 0..n /\ ~(i <= i - 1) /\ i \in DOMAIN list /\ 1 <= i
    BY <1>1, <2>2
  <2>4. Ends(list, i - 1) % 2 = 0
    BY <2>1, <2>3
  <2>5. /\ Ends(list, i - 1) \in Nat
        /\ Ends(list, i) = Ends(list, i - 1) + list[i].left
    BY <2>3, EndsStep
  <2>6. list[i].left = 2
    BY <2>3 DEF Whole, Unit
  <2>7. Ends(list, i) % 2 # 0
    OBVIOUS
  <2> DEFINE e == Ends(list, i - 1)
  <2>8. e \in Nat /\ e % 2 = 0 /\ (e + 2) % 2 # 0
    BY <2>4, <2>5, <2>6, <2>7
  <2> HIDE DEF e
  <2> QED
    BY ONLY <2>8
<1>3. n \in 0..n /\ n \notin T
  BY <1>1, <1>2
<1> QED
  BY <1>3, EndsStep
-----------------------------------------------------------------------------
(* What a step does to the slots, as far as the streams are concerned.     *)

Kept(k) ==
  /\ slot'[k].id = slot[k].id /\ slot'[k].high = slot[k].high
  /\ slot'[k].low = slot[k].low /\ dw'[k] = dw[k]

KeptBut(k) == \A j \in Slot \ {k} : Kept(j)

\* A connection that takes no bytes does not take any later.
Dying == \A x \in Id : peer'[x] \in {"open", "fin"} => peer[x] \in {"open", "fin"}

Quiet == (\A k \in Slot : Kept(k)) /\ UNCHANGED wire /\ Dying

\* The lists of k are freed: nothing was sent, or nothing can be.
Empties(k) ==
  /\ k \in Slot /\ KeptBut(k) /\ UNCHANGED <<wire, peer, dw>>
  /\ slot'[k].id = slot[k].id /\ BufferEmpty(slot'[k])
  /\ ~Live(slot[k].id) \/ (slot[k].id \in Id /\ "open" \notin told[slot[k].id])

\* The connection of k is closed or given up.
Breaks(k) ==
  /\ k \in Slot /\ KeptBut(k) /\ UNCHANGED wire /\ Dying
  /\ lock[k] = None
  /\ slot'[k].id = slot[k].id /\ slot[k].id \in Id
  /\ peer'[slot[k].id] \notin {"open", "fin"}
  /\ slot'[k].low = slot[k].low \/ slot'[k].low = <<>>

Queues(k) ==
  /\ k \in Slot /\ Alive(k) /\ Command("D") /\ slot[k].id = Head(pipe).id
  /\ slot' = [slot EXCEPT ![k] = Queued(@, Head(pipe).pkg)]
  /\ UNCHANGED <<dw, peer>>

\* A slot is taken by x.
News(x) ==
  LET k == HASH(x) IN
  /\ x \in Id /\ ~Alive(k) /\ KeptBut(k) /\ UNCHANGED wire
  /\ slot'[k].id = x /\ BufferEmpty(slot'[k]) /\ dw'[k] = None
  /\ "open" \notin told[x]
  /\ \A y \in Id \ {x} : peer'[y] = peer[y]

LEMMA PutsKept ==
  ASSUME TypeOK, NEW k \in Slot, NEW t, Puts(k, t), UNCHANGED dw
  PROVE  /\ KeptBut(k) /\ slot'[k] = t
         /\ Lists(slot[k], t) => \A j \in Slot : Kept(j)
<1>1. \A j \in Slot : slot'[j] = IF j = k THEN t ELSE slot[j]
  BY PutsAt
<1>2. KeptBut(k) /\ slot'[k] = t
  BY <1>1 DEF KeptBut, Kept
<1>3. Lists(slot[k], t) => Kept(k)
  BY <1>2 DEF Lists, Kept
<1> QED
  BY <1>2, <1>3 DEF KeptBut

LEMMA SlotsQuiet ==
  ASSUME UNCHANGED <<slot, dw, wire>>, Dying
  PROVE  Quiet
BY DEF Quiet, Kept

LEMMA PeerDying ==
  ASSUME UNCHANGED peer
  PROVE  Dying
BY DEF Dying

LEMMA DeadDying ==
  ASSUME TypeOK, NEW x, NEW v, v \notin {"open", "fin"},
         peer' = [peer EXCEPT ![x] = v]
  PROVE  Dying /\ (x \in Id => peer'[x] = v)
BY DEF Dying, TypeOK

LEMMA SendingQuiet ==
  ASSUME SocketInv, ~failed, NEW c \in Sender, Sending(c), ~DirectWrite(c)
  PROVE  Quiet
<1>1. UNCHANGED <<slot, peer>>
  BY SendingFrame, Parts
<1>2. UNCHANGED <<dw, wire>>
  BY DEF Sending, SenderStep, Send, TryLock, DoubleCheck, Trigger, IncSending, SendRequest,
         slotVars, netVars
<1> QED
  BY <1>1, <1>2, SlotsQuiet, PeerDying

LEMMA PeerQuiet ==
  ASSUME TypeOK, Peer
  PROVE  Quiet
<1>1. UNCHANGED <<slot, dw, wire>>
  BY PeerFrame DEF slotVars
<1>2. Dying
  BY DEF Peer, PeerCloses, PeerResets, PeerSet, Dying, TypeOK
<1> QED
  BY <1>1, <1>2, SlotsQuiet

LEMMA AskingQuiet ==
  ASSUME Asking
  PROVE  Quiet
<1>1. UNCHANGED <<slot, dw, wire, peer>>
  BY AskingFrame DEF slotVars, netVars
<1> QED
  BY <1>1, SlotsQuiet, PeerDying

LEMMA IdleQuiet ==
  ASSUME TypeOK, Idle
  PROVE  Quiet
<1>1. UNCHANGED <<slot, dw, wire>>
  BY IdleFrame DEF slotVars
<1>2. CASE UNCHANGED peer
  BY <1>1, <1>2, SlotsQuiet, PeerDying
<1>3. ASSUME NEW e \in ev \ {None}, ReadError(e) \/ ErrorEvent(e)
      PROVE  Dying
  <2>1. \/ UNCHANGED peer
        \/ peer' = [peer EXCEPT ![slot[e.s].id] = "dead"]
    BY <1>3 DEF ReadError, ErrorEvent
  <2> QED
    BY <2>1, PeerDying, DeadDying
<1>4. \/ UNCHANGED peer
      \/ \E e \in ev \ {None} : ReadError(e) \/ ErrorEvent(e)
  BY DEF Idle, NoCommand, AcceptDropped, Wait, InvalidEvent, ReadData, WriteBlocked, netVars
<1> QED
  BY <1>1, <1>2, <1>3, <1>4, SlotsQuiet

\* Lists that are freed when there is nothing in them, or no connection any more.
LEMMA FreesLists ==
  ASSUME TypeOK, NEW k \in Slot, NEW raise, ForceCloseAt(k, raise),
         UNCHANGED <<dw, wire, peer>>,
         \/ BufferEmpty(slot[k])
         \/ ~Live(slot[k].id)
         \/ slot[k].id \in Id /\ "open" \notin told[slot[k].id]
  PROVE  Quiet \/ Empties(k)
<1>1. Puts(k, Freed(slot[k]))
  BY ForceCloseAtPuts
<1>2. Same(slot[k], Freed(slot[k])) /\ BufferEmpty(Freed(slot[k]))
  BY FreedFacts DEF TypeOK
<1>3. KeptBut(k) /\ slot'[k] = Freed(slot[k])
  BY <1>1, PutsKept
<1>4. slot'[k].id = slot[k].id /\ BufferEmpty(slot'[k])
  BY <1>2, <1>3 DEF Same
<1>5. CASE BufferEmpty(slot[k])
  <2>1. Kept(k)
    BY <1>4, <1>5 DEF Kept, BufferEmpty
  <2> QED
    BY <1>3, <2>1, PeerDying DEF Quiet, KeptBut
<1>6. CASE ~BufferEmpty(slot[k])
  BY <1>3, <1>4, <1>6 DEF Empties
<1> QED
  BY <1>5, <1>6

\* Somebody has nothing more to send: nothing waits, or the socket is half closed.
LEMMA NoMore ==
  ASSUME EndInv, NEW k \in Slot, NoMoreSending(k)
  PROVE  BufferEmpty(slot[k]) \/ ~Live(slot[k].id)
BY DEF NoMoreSending, EndInv

LEMMA CommandFrame ==
  ASSUME NEW cmd, Command(cmd)
  PROVE  UNCHANGED <<alloc, lock, senderVars, wire>>
BY DEF Command

LEMMA ResumeQuiet ==
  ASSUME SocketInv, ~failed, ResumeSocket
  PROVE  Quiet
<1>1. TypeOK /\ IdInv
  BY Parts
<1>2. UNCHANGED <<dw, peer, wire>>
  BY CommandFrame DEF ResumeSocket
<1>3. HASH(Head(pipe).id) \in Slot
  BY <1>1, HeadPipe DEF ResumeSocket, Command
<1>4. CASE UNCHANGED slot
  BY <1>2, <1>4, SlotsQuiet, PeerDying
<1>5. CASE ~UNCHANGED slot
  <2>1. PICK t : Puts(HASH(Head(pipe).id), t) /\ Lists(slot[HASH(Head(pipe).id)], t)
    BY <1>1, <1>5, ResumeSocketPuts
  <2> QED
    BY <1>1, <1>2, <1>3, <2>1, PutsKept, PeerDying DEF Quiet
<1> QED
  BY <1>4, <1>5

LEMMA CloseQuiet ==
  ASSUME SocketInv, ~failed, EndInv, NEW cmd \in {"K", "X"}, CloseSocket(cmd)
  PROVE  Quiet \/ \E k \in Slot : Empties(k)
<1>1. TypeOK /\ IdInv
  BY Parts
<1> DEFINE x == Head(pipe).id
           k == HASH(x)
<1>2. UNCHANGED <<dw, peer, wire>> /\ pipe # <<>> /\ Head(pipe).cmd = cmd
  BY CommandFrame DEF CloseSocket, Command
<1>3. k \in Slot /\ cmd # "X"
  BY <1>1, <1>2, HeadPipe DEF EndInv
<1>4. CASE UNCHANGED slot
  BY <1>2, <1>4, SlotsQuiet, PeerDying
<1>5. CASE ForceCloseAt(k, Raises(k)) /\ ~UNCHANGED slot
  <2>1. NoMoreSending(k) \/ slot' = [slot EXCEPT ![k].closing = TRUE, ![k].reading = FALSE,
                                  ![k].type = "halfclose_read"]
    BY <1>3, <1>5 DEF CloseSocket
  <2>2. CASE NoMoreSending(k)
    BY <1>1, <1>2, <1>3, <1>5, <2>2, NoMore, FreesLists
  <2>3. CASE ~NoMoreSending(k)
    <3>1. UNCHANGED force
      BY <1>3, <1>5, <2>3 DEF CloseSocket
    <3>2. force = None /\ force' # None
      <4>1. force = None
        BY DEF CloseSocket, Command
      <4> QED
        BY <1>3, <1>5, <4>1, <3>1, SocketServerAssumption DEF ForceCloseAt, Raises, Slot
    <3> QED
      BY <3>1, <3>2
  <2> QED
    BY <2>2, <2>3
<1>6. ASSUME NEW t, Puts(k, t), Lists(slot[k], t)
      PROVE  Quiet
  BY <1>1, <1>2, <1>3, <1>6, PutsKept, PeerDying DEF Quiet
<1>7. \/ UNCHANGED slot
      \/ ForceCloseAt(k, Raises(k))
      \/ \E t : Puts(k, t) /\ Lists(slot[k], t)
  BY <1>1, CloseSocketPuts
<1> QED
  BY <1>3, <1>4, <1>5, <1>6, <1>7

LEMMA TriggerQuiet ==
  ASSUME SocketInv, ~failed, TriggerWrite
  PROVE  Quiet
<1>1. TypeOK /\ IdInv
  BY Parts
<1>2. UNCHANGED <<dw, peer, wire>>
  BY CommandFrame DEF TriggerWrite
<1>3. HASH(Head(pipe).id) \in Slot
  BY <1>1, HeadPipe DEF TriggerWrite, Command
<1>4. CASE UNCHANGED slot
  BY <1>2, <1>4, SlotsQuiet, PeerDying
<1>5. CASE ~UNCHANGED slot
  <2>1. PICK t : Puts(HASH(Head(pipe).id), t) /\ Lists(slot[HASH(Head(pipe).id)], t)
    BY <1>1, <1>5, TriggerWritePuts
  <2> QED
    BY <1>1, <1>2, <1>3, <2>1, PutsKept, PeerDying DEF Quiet
<1> QED
  BY <1>4, <1>5

LEMMA SendQueues ==
  ASSUME SocketInv, ~failed, SendSocket
  PROVE  Quiet \/ \E k \in Slot : Queues(k)
<1>1. TypeOK /\ IdInv /\ ToldInv /\ SizeInv
  BY Parts
<1> DEFINE x == Head(pipe).id
           p == Head(pipe).pkg
           k == HASH(x)
<1>2. UNCHANGED <<dw, peer, wire>> /\ Command("D")
  BY CommandFrame DEF SendSocket
<1>3. k \in Slot /\ p.to = x
  BY <1>1, <1>2, HeadPipe, SendSocketPuts DEF Command
<1>4. CASE UNCHANGED slot
  BY <1>2, <1>4, SlotsQuiet, PeerDying
<1>5. CASE ~UNCHANGED slot
  <2>1. slot' = [slot EXCEPT ![k] = Queued(@, p)]
    BY <1>3, <1>5 DEF SendSocket
  <2>2. slot[k].id = x /\ Alive(k)
    BY <1>1, <1>5, SendSocketPuts
  <2> QED
    BY <1>2, <1>3, <2>1, <2>2 DEF Queues
<1> QED
  BY <1>4, <1>5

LEMMA LeftDead ==
  ASSUME NEW end
  PROVE  Left(end) \notin {"open", "fin"}
BY DEF Left

LEMMA ForceBreaks ==
  ASSUME SocketInv, ~failed, ForceClose
  PROVE  Breaks(force.s)
<1>1. TypeOK /\ IdInv /\ ForceInv /\ CloseInv
  BY Parts
<1> DEFINE k == force.s
           x == slot[k].id
<1>2. /\ k \in Slot /\ Alive(k) /\ lock[k] = None
      /\ Puts(k, ForceClosed(slot[k]))
      /\ dw' = [dw EXCEPT ![k] = None]
  BY <1>1, ForceClosePuts
<1>3. x \in Id /\ slot[k] \in Socket
  BY <1>1, <1>2, AliveId DEF Alive, TypeOK
<1>4. ForceClosed(slot[k]).id = x /\ ForceClosed(slot[k]).low = slot[k].low
  BY <1>3, FreedFacts
<1>5. /\ \A j \in Slot \ {k} : slot'[j] = slot[j] /\ dw'[j] = dw[j]
      /\ slot'[k] = ForceClosed(slot[k])
  <2>1. \A j \in Slot : slot'[j] = IF j = k THEN ForceClosed(slot[k]) ELSE slot[j]
    BY <1>1, <1>2, PutsAt
  <2> QED
    BY <1>1, <1>2, <2>1 DEF TypeOK
<1>6. KeptBut(k)
  BY <1>5 DEF KeptBut, Kept
<1>7. peer' = [peer EXCEPT ![x] = Left(peer[x])] /\ UNCHANGED wire
  BY DEF ForceClose
<1>8. Dying /\ peer'[x] \notin {"open", "fin"}
  BY <1>1, <1>3, <1>7, LeftDead, DeadDying
<1> QED
  BY <1>2, <1>3, <1>4, <1>5, <1>6, <1>7, <1>8 DEF Breaks

LEMMA ConnectsQuiet ==
  ASSUME SocketInv, ~failed, EndInv, NEW e \in ev \ {None}, ReportConnect(e)
  PROVE  Quiet \/ \E k \in Slot : Empties(k)
<1>1. TypeOK /\ IdInv /\ CloseInv
  BY Parts
<1> DEFINE k == e.s
<1>2. k \in Slot
  BY <1>1, EventSlot
<1>3. UNCHANGED <<dw, wire, peer>>
  BY DEF ReportConnect, netVars
<1>4. slot[k].type = "connecting"
  BY <1>1, ReportConnectPuts
<1>5. slot[k].id \in Id
  BY <1>1, <1>2, <1>4, AliveId
<1>6. CASE ForceCloseAt(k, "err")
  <2>1. "open" \notin told[slot[k].id]
    BY <1>2, <1>4 DEF EndInv
  <2> QED
    BY <1>1, <1>2, <1>3, <1>5, <1>6, <2>1, FreesLists
<1>7. ASSUME NEW t, Puts(k, t), Lists(slot[k], t)
      PROVE  Quiet
  BY <1>1, <1>2, <1>3, <1>7, PutsKept, PeerDying DEF Quiet
<1>8. ForceCloseAt(k, "err") \/ \E t : Puts(k, t) /\ Lists(slot[k], t)
  BY <1>1, ReportConnectPuts
<1> QED
  BY <1>2, <1>6, <1>7, <1>8

LEMMA ReadEndQuiet ==
  ASSUME SocketInv, ~failed, EndInv, NEW e \in ev \ {None}, ReadEnd(e)
  PROVE  Quiet \/ \E k \in Slot : Empties(k)
<1>1. TypeOK
  BY Parts
<1> DEFINE k == e.s
<1>2. k \in Slot
  BY <1>1, EventSlot
<1>3. UNCHANGED <<dw, wire, peer>>
  BY DEF ReadEnd, netVars
<1>4. CASE UNCHANGED slot
  BY <1>3, <1>4, SlotsQuiet, PeerDying
<1>5. ASSUME NEW raise, ForceCloseAt(k, raise),
             NoMoreSending(k) \/ slot[k].type = "halfclose_write"
      PROVE  Quiet \/ Empties(k)
  <2>1. BufferEmpty(slot[k]) \/ ~Live(slot[k].id)
    BY <1>2, <1>5, NoMore DEF EndInv
  <2> QED
    BY <1>1, <1>2, <1>3, <1>5, <2>1, FreesLists
<1>6. CASE \E t : Puts(k, t) /\ Lists(slot[k], t)
  BY <1>1, <1>2, <1>3, <1>6, PutsKept, PeerDying DEF Quiet
<1>7. \/ UNCHANGED slot
      \/ NoMoreSending(k) /\ ForceCloseAt(k, "none")
      \/ slot[k].type = "halfclose_write" /\ ForceCloseAt(k, "close")
      \/ slot' = [slot EXCEPT ![k].type = "halfclose_read", ![k].reading = FALSE]
  BY DEF ReadEnd
<1>8. slot' = [slot EXCEPT ![k].type = "halfclose_read", ![k].reading = FALSE]
        => \E t : Puts(k, t) /\ Lists(slot[k], t)
  <2> DEFINE t == [slot[k] EXCEPT !.type = "halfclose_read", !.reading = FALSE]
  <2>1. slot[k] \in Socket /\ "halfclose_read" \in Types
    BY <1>1, <1>2 DEF TypeOK, Types
  <2>2. t \in Socket /\ Lists(slot[k], t)
    BY <2>1, FieldsSet
  <2>3. slot' = [slot EXCEPT ![k].type = "halfclose_read", ![k].reading = FALSE]
          => slot' = [slot EXCEPT ![k] = t]
    OBVIOUS
  <2> HIDE DEF t
  <2> QED
    BY <1>2, <2>2, <2>3 DEF Puts
<1> QED
  BY <1>2, <1>4, <1>5, <1>6, <1>7, <1>8

LEMMA EofQuiet ==
  ASSUME SocketInv, ~failed, EndInv, NEW e \in ev \ {None}, EofEvent(e)
  PROVE  Quiet \/ \E k \in Slot : Empties(k)
<1>1. TypeOK /\ e.s \in Slot
  BY Parts, EventSlot
<1>2. UNCHANGED <<dw, wire, peer>> /\ ForceCloseAt(e.s, Raises(e.s)) /\ e.end = "hup"
  BY DEF EofEvent, netVars
<1>3. ~Live(slot[e.s].id)
  BY <1>2 DEF EndInv
<1> QED
  BY <1>1, <1>2, <1>3, FreesLists

LEMMA WriteErrorBreaks ==
  ASSUME SocketInv, ~failed, NEW e \in ev \ {None}, WriteError(e)
  PROVE  Breaks(e.s)
<1>1. TypeOK /\ FreshInv /\ SizeInv /\ IdInv /\ CloseInv
  BY Parts
<1> DEFINE k == e.s
           s == Merged(k)
           x == slot[k].id
<1>2. /\ s \in Socket /\ Same(slot[k], s) /\ Alive(k) /\ lock[k] = None
      /\ dw' = [dw EXCEPT ![k] = None]
      /\ \/ Puts(k, ForceClosed(Freed(s)))
         \/ Puts(k, s)
         \/ \E t : Puts(k, t) /\ Lists(s, t)
  BY <1>1, WriteErrorPuts
<1>3. k \in Slot
  BY <1>1, EventSlot
<1>4. x \in Id /\ s.low = slot[k].low /\ s.id = x
  BY <1>1, <1>2, <1>3, AliveId, MergedFacts DEF Alive, Same
<1>5. PICK t : /\ Puts(k, t) /\ t.id = x
               /\ t.low = slot[k].low \/ t.low = <<>>
  <2>1. Freed(s) \in Socket /\ Freed(s).low = <<>> /\ Freed(s).id = x
    BY <1>2, <1>4, FreedFacts DEF Same, BufferEmpty
  <2>2. ForceClosed(Freed(s)).low = <<>> /\ ForceClosed(Freed(s)).id = x
    BY <2>1, FreedFacts
  <2> QED
    BY <1>2, <1>4, <2>2 DEF Lists
<1>6. /\ \A j \in Slot \ {k} : slot'[j] = slot[j] /\ dw'[j] = dw[j]
      /\ slot'[k] = t
  <2>1. \A j \in Slot : slot'[j] = IF j = k THEN t ELSE slot[j]
    BY <1>1, <1>3, <1>5, PutsAt
  <2> QED
    BY <1>1, <1>2, <1>3, <2>1 DEF TypeOK
<1>7. KeptBut(k) /\ UNCHANGED wire
  BY <1>6 DEF KeptBut, Kept, WriteError
<1>8. Dying /\ peer'[x] \notin {"open", "fin"}
  <2>1. peer[x] \in {"rst", "dead"}
    BY <1>2 DEF WriteError, Alive
  <2>2. peer' = [peer EXCEPT ![x] = "dead"] \/ UNCHANGED peer
    BY DEF WriteError
  <2> QED
    BY <1>1, <1>4, <2>1, <2>2, DeadDying, PeerDying
<1> QED
  BY <1>2, <1>3, <1>4, <1>5, <1>6, <1>7, <1>8 DEF Breaks

LEMMA BeginsNews ==
  ASSUME SocketInv, ~failed, NEW x \in Id, NEW t, Begins(x, t),
         ~Alive(HASH(x)), "open" \notin told[x], UNCHANGED wire,
         peer' = [peer EXCEPT ![x] = "open"]
  PROVE  News(x)
<1> DEFINE k == HASH(x)
<1>1. /\ slot'[k] = t /\ dw'[k] = None
      /\ \A j \in Slot \ {k} : slot'[j] = slot[j] /\ dw'[j] = dw[j]
  BY BeginsFacts
<1>2. t.id = x /\ BufferEmpty(t)
  BY DEF Begins, BufferEmpty
<1>3. KeptBut(k)
  BY <1>1 DEF KeptBut, Kept
<1>4. \A y \in Id \ {x} : peer'[y] = peer[y]
  BY Parts DEF TypeOK
<1> QED
  BY <1>1, <1>2, <1>3, <1>4 DEF News

LEMMA ConnectNews ==
  ASSUME SocketInv, ~failed, NEW x \in Id, Connect(x)
  PROVE  News(x)
<1> DEFINE k == HASH(x)
<1>1. /\ alloc < x /\ slot[k].type = "invalid"
      /\ slot'[k].id = x /\ BufferEmpty(slot'[k])
      /\ \A j \in Slot \ {k} : slot'[j] = slot[j]
      /\ UNCHANGED <<dw, netVars>>
  BY ConnectFacts
<1>2. KeptBut(k) /\ ~Alive(k)
  BY <1>1 DEF KeptBut, Kept, Alive
<1>3. k \in Slot
  BY HashSlot DEF Id
<1>4. "open" \notin told[x]
  BY <1>1, Parts DEF IdInv
<1>5. dw'[k] = None
  BY <1>1, <1>2, <1>3, Parts DEF FreshInv
<1> QED
  BY <1>1, <1>2, <1>4, <1>5 DEF News, netVars

LEMMA AcceptNews ==
  ASSUME SocketInv, ~failed, NEW x \in Id, Accept(x)
  PROVE  News(x)
<1>1. /\ alloc < x /\ slot[HASH(x)].type = "invalid" /\ \E t : Begins(x, t)
      /\ UNCHANGED wire
  BY AcceptFacts
<1>2. peer' = [peer EXCEPT ![x] = "open"]
  BY DEF Accept
<1>3. "open" \notin told[x]
  BY <1>1, Parts DEF IdInv
<1> QED
  BY <1>1, <1>2, <1>3, BeginsNews DEF Alive

LEMMA OpenNews ==
  ASSUME SocketInv, ~failed, OpenSocket
  PROVE  Quiet \/ (Head(pipe).id \in Id /\ News(Head(pipe).id))
<1> DEFINE x == Head(pipe).id
           k == HASH(x)
<1>1. /\ x \in Id /\ k \in Slot /\ slot[k].type = "reserve" /\ slot[k].id = x
      /\ BufferEmpty(slot[k]) /\ told[x] \subseteq {"err"} /\ UNCHANGED wire
      /\ \/ /\ \E t : /\ Puts(k, t) /\ t.type = "invalid" /\ t.id = x
                      /\ t.high = <<>> /\ t.low = <<>>
            /\ UNCHANGED dw
            /\ Tell(x, "err")
         \/ \E t : /\ Begins(x, t)
                   /\ TellNothing \/ Tell(x, "open")
  BY OpenFacts
<1>2. TypeOK
  BY Parts
<1>3. CASE slot' = [slot EXCEPT ![k].type = "invalid"] /\ UNCHANGED <<dw, peer>>
  <2>1. \A j \in Slot : Kept(j)
    BY <1>1, <1>2, <1>3 DEF Kept, TypeOK, Socket
  <2> QED
    BY <1>1, <1>3, <2>1, PeerDying DEF Quiet
<1>4. ASSUME NEW type \in {"connecting", "connected"}, NEW writing \in BOOLEAN,
             NewFd(x, type, TRUE, writing)
      PROVE  News(x)
  <2> DEFINE t == [type |-> type, id |-> x, closing |-> FALSE,
                   reading |-> TRUE, writing |-> writing,
                   high |-> <<>>, low |-> <<>>, wb |-> 0]
  <2>1. Puts(k, t)
    BY <1>1, <1>4, NewFdPuts DEF Types
  <2>2. /\ t.type = type /\ t.id = x /\ t.high = <<>> /\ t.low = <<>> /\ t.wb = 0
        /\ sending' = [sending EXCEPT ![k] = [id |-> x, n |-> 0]]
        /\ dw' = [dw EXCEPT ![k] = None]
        /\ peer' = [peer EXCEPT ![x] = "open"]
    BY <1>4 DEF NewFd
  <2> HIDE DEF t
  <2>3. Begins(x, t)
    BY <2>1, <2>2 DEF Begins
  <2>4. ~Alive(k) /\ "open" \notin told[x]
    BY <1>1 DEF Alive
  <2> QED
    BY <1>1, <2>2, <2>3, <2>4, BeginsNews
<1>5. \/ slot' = [slot EXCEPT ![k].type = "invalid"] /\ UNCHANGED <<dw, peer>>
      \/ NewFd(x, "connecting", TRUE, TRUE)
      \/ NewFd(x, "connected", TRUE, FALSE)
  BY DEF OpenSocket
<1> QED
  BY <1>1, <1>3, <1>4, <1>5

\* A slot is taken by x, or comes into use.
Fills(x) == Connect(x) \/ Accept(x) \/ (OpenSocket /\ x = Head(pipe).id)

\* What a step is.
LEMMA Kinds ==
  ASSUME SocketInv, ~failed, EndInv, Next
  PROVE  \/ Quiet
         \/ \E k \in Slot : Empties(k) \/ Breaks(k) \/ Queues(k)
         \/ \E x \in Id : Fills(x) /\ News(x)
         \/ \E c \in Sender : DirectWrite(c)
         \/ \E e \in ev \ {None} : \E u : SendBuffer(e, u)
<1>1. TypeOK
  BY Parts
<1>2. CASE \E c \in Sender : Sending(c)
  BY <1>2, SendingQuiet
<1>3. CASE ForceClose
  BY <1>3, ForceBreaks, ForceClosePuts, Parts
<1>4. ASSUME NEW e \in ev \ {None}, WriteError(e)
      PROVE  \E k \in Slot : Breaks(k)
  BY <1>1, <1>4, WriteErrorBreaks, EventSlot
<1>5. CASE ChangesSlot
  <2>1. CASE ResumeSocket \/ CloseSocket("K") \/ CloseSocket("X") \/ SendSocket \/ TriggerWrite
    BY <2>1, ResumeQuiet, CloseQuiet, SendQueues, TriggerQuiet
  <2>2. ASSUME NEW e \in ev \ {None}, ReportConnect(e) \/ ReadEnd(e) \/ EofEvent(e)
        PROVE  Quiet \/ \E k \in Slot : Empties(k)
    BY <2>2, ConnectsQuiet, ReadEndQuiet, EofQuiet
  <2> QED
    BY <1>3, <1>4, <1>5, <2>1, <2>2 DEF ChangesSlot
<1>6. CASE OpenSocket
  BY <1>6, OpenNews DEF Fills
<1>7. CASE \E x \in Id : Connect(x) \/ Accept(x)
  BY <1>7, ConnectNews, AcceptNews DEF Fills
<1> QED
  BY <1>1, <1>2, <1>5, <1>6, <1>7, Cases, AskingQuiet, PeerQuiet, IdleQuiet
-----------------------------------------------------------------------------
(* What a step does to a stream.                                           *)

LEMMA RestType ==
  ASSUME NEW b \in Buffer \cup {None}
  PROVE  Rest(b) \in Seq(Package)
<1>1. CASE b = None
  BY <1>1, EmptySeq DEF Rest
<1>2. CASE b # None
  BY <1>2, CopiesType DEF Rest
<1> QED
  BY <1>1, <1>2

LEMMA QueueType ==
  ASSUME NEW b \in Buffer \cup {None}, NEW h \in Seq(Buffer), NEW l \in Seq(Buffer)
  PROVE  /\ Rest(b) \in Seq(Package) /\ Units(h) \in Seq(Package)
         /\ Units(l) \in Seq(Package) /\ Units(h) \o Units(l) \in Seq(Package)
         /\ Rest(b) \o (Units(h) \o Units(l)) \in Seq(Package)
<1> DEFINE S == Package
           r == Rest(b)
           f == Units(h)
           g == Units(l)
<1>1. r \in Seq(S) /\ f \in Seq(S) /\ g \in Seq(S)
  BY RestType, UnitsConcat
<1> HIDE DEF S, r, f, g
<1>2. f \o g \in Seq(S)
  BY ONLY <1>1, ConcatProperties
<1>3. r \o (f \o g) \in Seq(S)
  BY ONLY <1>1, <1>2, ConcatProperties
<1> QED
  BY <1>1, <1>2, <1>3 DEF S, r, f, g

LEMMA PendingType ==
  ASSUME TypeOK, NEW k \in Slot
  PROVE  /\ Rest(dw[k]) \in Seq(Package)
         /\ Units(slot[k].high) \in Seq(Package) /\ Units(slot[k].low) \in Seq(Package)
         /\ Units(slot[k].high) \o Units(slot[k].low) \in Seq(Package)
         /\ Pending(k) \in Seq(Package)
<1>1. /\ dw[k] \in Buffer \cup {None}
      /\ slot[k].high \in Seq(Buffer) /\ slot[k].low \in Seq(Buffer)
  BY DEF TypeOK, Socket
<1> QED
  BY <1>1, QueueType DEF Pending

LEMMA StreamType ==
  ASSUME TypeOK, NEW x \in Id
  PROVE  /\ HASH(x) \in Slot /\ wire[x] \in Seq(Package)
         /\ Stream(x) \in Seq(Package)
<1>1. HASH(x) \in Slot
  BY HashSlot DEF Id
<1>2. wire[x] \in Seq(Package) /\ Pending(HASH(x)) \in Seq(Package)
  BY <1>1, PendingType DEF TypeOK
<1> DEFINE S == Package
           w == wire[x]
           p == Pending(HASH(x))
<1>3. w \in Seq(S) /\ p \in Seq(S)
  BY <1>2
<1> HIDE DEF S, w, p
<1>4. w \o p \in Seq(S)
  BY ONLY <1>3, ConcatProperties
<1> QED
  BY <1>1, <1>3, <1>4 DEF Stream, S, w, p

LEMMA StreamTypeNext ==
  ASSUME TypeOK', NEW x \in Id
  PROVE  wire'[x] \in Seq(Package) /\ Stream(x)' \in Seq(Package)
<1> DEFINE k == HASH(x)
<1>1. k \in Slot
  BY HashSlot DEF Id
<1>2. /\ dw'[k] \in Buffer \cup {None}
      /\ slot'[k].high \in Seq(Buffer) /\ slot'[k].low \in Seq(Buffer)
      /\ wire'[x] \in Seq(Package)
  BY <1>1 DEF TypeOK, Socket
<1> DEFINE S == Package
           w == wire'[x]
           p == Rest(dw'[k]) \o (Units(slot'[k].high) \o Units(slot'[k].low))
<1>3. w \in Seq(S) /\ p \in Seq(S)
  BY <1>2, QueueType
<1>4. Stream(x)' = IF Live(x)' THEN w \o p ELSE w
  BY DEF Stream, Pending, HASH
<1> HIDE DEF S, w, p
<1>5. w \o p \in Seq(S)
  BY ONLY <1>3, ConcatProperties
<1> QED
  BY <1>2, <1>3, <1>4, <1>5 DEF S, w

\* The package that a step puts into a stream.
Comes(p) ==
  \/ \E c \in Sender :
       /\ call[c] # None /\ call[c].pc = "write" /\ p = call[c].pkg
       /\ ~Waits(c)' /\ UNCHANGED <<pipe, count>>
  \/ /\ pipe # <<>> /\ pipe' = Tail(pipe) /\ UNCHANGED <<call, count>>
     /\ Head(pipe).cmd = "D" /\ p = Head(pipe).pkg

Flow(x) ==
  \/ Stream(x)' = Stream(x) /\ (Live(x)' => Live(x))
  \/ Begin(Stream(x), Stream(x)') /\ ~Live(x)'
  \/ Stream(x)' = <<>>
  \/ /\ Live(x) /\ "open" \in told[x]
     /\ \E p \in Package, n \in 0..Len(Stream(x)) :
          /\ n % Unit = 0 /\ Inserts(Stream(x), Stream(x)', n, p)
          /\ p.to = x /\ Passes(Stream(x), n, p)
          /\ Comes(p)

LEMMA ConcatBegin ==
  ASSUME NEW a \in Seq(Package), NEW b \in Seq(Package)
  PROVE  Begin(a \o b, a) /\ Begin(a, a)
<1> DEFINE S == Package
<1>1. a \in Seq(S) /\ b \in Seq(S)
  OBVIOUS
<1>2. /\ a \o b \in Seq(S) /\ Len(a \o b) = Len(a) + Len(b)
      /\ Len(a) \in Nat /\ Len(b) \in Nat
      /\ \A i \in 1..(Len(a) + Len(b)) :
           (a \o b)[i] = IF i <= Len(a) THEN a[i] ELSE b[i - Len(a)]
  <2> HIDE DEF S
  <2>1. Len(a) \in Nat /\ Len(b) \in Nat
    BY <1>1
  <2> QED
    BY ONLY <1>1, <2>1, ConcatProperties
<1>3. SubSeq(a \o b, 1, Len(a)) = a
  <2> DEFINE c == a \o b
             d == SubSeq(c, 1, Len(a))
  <2>1. c \in Seq(S) /\ Len(a) <= Len(c) /\ \A i \in 1..Len(a) : c[i] = a[i]
    BY <1>2
  <2> HIDE DEF c, S
  <2>2. d \in Seq(S) /\ Len(d) = Len(a) /\ \A i \in 1..Len(a) : d[i] = c[i]
    BY <1>2, <2>1
  <2> HIDE DEF d
  <2>3. d = a
    BY <1>1, <2>1, <2>2, SeqEqual
  <2> QED
    BY <2>3 DEF c, d
<1>4. SubSeq(a, 1, Len(a)) = a
  BY <1>1, SubSeqFull
<1>5. Len(a) \in 0..Len(a \o b) /\ Len(a) \in 0..Len(a)
  <2> DEFINE n == Len(a)
             m == Len(b)
             l == Len(a \o b)
  <2>1. n \in Nat /\ m \in Nat /\ l = n + m
    BY <1>2
  <2> HIDE DEF n, m, l
  <2>2. n \in 0..l /\ n \in 0..n
    BY <2>1
  <2> QED
    BY <2>2 DEF n, l
<1>6. Begin(a \o b, a)
  <2> DEFINE c == a \o b
  <2>1. a = SubSeq(c, 1, Len(a)) /\ Len(a) \in 0..Len(c)
    BY <1>3, <1>5
  <2> HIDE DEF c
  <2>2. Begin(c, a)
    BY <2>1 DEF Begin
  <2> QED
    BY <2>2 DEF c
<1>7. Begin(a, a)
  BY <1>4, <1>5 DEF Begin
<1> QED
  BY <1>6, <1>7

LEMMA KeptFlow ==
  ASSUME TypeOK, NEW x \in Id, wire'[x] = wire[x], Kept(HASH(x)),
         peer'[x] \in {"open", "fin"} => peer[x] \in {"open", "fin"}
  PROVE  Flow(x)
<1> DEFINE k == HASH(x)
<1>1. Pending(k)' = Pending(k)
  BY DEF Kept, Pending
<1>2. Live(x)' => Live(x)
  BY DEF Live, Kept
<1>3. k \in Slot /\ wire[x] \in Seq(Package) /\ Pending(k) \in Seq(Package)
  BY StreamType, PendingType
<1>4. HASH(x)' = k
  BY DEF HASH
<1>5. CASE Live(x)'
  BY <1>1, <1>2, <1>4, <1>5 DEF Flow, Stream
<1>6. CASE ~Live(x)' /\ Live(x)
  <2>1. Stream(x)' = wire[x] /\ Stream(x) = wire[x] \o Pending(k)
    BY <1>6 DEF Stream
  <2> QED
    BY <1>3, <1>6, <2>1, ConcatBegin DEF Flow
<1>7. CASE ~Live(x)' /\ ~Live(x)
  BY <1>7 DEF Flow, Stream
<1> QED
  BY <1>5, <1>6, <1>7

\* A stream that is cut.
LEMMA CutFlow ==
  ASSUME TypeOK, NEW x \in Id, wire'[x] = wire[x], ~Live(x)'
  PROVE  Flow(x)
<1> DEFINE k == HASH(x)
<1>3. k \in Slot /\ wire[x] \in Seq(Package) /\ Pending(k) \in Seq(Package)
  BY StreamType, PendingType
<1>1. Stream(x)' = wire[x]
  BY DEF Stream
<1>2. CASE Live(x)
  <2>1. Stream(x) = wire[x] \o Pending(k)
    BY <1>2 DEF Stream
  <2> QED
    BY <1>1, <1>3, <2>1, ConcatBegin DEF Flow
<1>4. CASE ~Live(x)
  BY <1>1, <1>4 DEF Stream, Flow
<1> QED
  BY <1>2, <1>4

LEMMA QuietFlow ==
  ASSUME TypeOK, Quiet, NEW x \in Id
  PROVE  Flow(x)
<1>1. HASH(x) \in Slot
  BY StreamType
<1> QED
  BY <1>1, KeptFlow DEF Quiet, Dying

LEMMA ConcatNone ==
  ASSUME NEW a \in Seq(Package), NEW b \in Seq(Package)
  PROVE  /\ a \o b = <<>> => a = <<>> /\ b = <<>>
         /\ a \o <<>> = a /\ <<>> \o a = a
<1> DEFINE S == Package
<1>1. a \in Seq(S) /\ b \in Seq(S)
  OBVIOUS
<1> HIDE DEF S
<1> QED
  BY <1>1, ConcatEqualIffEmpty, ConcatEmptySeq

LEMMA EmptiesFlow ==
  ASSUME TypeOK, StreamInv, NEW k \in Slot, Empties(k), NEW x \in Id
  PROVE  Flow(x)
<1>1. HASH(x) \in Slot /\ wire[x] \in Seq(Package) /\ UNCHANGED <<wire, peer, dw>>
  BY StreamType DEF Empties
<1>2. CASE HASH(x) # k
  BY <1>1, <1>2, KeptFlow DEF Empties, KeptBut
<1>3. CASE HASH(x) = k /\ ~(Live(x) /\ Live(x)')
  <2>1. ~Live(x)'
    BY <1>1, <1>3 DEF Live, Empties
  <2> QED
    BY <1>1, <2>1, CutFlow
<1>4. CASE HASH(x) = k /\ Live(x) /\ Live(x)'
  <2>1. slot[k].id = x /\ "open" \notin told[x]
    BY <1>4 DEF Empties, Live
  <2>2. wire[x] \o Pending(k) = <<>>
    BY <1>4, <2>1 DEF StreamInv, Stream
  <2>3. wire[x] = <<>> /\ Pending(k) = <<>>
    BY <1>1, <2>2, PendingType, ConcatNone
  <2>4. Rest(dw[k]) = <<>>
    BY <2>3, PendingType, ConcatNone DEF Pending
  <2>5. slot'[k].high = <<>> /\ slot'[k].low = <<>>
    BY DEF Empties, BufferEmpty
  <2>6. <<>> \o <<>> = <<>>
    BY ConcatNone, EmptySeq
  <2>7. Stream(x)' = <<>>
    BY <1>1, <1>4, <2>3, <2>4, <2>5, <2>6, UnitsEmpty DEF Stream, Pending, HASH
  <2> QED
    BY <2>7 DEF Flow
<1> QED
  BY <1>2, <1>3, <1>4

LEMMA BreaksFlow ==
  ASSUME TypeOK, NEW k \in Slot, Breaks(k), NEW x \in Id
  PROVE  Flow(x)
<1>1. HASH(x) \in Slot /\ UNCHANGED wire
  BY StreamType DEF Breaks
<1>2. CASE HASH(x) # k
  BY <1>1, <1>2, KeptFlow DEF Breaks, KeptBut, Dying
<1>3. CASE HASH(x) = k
  <2>1. ~Live(x)'
    BY <1>3 DEF Live, Breaks
  <2> QED
    BY <1>1, <2>1, CutFlow
<1> QED
  BY <1>2, <1>3

LEMMA NewsFlow ==
  ASSUME TypeOK, StreamInv, NEW y \in Id, News(y), NEW x \in Id
  PROVE  Flow(x)
<1> DEFINE k == HASH(y)
<1>1. HASH(x) \in Slot /\ UNCHANGED wire /\ wire[x] \in Seq(Package)
  BY StreamType DEF News
<1>2. CASE HASH(x) # k
  <2>1. peer'[x] = peer[x] /\ Kept(HASH(x))
    BY <1>1, <1>2 DEF News, KeptBut
  <2> QED
    BY <1>1, <2>1, KeptFlow
<1>3. CASE HASH(x) = k /\ x # y
  <2>1. ~Live(x)'
    BY <1>3 DEF Live, News
  <2> QED
    BY <1>1, <2>1, CutFlow
<1>4. CASE x = y
  <2>1. Stream(x) = <<>>
    BY <1>4 DEF StreamInv, News
  <2>2. wire[x] = <<>>
    BY <1>1, <2>1, PendingType, ConcatNone DEF Stream
  <2>3. slot'[k].high = <<>> /\ slot'[k].low = <<>> /\ dw'[k] = None
    BY DEF News, BufferEmpty
  <2>4. <<>> \o <<>> = <<>>
    BY ConcatNone, EmptySeq
  <2>5. Stream(x)' = <<>>
    BY <1>1, <1>4, <2>2, <2>3, <2>4, UnitsEmpty DEF Stream, Pending, HASH, Rest
  <2> QED
    BY <2>5 DEF Flow
<1> QED
  BY <1>2, <1>3, <1>4

LEMMA ConcatAt ==
  ASSUME NEW a \in Seq(Package), NEW b \in Seq(Package)
  PROVE  /\ a \o b \in Seq(Package) /\ Len(a \o b) = Len(a) + Len(b)
         /\ Len(a) \in Nat /\ Len(b) \in Nat
         /\ \A i \in 1..Len(a) : i \in DOMAIN (a \o b) /\ (a \o b)[i] = a[i]
         /\ \A i \in 1..Len(b) : /\ Len(a) + i \in DOMAIN (a \o b)
                                 /\ (a \o b)[Len(a) + i] = b[i]
<1> DEFINE S == Package
           c == a \o b
           m == Len(a)
           n == Len(b)
<1>1. a \in Seq(S) /\ b \in Seq(S)
  OBVIOUS
<1>2. m \in Nat /\ n \in Nat
  OBVIOUS
<1> HIDE DEF S
<1>3. /\ c \in Seq(S) /\ Len(c) = m + n
      /\ \A i \in 1..(m + n) : c[i] = IF i <= m THEN a[i] ELSE b[i - m]
  BY ONLY <1>1, ConcatProperties
<1> HIDE DEF c, m, n
<1>4. DOMAIN c = 1..(m + n)
  BY <1>2, <1>3
<1>5. \A i \in 1..m : i \in DOMAIN c /\ c[i] = a[i]
  BY <1>2, <1>3, <1>4
<1>6. ASSUME NEW i \in 1..n PROVE m + i \in DOMAIN c /\ c[m + i] = b[i]
  <2>1. m + i \in 1..(m + n) /\ ~(m + i <= m) /\ (m + i) - m = i
    BY <1>2
  <2> QED
    BY <1>3, <1>4, <2>1
<1> QED
  BY <1>2, <1>3, <1>5, <1>6 DEF S, c, m, n

LEMMA LowConcat ==
  ASSUME NEW a \in Seq(Package), NEW b \in Seq(Package)
  PROVE  Low(a \o b) <=> Low(a) /\ Low(b)
<1> DEFINE c == a \o b
           m == Len(a)
           n == Len(b)
<1>1. /\ c \in Seq(Package) /\ Len(c) = m + n
      /\ m \in Nat /\ n \in Nat
      /\ \A i \in 1..m : i \in DOMAIN c /\ c[i] = a[i]
      /\ \A i \in 1..n : m + i \in DOMAIN c /\ c[m + i] = b[i]
  BY ConcatAt
<1>2. DOMAIN a = 1..m /\ DOMAIN b = 1..n
  OBVIOUS
<1> HIDE DEF c, m, n
<1>3. DOMAIN c = 1..(m + n)
  BY <1>1
<1>4. Low(c) => Low(a) /\ Low(b)
  BY <1>1, <1>2 DEF Low
<1>5. ASSUME Low(a), Low(b), NEW i \in DOMAIN c PROVE c[i].kind = "P"
  <2>1. CASE i <= m
    BY <1>1, <1>2, <1>3, <1>5, <2>1 DEF Low
  <2>2. CASE ~(i <= m)
    <3>1. i - m \in 1..n /\ m + (i - m) = i
      BY <1>1, <1>3, <2>2
    <3>2. c[i] = b[i - m]
      BY <1>1, <3>1
    <3> QED
      BY <1>2, <1>5, <3>1, <3>2 DEF Low
  <2> QED
    BY <2>1, <2>2
<1> QED
  BY <1>4, <1>5 DEF Low, c

\* All that is written is the beginning of what waits.
LEMMA SentUnits ==
  ASSUME NEW s \in Socket, Whole(s.low, 1),
         NEW u \in 0..(Len(Units(s.high)) + Len(Units(s.low)))
  PROVE  /\ \E v \in Seq(Package) :
              /\ Len(v) = u
              /\ Units(s.high) \o Units(s.low)
                   = v \o (Units(Sent(s, u).high) \o Units(Sent(s, u).low))
         /\ Low(Units(s.low)) => Low(Units(Sent(s, u).low))
<1> DEFINE H == Units(s.high)
           L == Units(s.low)
           h == Len(H)
           high == After(s.high, u)
           low == IF u <= h THEN s.low ELSE After(s.low, u - h)
           q == [s EXCEPT !.high = high, !.low = low, !.wb = @ - u]
<1>0. Sent(s, u) = Raised(q)
  BY DEF Sent
<1>1. s.high \in Seq(Buffer) /\ s.low \in Seq(Buffer)
  BY DEF Socket
<1>2. /\ H \in Seq(Package) /\ L \in Seq(Package)
      /\ h \in Nat /\ Len(L) \in Nat /\ u \in Nat /\ u <= h + Len(L)
  <2>1. H \in Seq(Package) /\ L \in Seq(Package) /\ h \in Nat /\ Len(L) \in Nat
    BY <1>1, UnitsConcat, UnitsLen
  <2> QED
    BY <2>1
<1>3. /\ high \in Seq(Buffer) /\ low \in Seq(Buffer)
      /\ \E v \in Seq(Package) :
           Len(v) = u /\ H \o L = v \o (Units(high) \o Units(low))
      /\ Low(L) => Low(Units(low))
  <2>1. CASE u <= h
    <3>1. high \in Seq(Buffer)
      BY <1>1, <1>2, AfterFacts
    <3>2. low = s.low
      BY <2>1
    <3>3. PICK v \in Seq(Package) : Len(v) = u /\ H = v \o Units(high)
      BY <1>1, <1>2, <2>1, UnitsAfter
    <3>4. Units(high) \in Seq(Package)
      BY <3>1, UnitsConcat
    <3> DEFINE F == Units(high)
    <3>5. H \o L = v \o (F \o L)
      <4>1. H = v \o F /\ F \in Seq(Package)
        BY <3>3, <3>4
      <4> HIDE DEF F, H, L
      <4> QED
        <5>1. L \in Seq(Package) /\ v \in Seq(Package)
          BY <1>2
        <5>2. Grouped(v, F, L)
          BY ONLY <4>1, <5>1, AllGrouped
        <5> QED
          BY ONLY <4>1, <5>2, Zenon DEF Grouped
    <3> QED
      BY <1>1, <3>1, <3>2, <3>3, <3>5
  <2>2. CASE ~(u <= h)
    <3>1. high = <<>>
      <4>1. h <= u
        BY <1>2, <2>2
      <4> QED
        BY <1>1, <1>2, <4>1, AfterFacts
    <3> DEFINE d == u - h
    <3>2. d \in Nat /\ d <= Len(L) /\ low = After(s.low, d)
      BY <1>2, <2>2
    <3> HIDE DEF d, low
    <3>3. low \in Seq(Buffer)
      BY <1>1, <3>2, AfterFacts
    <3>4. PICK v \in Seq(Package) : Len(v) = d /\ L = v \o Units(low)
      <4>1. d <= Len(Units(s.low))
        BY <3>2
      <4> QED
        BY <1>1, <3>2, <4>1, UnitsAfter
    <3>5. Units(low) \in Seq(Package)
      BY <3>3, UnitsConcat
    <3> DEFINE G == Units(low)
    <3>6. /\ H \o L = (H \o v) \o (<<>> \o G)
          /\ H \o v \in Seq(Package) /\ Len(H \o v) = h + d
      <4>1. L = v \o G /\ G \in Seq(Package)
        BY <3>4, <3>5
      <4> HIDE DEF G, H, L
      <4>2. <<>> \o G = G
        BY <4>1, ConcatNone
      <4>3. (H \o v) \o G = H \o (v \o G)
        <5>1. H \in Seq(Package) /\ v \in Seq(Package) /\ G \in Seq(Package)
          BY <1>2, <4>1
        <5>2. Grouped(H, v, G)
          BY ONLY <5>1, AllGrouped
        <5> QED
          BY ONLY <5>2, Zenon DEF Grouped
      <4>4. H \o v \in Seq(Package) /\ Len(H \o v) = Len(H) + Len(v)
        BY <1>2, ConcatAt
      <4> QED
        BY <3>4, <4>1, <4>2, <4>3, <4>4
    <3>7. h + d = u
      BY <1>2 DEF d
    <3>8. Low(L) => Low(G)
      <4>1. L = v \o G /\ G \in Seq(Package)
        BY <3>4, <3>5
      <4> HIDE DEF G, L
      <4> QED
        BY <4>1, LowConcat
    <3>9. high \in Seq(Buffer) /\ Units(high) = <<>>
      BY <3>1, UnitsEmpty, EmptySeq
    <3> HIDE DEF high, H, L
    <3> QED
      BY <3>3, <3>6, <3>7, <3>8, <3>9
  <2> QED
    BY <2>1, <2>2
<1> HIDE DEF H, L, h, high, low
<1>4. q.high = high /\ q.low = low
  BY DEF Socket
<1> HIDE DEF q
<1>5. CASE ~(q.high = <<>> /\ q.low # <<>> /\ Head(q.low).left < Unit)
  <2>1. Raised(q) = q
    BY <1>5 DEF Raised
  <2> QED
    BY <1>0, <1>3, <1>4, <2>1 DEF H, L
<1>6. CASE q.high = <<>> /\ q.low # <<>> /\ Head(q.low).left < Unit
  <2> DEFINE b == Head(low)
             l == Tail(low)
  <2>1. Raised(q) = [q EXCEPT !.high = <<b>>, !.low = l]
    BY <1>4, <1>6 DEF Raised
  <2>2. b \in Buffer /\ l \in Seq(Buffer) /\ low = <<b>> \o l
    BY <1>3, <1>4, <1>6
  <2> DEFINE B == Units(<<b>>)
             G == Units(l)
  <2>3. B \in Seq(Package) /\ G \in Seq(Package) /\ Units(low) = B \o G
    <3>1. <<b>> \in Seq(Buffer)
      BY <2>2
    <3> HIDE DEF b, l
    <3> QED
      BY <2>2, <3>1, UnitsConcat
  <2>4. Raised(q).high = <<b>> /\ Raised(q).low = l
    <3> DEFINE o == <<b>>
    <3> HIDE DEF o, l
    <3>1. Raised(q) = [q EXCEPT !.high = o, !.low = l]
      BY <2>1 DEF o
    <3>2. {"high", "low"} \subseteq DOMAIN q
      BY DEF q, Socket
    <3>3. Raised(q).high = o /\ Raised(q).low = l
      BY <3>1, <3>2
    <3> QED
      BY <3>3 DEF o
  <2>5. Units(high) = <<>> /\ <<>> \o (B \o G) = B \o G
    <3>1. B \o G \in Seq(Package)
      <4> HIDE DEF B, G
      <4> QED
        BY <2>3, ConcatAt
    <3> QED
      BY <1>4, <1>6, <3>1, UnitsEmpty, ConcatNone
  <2>6. Low(Units(low)) => Low(G)
    <3> HIDE DEF B, G
    <3> QED
      BY <2>3, LowConcat
  <2>7. Units(Raised(q).high) = B /\ Units(Raised(q).low) = G
    BY <2>4
  <2> HIDE DEF B, G
  <2> QED
    BY <1>0, <1>3, <2>3, <2>5, <2>6, <2>7 DEF H, L
<1> QED
  BY <1>5, <1>6

LEMMA EvenDiff ==
  ASSUME NEW m \in Nat, NEW n \in Nat, (m + n) % 2 = 0, n % 2 = 0
  PROVE  m % 2 = 0
OBVIOUS

\* p may go before all of b.
Yields(b, p) == \A i \in DOMAIN b : b[i].by = p.by => p.kind = "D" /\ b[i].kind = "P"

\* The two units of p, between a and b.
LEMMA PutBetween ==
  ASSUME NEW a \in Seq(Package), NEW b \in Seq(Package), NEW c \in Seq(Package),
         NEW p, Len(c) = Unit, c[1] = p, c[2] = p
  PROVE  /\ Len(a) \in 0..Len(a \o b)
         /\ Inserts(a \o b, a \o (c \o b), Len(a), p)
         /\ Yields(b, p) => Passes(a \o b, Len(a), p)
<1> DEFINE m == Len(a)
           n == Len(b)
           s == a \o b
           d == c \o b
           t == a \o d
<1>1. /\ s \in Seq(Package) /\ Len(s) = m + n /\ m \in Nat /\ n \in Nat
      /\ \A i \in 1..m : s[i] = a[i]
      /\ \A i \in 1..n : s[m + i] = b[i]
  BY ConcatAt
<1>2. /\ d \in Seq(Package) /\ Len(d) = 2 + n
      /\ d[1] = p /\ d[2] = p
      /\ \A i \in 1..n : d[2 + i] = b[i]
  <2>1. /\ d \in Seq(Package) /\ Len(d) = Len(c) + Len(b)
        /\ \A i \in 1..Len(c) : d[i] = c[i]
        /\ \A i \in 1..Len(b) : d[Len(c) + i] = b[i]
    BY ConcatAt
  <2>2. Len(c) = 2 /\ 1 \in 1..Len(c) /\ 2 \in 1..Len(c)
    BY DEF Unit
  <2> HIDE DEF d
  <2> QED
    BY <2>1, <2>2
<1> HIDE DEF d, s
<1>3. /\ t \in Seq(Package) /\ Len(t) = m + Len(d)
      /\ \A i \in 1..m : t[i] = a[i]
      /\ \A i \in 1..Len(d) : t[m + i] = d[i]
  BY <1>2, ConcatAt
<1> HIDE DEF t, m, n
<1>4. /\ Len(t) = m + (2 + n)
      /\ t[m + 1] = p /\ t[m + 2] = p
      /\ \A i \in 1..n : t[m + (2 + i)] = b[i]
  BY <1>1, <1>2, <1>3
<1>5. ASSUME NEW i \in (m + 1)..Len(s)
      PROVE  t[i + 2] = s[i] /\ i - m \in 1..n /\ s[i] = b[i - m]
  <2>1. i - m \in 1..n /\ m + (i - m) = i /\ m + (2 + (i - m)) = i + 2
    BY <1>1
  <2>2. s[m + (i - m)] = b[i - m] /\ t[m + (2 + (i - m))] = b[i - m]
    BY <1>1, <1>4, <2>1
  <2> QED
    BY <2>1, <2>2
<1>6. Inserts(s, t, m, p)
  <2>1. Len(t) = Len(s) + 2
    BY <1>1, <1>4
  <2>2. \A i \in 1..m : t[i] = s[i]
    BY <1>1, <1>3
  <2> QED
    BY <1>4, <1>5, <2>1, <2>2 DEF Inserts, Unit
<1>7. m \in 0..Len(s)
  BY <1>1
<1>8. ASSUME Yields(b, p) PROVE Passes(s, m, p)
  <2> SUFFICES ASSUME NEW i \in DOMAIN s, m < i, s[i].by = p.by
               PROVE  p.kind = "D" /\ s[i].kind = "P"
    BY DEF Passes
  <2>1. i \in (m + 1)..Len(s)
    BY <1>1
  <2>2. i - m \in DOMAIN b /\ s[i] = b[i - m]
    BY <1>5, <2>1 DEF n
  <2> QED
    BY <1>8, <2>2 DEF Yields
<1> QED
  BY <1>6, <1>7, <1>8 DEF s, d, t, m

\* The rest of a direct write, before the lists, is what a write event takes from.
LEMMA AllPending ==
  ASSUME TypeOK, NEW k \in Slot
  PROVE  Units(Merged(k).high) \o Units(Merged(k).low) = Pending(k)
<1> DEFINE h == slot[k].high
           l == slot[k].low
           b == dw[k]
<1>1. /\ b \in Buffer \cup {None} /\ slot[k] \in Socket
      /\ h \in Seq(Buffer) /\ l \in Seq(Buffer)
  BY DEF TypeOK, Socket
<1>2. Rest(b) \in Seq(Package) /\ Units(h) \in Seq(Package) /\ Units(l) \in Seq(Package)
      /\ Units(h) \o Units(l) \in Seq(Package)
  BY PendingType
<1>3. Merged(k).low = l
  BY MergedFacts
<1>4. CASE b = None
  <2>1. Merged(k).high = h /\ Rest(b) = <<>>
    BY <1>4 DEF Merged, Rest
  <2> DEFINE U == Units(h) \o Units(l)
  <2>2. <<>> \o U = U
    <3> HIDE DEF U
    <3> QED
      BY <1>2, ConcatNone DEF U
  <2> QED
    BY <1>3, <2>1, <2>2 DEF Pending
<1>5. CASE b # None
  <2>1. Rest(b) = Copies(b) /\ b \in Buffer /\ <<b>> \in Seq(Buffer)
    BY <1>1, <1>5 DEF Rest
  <2>2. Merged(k).high = <<b>> \o h
    <3> DEFINE m == <<b>> \o h
               w == slot[k].wb + b.left
    <3>1. Merged(k) = [slot[k] EXCEPT !.high = m, !.wb = w]
      BY <1>5 DEF Merged
    <3> HIDE DEF m, w
    <3>2. Merged(k).high = m
      BY <1>1, <3>1 DEF Socket
    <3> QED
      BY <3>2 DEF m
  <2>3. Units(<<b>> \o h) = Rest(b) \o Units(h)
    <3>1. Units(<<b>> \o h) = Units(<<b>>) \o Units(h)
      <4> HIDE DEF b, h
      <4> QED
        BY <1>1, <2>1, UnitsConcat
    <3> QED
      BY <2>1, <3>1, UnitsOne
  <2>4. (Rest(b) \o Units(h)) \o Units(l) = Rest(b) \o (Units(h) \o Units(l))
    <3>1. Grouped(Rest(b), Units(h), Units(l))
      BY <1>2, AllGrouped
    <3> QED
      BY ONLY <3>1, Zenon DEF Grouped
  <2> QED
    BY <1>3, <2>2, <2>3, <2>4 DEF Pending
<1> QED
  BY <1>4, <1>5

\* What a write event writes, and what it leaves.
LEMMA SendUnits ==
  ASSUME SocketInv, ~failed, NEW e \in ev \ {None}, NEW u, SendBuffer(e, u)
  PROVE  LET k == e.s
             x == slot[k].id
         IN  /\ k \in Slot /\ x \in Id /\ HASH(x) = k /\ lock[k] = None
             /\ slot'[k].id = x /\ dw'[k] = None /\ KeptBut(k)
             /\ Low(Units(slot[k].low)) => Low(Units(slot'[k].low))
             /\ \E v \in Seq(Package) :
                  /\ Pending(k) = v \o (Units(slot'[k].high) \o Units(slot'[k].low))
                  /\ wire' = [wire EXCEPT ![x] = @ \o v]
                  /\ Len(v) = u
<1> DEFINE k == e.s
           x == slot[k].id
           s == Merged(k)
           t == Sent(s, u)
           all == Units(s.high) \o Units(s.low)
<1>1. TypeOK /\ FreshInv /\ SizeInv /\ IdInv /\ CloseInv
  BY Parts
<1>2. k \in Slot /\ slot[k] \in Socket /\ s \in Socket /\ s.low = slot[k].low
  BY <1>1, EventSlot, MergedFacts
<1>3. /\ t \in Socket /\ Same(slot[k], t) /\ slot[k].type # "invalid" /\ lock[k] = None
      /\ \/ Puts(k, t)
         \/ Puts(k, ForceClosed(t))
         \/ \E r : Puts(k, r) /\ Lists(t, r)
  BY <1>1, SendBufferPuts
<1>4. x \in Id /\ HASH(x) = k
  BY <1>1, <1>2, <1>3, AliveId
<1>5. PICK r : Puts(k, r) /\ r.id = x /\ r.high = t.high /\ r.low = t.low
  <2>1. /\ ForceClosed(t).high = t.high /\ ForceClosed(t).low = t.low
        /\ ForceClosed(t).id = t.id /\ t.id = x
    BY <1>3, FreedFacts DEF Same
  <2> QED
    BY <1>3, <2>1 DEF Lists
<1>6. dw' = [dw EXCEPT ![k] = None]
  BY DEF SendBuffer
<1>7. /\ \A j \in Slot \ {k} : slot'[j] = slot[j] /\ dw'[j] = dw[j]
      /\ slot'[k] = r /\ dw'[k] = None
  <2>1. \A j \in Slot : slot'[j] = IF j = k THEN r ELSE slot[j]
    BY <1>1, <1>2, <1>5, PutsAt
  <2> QED
    BY <1>1, <1>2, <1>6, <2>1 DEF TypeOK
<1>8. KeptBut(k)
  BY <1>7 DEF KeptBut, Kept
<1>9. u \in 0..Len(all) /\ wire' = [wire EXCEPT ![x] = @ \o SubSeq(all, 1, u)]
  BY DEF SendBuffer
<1>10. /\ all \in Seq(Package) /\ Len(all) = Len(Units(s.high)) + Len(Units(s.low))
       /\ BufferEmpty(s) => Len(all) = 0
  BY <1>2, AllUnits
<1>11. /\ Low(Units(s.low)) => Low(Units(t.low))
       /\ \E v \in Seq(Package) :
            Len(v) = u /\ all = v \o (Units(t.high) \o Units(t.low))
  <2>1. CASE Alive(k)
    <3>1. Whole(s.low, 1)
      BY <1>1, <1>2, <2>1 DEF SizeInv
    <3> QED
      BY <1>2, <1>9, <1>10, <3>1, SentUnits
  <2>2. CASE ~Alive(k)
    <3>1. s = slot[k] /\ BufferEmpty(s)
      BY <1>1, <1>2, <2>2, MergedFacts DEF FreshInv
    <3>2. u = 0
      <4>1. u \in 0..Len(all) /\ Len(all) = 0
        BY <1>9, <1>10, <3>1
      <4> HIDE DEF all
      <4> QED
        BY ONLY <4>1
    <3>3. t = s
      BY <1>2, <3>1, <3>2, SentNothing
    <3>4. <<>> \in Seq(Package) /\ Len(<<>>) = 0 /\ all = <<>> \o all
      <4> HIDE DEF all
      <4>1. Len(<<>>) = 0
        OBVIOUS
      <4> QED
        BY <1>10, <4>1, ConcatNone, EmptySeq
    <3> QED
      BY <3>2, <3>3, <3>4
  <2> QED
    BY <2>1, <2>2
<1>12. PICK v \in Seq(Package) :
         Len(v) = u /\ all = v \o (Units(t.high) \o Units(t.low))
  BY <1>11
<1>13. SubSeq(all, 1, u) = v
  <2> DEFINE z == Units(t.high) \o Units(t.low)
  <2>1. z \in Seq(Package)
    BY <1>3, AllUnits
  <2> HIDE DEF z
  <2>2. SubSeq(v \o z, 1, Len(v)) = v
    BY <2>1, ConcatBegin DEF Begin
  <2> QED
    BY <1>12, <2>2 DEF z
<1>14. all = Pending(k)
  BY <1>1, <1>2, AllPending
<1> HIDE DEF all, s, t
<1>15. /\ Pending(k) = v \o (Units(slot'[k].high) \o Units(slot'[k].low))
       /\ wire' = [wire EXCEPT ![x] = @ \o v] /\ Len(v) = u
  BY <1>5, <1>7, <1>9, <1>12, <1>13, <1>14
<1>16. Low(Units(slot[k].low)) => Low(Units(slot'[k].low))
  BY <1>2, <1>5, <1>7, <1>11
<1> QED
  BY <1>2, <1>3, <1>4, <1>5, <1>7, <1>8, <1>15, <1>16
-----------------------------------------------------------------------------
(* Every step does one of these to every stream.                           *)

LEMMA SendBufferFlow ==
  ASSUME SocketInv, ~failed, NEW e \in ev \ {None}, NEW u, SendBuffer(e, u),
         NEW y \in Id
  PROVE  Flow(y)
<1>1. TypeOK
  BY Parts
<1>0. e.s \in Slot /\ slot[e.s].id \in Id
  BY SendUnits
<1> PICK k \in Slot, x \in Id : k = e.s /\ x = slot[k].id
  BY <1>0
<1>2. /\ k \in Slot /\ x \in Id /\ HASH(x) = k
      /\ slot'[k].id = x /\ dw'[k] = None /\ KeptBut(k)
  BY SendUnits
<1>3. PICK v \in Seq(Package) :
        /\ Pending(k) = v \o (Units(slot'[k].high) \o Units(slot'[k].low))
        /\ wire' = [wire EXCEPT ![x] = @ \o v]
        /\ Len(v) = u
  BY SendUnits
<1>4. \/ UNCHANGED peer
      \/ peer' = [peer EXCEPT ![x] = Left(@)] /\ slot'[k].type = "invalid"
  BY DEF SendBuffer
<1>5. /\ \A z \in Id \ {x} : wire'[z] = wire[z] /\ peer'[z] = peer[z]
      /\ wire'[x] = wire[x] \o v
  BY <1>1, <1>2, <1>3, <1>4 DEF TypeOK
<1>6. HASH(y) \in Slot /\ wire[y] \in Seq(Package)
  BY <1>1, StreamType
<1>7. CASE HASH(y) # k
  <2>1. y # x
    BY <1>2, <1>7
  <2> QED
    BY <1>1, <1>2, <1>5, <1>6, <1>7, <2>1, KeptFlow DEF KeptBut
<1>8. CASE HASH(y) = k /\ y # x
  <2>1. ~Live(y)'
    BY <1>2, <1>8 DEF Live
  <2> QED
    BY <1>1, <1>5, <1>8, <2>1, CutFlow
<1>9. CASE y = x /\ ~Live(x)
  <2>1. peer[x] \notin {"open", "fin"}
    BY <1>2, <1>9 DEF Live
  <2>2. u = 0
    <3>1. Units(Merged(k).high) \o Units(Merged(k).low) = <<>>
      BY <2>1 DEF SendBuffer
    <3>2. u \in 0..Len(Units(Merged(k).high) \o Units(Merged(k).low))
      BY DEF SendBuffer
    <3>3. Len(<<>>) = 0
      OBVIOUS
    <3> QED
      BY <3>1, <3>2, <3>3
  <2>3. v = <<>>
    BY <1>3, <2>2
  <2>4. wire'[x] = wire[x]
    BY <1>5, <1>6, <1>9, <2>3, ConcatNone
  <2>5. ~Live(x)'
    <3>1. peer'[x] = peer[x] \/ peer'[x] = Left(peer[x])
      BY <1>1, <1>2, <1>4 DEF TypeOK
    <3>2. peer'[x] \notin {"open", "fin"}
      BY <2>1, <3>1, LeftDead
    <3> QED
      BY <3>2 DEF Live
  <2> QED
    BY <1>1, <1>2, <1>9, <2>4, <2>5, CutFlow
<1>10. CASE y = x /\ Live(x)
  <2> DEFINE w == wire[x]
             z == Units(slot'[k].high) \o Units(slot'[k].low)
  <2>1. w \in Seq(Package) /\ z \in Seq(Package)
    <3>1. slot'[k].high \in Seq(Buffer) /\ slot'[k].low \in Seq(Buffer)
      <4>1. \E t : Puts(k, t)
        BY Parts, SendBufferPuts
      <4> QED
        BY <1>1, <1>2, <4>1, PutsAt DEF Socket
    <3> QED
      BY <1>6, <1>10, <3>1, QueueType, EmptySeq
  <2>2. Stream(x) = w \o (v \o z)
    BY <1>2, <1>3, <1>10 DEF Stream
  <2> HIDE DEF w, z
  <2>3. (w \o v) \o z = w \o (v \o z) /\ w \o v \in Seq(Package)
    <3>1. w \in Seq(Package) /\ v \in Seq(Package) /\ z \in Seq(Package)
      BY <2>1
    <3>2. Grouped(w, v, z)
      BY ONLY <3>1, AllGrouped
    <3>3. (w \o v) \o z = w \o (v \o z)
      BY ONLY <3>2, Zenon DEF Grouped
    <3> QED
      BY <3>1, <3>3, ConcatAt
  <2>4. CASE ~Live(x)'
    <3>1. Stream(x)' = w \o v
      BY <1>5, <2>4 DEF Stream, w
    <3>2. Begin((w \o v) \o z, w \o v)
      <4> DEFINE a == w \o v
      <4>1. a \in Seq(Package)
        BY <2>3
      <4> HIDE DEF a
      <4>2. Begin(a \o z, a)
        BY <2>1, <4>1, ConcatBegin
      <4> QED
        BY <4>2 DEF a
    <3> QED
      BY <1>10, <2>2, <2>3, <2>4, <3>1, <3>2 DEF Flow
  <2>5. CASE Live(x)'
    <3>1. Stream(x)' = (w \o v) \o (Rest(dw'[k]) \o z)
      BY <1>2, <1>5, <2>5 DEF Stream, Pending, HASH, w, z
    <3>2. Rest(dw'[k]) \o z = z
      BY <1>2, <2>1, ConcatNone DEF Rest
    <3> QED
      BY <1>10, <2>2, <2>3, <3>1, <3>2 DEF Flow
  <2> QED
    BY <2>4, <2>5
<1> QED
  BY <1>7, <1>8, <1>9, <1>10

\* A write, and the rest of it in dw_buffer, is one package.
LEMMA CopiesSum ==
  ASSUME NEW p \in Package, NEW n \in 0..Unit
  PROVE  LET a == Copies([pkg |-> p, left |-> n])
             b == IF n = Unit THEN <<>> ELSE Copies([pkg |-> p, left |-> Unit - n])
         IN  /\ a \in Seq(Package) /\ b \in Seq(Package)
             /\ Len(a \o b) = Unit /\ (a \o b)[1] = p /\ (a \o b)[2] = p
             /\ n = 0 => a = <<>>
<1> DEFINE a == Copies([pkg |-> p, left |-> n])
           b == IF n = Unit THEN <<>> ELSE Copies([pkg |-> p, left |-> Unit - n])
<1>1. a = [j \in 1..n |-> p]
  BY DEF Copies
<1>2. b = [j \in 1..(2 - n) |-> p]
  <2>1. CASE n = 2
    BY <2>1 DEF Unit
  <2>2. CASE n # 2
    BY <2>2 DEF Copies, Unit
  <2> QED
    BY <2>1, <2>2
<1>3. n \in Nat /\ 2 - n \in Nat
  BY DEF Unit
<1>4. /\ a \in Seq(Package) /\ Len(a) = n /\ \A i \in 1..n : a[i] = p
      /\ b \in Seq(Package) /\ Len(b) = 2 - n /\ \A i \in 1..(2 - n) : b[i] = p
  BY <1>1, <1>2, <1>3
<1>5. n = 0 => a = <<>>
  BY <1>4
<1> HIDE DEF a, b
<1>6. /\ Len(a \o b) = Len(a) + Len(b)
      /\ \A i \in 1..Len(a) : (a \o b)[i] = a[i]
      /\ \A i \in 1..Len(b) : (a \o b)[Len(a) + i] = b[i]
  BY <1>4, ConcatAt
<1>7. Len(a \o b) = Unit
  BY <1>3, <1>4, <1>6 DEF Unit
<1>8. (a \o b)[1] = p /\ (a \o b)[2] = p
  <2>1. CASE n = 0
    BY <1>3, <1>4, <1>6, <2>1
  <2>2. CASE n = 1
    BY <1>3, <1>4, <1>6, <2>2
  <2>3. CASE n = 2
    BY <1>3, <1>4, <1>6, <2>3
  <2>4. n \in {0, 1, 2}
    BY DEF Unit
  <2> QED
    BY <2>1, <2>2, <2>3, <2>4
<1> QED
  BY <1>4, <1>5, <1>7, <1>8 DEF a, b

LEMMA DirectFlow ==
  ASSUME SocketInv, ~failed, StreamInv, WriteInv, NumberInv,
         NEW c \in Sender, DirectWrite(c), NEW y \in Id
  PROVE  Flow(y)
<1>1. TypeOK /\ FreshInv /\ ToldInv
  BY Parts
<1>2. call[c] # None /\ call[c].pc = "write" /\ UNCHANGED <<slot, peer, pipe, count>>
  BY DEF DirectWrite, pollVars
<1>0. PICK p \in Package, x \in Id, k \in Slot :
        p = call[c].pkg /\ x = p.to /\ k = HASH(x)
  BY <1>1, <1>2, CallType
<1>3. p \in Package /\ x \in Id /\ k \in Slot
  BY <1>0
<1> USE <1>0
<1>4. /\ slot[k].id = x /\ dw[k] = None /\ "open" \in told[x] /\ p.by = c
      /\ Len(Pending(k)) % 2 = 0 /\ \A i \in DOMAIN Pending(k) : Pending(k)[i].by # c
  BY <1>1, <1>2 DEF WriteInv, FreshInv, ToldInv, NumberInv, Unit
<1>5. PICK n \in Writes(x, Unit) :
         /\ wire' = [wire EXCEPT ![x] = @ \o Copies([pkg |-> p, left |-> n])]
         /\ IF n = Unit
            THEN Returned(c) /\ UNCHANGED dw
            ELSE /\ Goes(c, "trigger")
                 /\ dw' = [dw EXCEPT ![k] = [pkg |-> p, left |-> Unit - n]]
  BY <1>2 DEF DirectWrite
<1>6. n \in 0..Unit
  BY <1>5 DEF Writes, Unit
<1> DEFINE a == Copies([pkg |-> p, left |-> n])
           b == IF n = Unit THEN <<>> ELSE Copies([pkg |-> p, left |-> Unit - n])
<1>7. /\ a \in Seq(Package) /\ b \in Seq(Package)
      /\ Len(a \o b) = Unit /\ (a \o b)[1] = p /\ (a \o b)[2] = p
      /\ n = 0 => a = <<>>
  BY <1>3, <1>6, CopiesSum
<1>8. /\ \A z \in Id \ {x} : wire'[z] = wire[z]
      /\ wire'[x] = wire[x] \o a
  BY <1>1, <1>3, <1>5 DEF TypeOK
<1>9. HASH(y) \in Slot /\ wire[y] \in Seq(Package)
  BY <1>1, StreamType
<1>10. \A j \in Slot \ {k} : dw'[j] = dw[j]
  BY <1>1, <1>5 DEF TypeOK
<1>11. Rest(dw'[k]) = b
  <2>1. CASE n = Unit
    BY <1>4, <1>5, <2>1 DEF Rest
  <2>2. CASE n # Unit
    <3> DEFINE d == [pkg |-> p, left |-> Unit - n]
    <3>1. dw'[k] = d
      BY <1>1, <1>3, <1>5, <2>2 DEF TypeOK
    <3>2. dw'[k] # None
      <4>2. d \in Buffer
        BY <1>3, <1>6, <2>2 DEF Buffer, Unit
      <4> QED
        BY <3>1, <4>2, NoneAssumption
    <3> QED
      BY <2>2, <3>1, <3>2 DEF Rest
  <2> QED
    BY <2>1, <2>2
<1>12. CASE y # x /\ HASH(y) # k
  <2>1. Kept(HASH(y))
    BY <1>2, <1>9, <1>10, <1>12 DEF Kept
  <2> QED
    BY <1>1, <1>2, <1>8, <1>12, <2>1, KeptFlow
<1>13. CASE y # x /\ HASH(y) = k
  <2>1. ~Live(y)'
    BY <1>2, <1>4, <1>13 DEF Live
  <2> QED
    BY <1>1, <1>8, <1>13, <2>1, CutFlow
<1>14. CASE y = x /\ ~Live(x)
  <2>1. peer[x] \notin {"open", "fin"}
    BY <1>4, <1>14 DEF Live
  <2>2. a = <<>>
    BY <1>5, <1>7, <2>1 DEF Writes
  <2>3. wire'[x] = wire[x]
    <3> HIDE DEF a
    <3> QED
      BY <1>8, <1>9, <1>14, <2>2, ConcatNone
  <2>4. ~Live(x)'
    BY <1>2, <2>1 DEF Live
  <2> QED
    BY <1>1, <1>3, <1>14, <2>3, <2>4, CutFlow
<1>15. CASE y = x /\ Live(x)
  <2> DEFINE w == wire[x]
             q == Units(slot[k].high) \o Units(slot[k].low)
  <2>1. w \in Seq(Package) /\ q \in Seq(Package)
    BY <1>1, <1>3, <1>9, <1>15, PendingType
  <2>2. Pending(k) = q
    <3> HIDE DEF q
    <3>1. <<>> \o q = q
      BY <2>1, ConcatNone
    <3> QED
      BY <1>4, <3>1 DEF Pending, Rest, q
  <2>3. Live(x)'
    BY <1>2, <1>15 DEF Live
  <2>4. Stream(x)' = (w \o a) \o (b \o q)
    BY <1>2, <1>8, <1>11, <2>3 DEF Stream, Pending, HASH
  <2>5. Stream(x) = w \o q
    BY <1>15, <2>2 DEF Stream
  <2> HIDE DEF w, q, a, b
  <2>6. (w \o a) \o (b \o q) = w \o ((a \o b) \o q)
    <3>1. b \o q \in Seq(Package)
      BY <1>7, <2>1, ConcatAt
    <3>2. /\ w \in Seq(Package) /\ a \in Seq(Package)
          /\ b \in Seq(Package) /\ q \in Seq(Package)
      BY <1>7, <2>1
    <3> DEFINE z == b \o q
    <3>3. z \in Seq(Package) /\ z = b \o q
      BY <3>1
    <3> HIDE DEF z
    <3>4. Grouped(w, a, z) /\ Grouped(a, b, q)
      BY ONLY <3>2, <3>3, AllGrouped
    <3> QED
      BY ONLY <3>3, <3>4, Zenon DEF Grouped
  <2> DEFINE d == a \o b
  <2>7. d \in Seq(Package) /\ Len(d) = Unit /\ d[1] = p /\ d[2] = p
    BY <1>7, ConcatAt
  <2> HIDE DEF d
  <2>8. Yields(q, p)
    BY <1>4, <2>2 DEF Yields
  <2>9. /\ Len(w) \in 0..Len(w \o q)
        /\ Inserts(w \o q, w \o (d \o q), Len(w), p)
        /\ Passes(w \o q, Len(w), p)
    BY ONLY <1>3, <2>1, <2>7, <2>8, PutBetween
  <2>10. Len(w) % Unit = 0
    <3>1. Len(w \o q) = Len(w) + Len(q) /\ Len(w) \in Nat /\ Len(q) \in Nat
      BY <2>1, ConcatAt
    <3>2. Len(w \o q) % 2 = 0 /\ Len(q) % 2 = 0
      BY <1>3, <1>4, <1>15, <2>2, <2>5 DEF StreamInv, Unit
    <3> QED
      BY <3>1, <3>2, EvenDiff DEF Unit
  <2>11. Comes(p)
    <3>1. ~Waits(c)'
      <4>1. CASE n = Unit
        BY <1>1, <1>5, <4>1, ReturnedFacts DEF Waits
      <4>2. CASE n # Unit
        BY <1>1, <1>2, <1>5, <4>2, GoesFacts DEF Waits
      <4> QED
        BY <4>1, <4>2
    <3> QED
      BY <1>2, <3>1 DEF Comes
  <2> DEFINE m == Len(w)
             s == Stream(x)
             t == Stream(x)'
  <2>12. /\ m \in 0..Len(s) /\ m % Unit = 0 /\ Inserts(s, t, m, p)
         /\ Passes(s, m, p) /\ p \in Package
    BY <1>3, <2>4, <2>5, <2>6, <2>9, <2>10 DEF d
  <2> HIDE DEF m, s, t
  <2> QED
    BY <1>4, <1>15, <2>11, <2>12 DEF Flow, s, t
<1> QED
  BY <1>12, <1>13, <1>14, <1>15

\* Where send_socket puts a package: between the lists, or behind them.
LEMMA QueuedUnits ==
  ASSUME NEW s \in Socket, NEW p \in Package
  PROVE  \E d \in Seq(Package) :
           /\ Len(d) = Unit /\ d[1] = p /\ d[2] = p
           /\ \/ /\ Units(Queued(s, p).high) = Units(s.high) \o d
                 /\ Units(Queued(s, p).low) = Units(s.low)
                 /\ p.kind = "D" \/ Units(s.low) = <<>>
              \/ /\ Units(Queued(s, p).high) = Units(s.high)
                 /\ Units(Queued(s, p).low) = Units(s.low) \o d
                 /\ p.kind = "P"
<1> DEFINE b == [pkg |-> p, left |-> Unit]
           d == Copies(b)
           t == Queued(s, p)
<1>1. s.high \in Seq(Buffer) /\ s.low \in Seq(Buffer)
  BY DEF Socket
<1>2. b \in Buffer
  BY DEF Buffer, Unit
<1>3. d \in Seq(Package) /\ Len(d) = Unit /\ d[1] = p /\ d[2] = p
  BY DEF Copies, Unit
<1>4. p.kind \in {"D", "P"}
  BY SocketServerAssumption DEF Package
<1>5. CASE BufferEmpty(s)
  <2>1. t.high = <<b>> /\ t.low = <<>> /\ s.high = <<>> /\ s.low = <<>>
    BY <1>5 DEF Queued, BufferEmpty, Socket
  <2> HIDE DEF b, t
  <2>2. Units(t.high) = d /\ Units(s.high) = <<>> /\ Units(s.low) = <<>>
        /\ Units(t.low) = <<>>
    BY <1>2, <2>1, UnitsOne, UnitsEmpty
  <2> HIDE DEF d
  <2>3. <<>> \o d = d
    BY <1>3, ConcatNone
  <2> QED
    BY <1>3, <2>2, <2>3 DEF t
<1>6. CASE ~BufferEmpty(s) /\ p.kind = "P"
  <2>1. t.low = Append(s.low, b) /\ t.high = s.high
    BY <1>6 DEF Queued, Socket
  <2> HIDE DEF b, t
  <2>2. Units(t.low) = Units(s.low) \o d /\ Units(t.high) = Units(s.high)
    BY <1>1, <1>2, <2>1, UnitsAppend
  <2> HIDE DEF d
  <2> QED
    BY <1>3, <1>6, <2>2 DEF t
<1>7. CASE ~BufferEmpty(s) /\ p.kind # "P"
  <2>1. t.high = Append(s.high, b) /\ t.low = s.low
    BY <1>7 DEF Queued, Socket
  <2> HIDE DEF b, t
  <2>2. Units(t.high) = Units(s.high) \o d /\ Units(t.low) = Units(s.low)
    BY <1>1, <1>2, <2>1, UnitsAppend
  <2> HIDE DEF d
  <2> QED
    BY <1>3, <1>4, <1>7, <2>2 DEF t
<1> QED
  BY <1>5, <1>6, <1>7

\* d behind h, or behind all.
Regrouped(w, r, h, l, d) ==
  \E a \in Seq(Package) :
    /\ w \o (r \o (h \o l)) = a \o l
    /\ w \o (r \o ((h \o d) \o l)) = a \o (d \o l)
    /\ w \o (r \o (h \o (l \o d))) = (w \o (r \o (h \o l))) \o d

LEMMA Regroup ==
  ASSUME NEW w \in Seq(Package), NEW r \in Seq(Package), NEW h \in Seq(Package),
         NEW l \in Seq(Package), NEW d \in Seq(Package)
  PROVE  Regrouped(w, r, h, l, d)
<1>1. \A x, y \in Seq(Package) : x \o y \in Seq(Package)
  BY ConcatAt
<1> DEFINE rh == r \o h
           a == w \o rh
           hl == h \o l
           rhl == r \o hl
           dl == d \o l
<1>2. /\ rh \in Seq(Package) /\ a \in Seq(Package) /\ hl \in Seq(Package)
      /\ rhl \in Seq(Package) /\ dl \in Seq(Package)
  BY <1>1
<1>3. rh = r \o h /\ a = w \o rh /\ hl = h \o l /\ rhl = r \o hl /\ dl = d \o l
  OBVIOUS
<1> HIDE DEF rh, a, hl, rhl, dl
<1>4. /\ Grouped(r, h, l) /\ Grouped(w, rh, l)
      /\ Grouped(h, d, l) /\ Grouped(r, h, dl) /\ Grouped(w, rh, dl)
      /\ Grouped(h, l, d) /\ Grouped(r, hl, d) /\ Grouped(w, rhl, d)
  BY <1>2, AllGrouped
<1>5. w \o (r \o (h \o l)) = a \o l
  BY ONLY <1>3, <1>4, Zenon DEF Grouped
<1>6. w \o (r \o ((h \o d) \o l)) = a \o (d \o l)
  BY ONLY <1>3, <1>4, Zenon DEF Grouped
<1>7. w \o (r \o (h \o (l \o d))) = (w \o (r \o (h \o l))) \o d
  BY ONLY <1>3, <1>4, Zenon DEF Grouped
<1> QED
  BY <1>2, <1>5, <1>6, <1>7, Zenon DEF Regrouped

LEMMA QueuesHead ==
  ASSUME SocketInv, ~failed, NEW k \in Slot, Queues(k)
  PROVE  \E p \in Package :
           /\ p = Head(pipe).pkg /\ p.to \in Id /\ p.to = slot[k].id /\ HASH(p.to) = k
           /\ "open" \in told[p.to] /\ pipe # <<>> /\ pipe' = Tail(pipe)
           /\ Head(pipe) = pipe[1] /\ 1 \in DOMAIN pipe /\ Head(pipe).cmd = "D"
           /\ slot'[k] = Queued(slot[k], p) /\ KeptBut(k)
           /\ UNCHANGED <<wire, dw, peer, call, count, lock>>
<1>1. TypeOK /\ IdInv /\ ToldInv
  BY Parts
<1>2. pipe # <<>> /\ Head(pipe).cmd = "D" /\ pipe' = Tail(pipe) /\ slot[k].id = Head(pipe).id
  BY DEF Queues, Command
<1>3. /\ Head(pipe) \in Request /\ Head(pipe).id \in Id
      /\ Head(pipe) = pipe[1] /\ 1 \in DOMAIN pipe
  BY <1>1, <1>2, HeadPipe
<1>4. Head(pipe).pkg \in Package
  BY <1>2, <1>3 DEF Request
<1>5. Head(pipe).pkg.to = slot[k].id /\ "open" \in told[slot[k].id]
  BY <1>1, <1>2, <1>3 DEF ToldInv
<1>6. HASH(slot[k].id) = k
  BY <1>1, <1>2, <1>3, SlotOf DEF Id
<1>7. UNCHANGED <<wire, dw, peer, call, count, lock>>
  BY CommandFrame DEF Queues, senderVars
<1>8. slot'[k] = Queued(slot[k], Head(pipe).pkg) /\ \A j \in Slot \ {k} : slot'[j] = slot[j]
  BY <1>1 DEF Queues, TypeOK
<1>9. KeptBut(k)
  BY <1>7, <1>8 DEF KeptBut, Kept
<1> QED
  BY <1>2, <1>3, <1>4, <1>5, <1>6, <1>7, <1>8, <1>9

LEMMA QueuesFlow ==
  ASSUME SocketInv, ~failed, StreamInv, EndInv, NEW k \in Slot, Queues(k), NEW y \in Id
  PROVE  Flow(y)
<1>1. TypeOK /\ SizeInv
  BY Parts
<1>2. PICK p \in Package :
           /\ p = Head(pipe).pkg /\ p.to \in Id /\ p.to = slot[k].id /\ HASH(p.to) = k
           /\ "open" \in told[p.to] /\ pipe # <<>> /\ pipe' = Tail(pipe)
           /\ Head(pipe) = pipe[1] /\ 1 \in DOMAIN pipe /\ Head(pipe).cmd = "D"
           /\ slot'[k] = Queued(slot[k], p) /\ KeptBut(k)
           /\ UNCHANGED <<wire, dw, peer, call, count, lock>>
  BY QueuesHead
<1>3. HASH(y) \in Slot /\ wire[y] \in Seq(Package)
  BY <1>1, StreamType
<1>4. CASE HASH(y) # k
  BY <1>1, <1>2, <1>3, <1>4, KeptFlow DEF KeptBut
<1>5. slot'[k].id = slot[k].id
  BY <1>2 DEF Queues, Queued, TypeOK, Socket
<1>6. CASE HASH(y) = k /\ y # p.to
  <2>1. ~Live(y)'
    BY <1>2, <1>5, <1>6 DEF Live
  <2> QED
    BY <1>1, <1>2, <2>1, CutFlow
<1>7. CASE y = p.to /\ ~Live(y)
  <2>1. ~Live(y)'
    BY <1>2, <1>5, <1>7 DEF Live
  <2> QED
    BY <1>1, <1>2, <2>1, CutFlow
<1>8. CASE y = p.to /\ Live(y)
  <2> DEFINE w == wire[y]
             r == Rest(dw[k])
             h == Units(slot[k].high)
             l == Units(slot[k].low)
             h2 == Units(slot'[k].high)
             l2 == Units(slot'[k].low)
  <2>1. w \in Seq(Package) /\ r \in Seq(Package) /\ h \in Seq(Package) /\ l \in Seq(Package)
    BY <1>1, <1>3, PendingType
  <2>2. slot[k] \in Socket /\ slot[k].low \in Seq(Buffer)
    BY <1>1 DEF TypeOK, Socket
  <2>14. h2 = Units(Queued(slot[k], p).high) /\ l2 = Units(Queued(slot[k], p).low)
    BY <1>2
  <2>15. \E d \in Seq(Package) :
           /\ Len(d) = Unit /\ d[1] = p /\ d[2] = p
           /\ \/ /\ Units(Queued(slot[k], p).high) = h \o d
                 /\ Units(Queued(slot[k], p).low) = l
                 /\ p.kind = "D" \/ l = <<>>
              \/ /\ Units(Queued(slot[k], p).high) = h
                 /\ Units(Queued(slot[k], p).low) = l \o d
                 /\ p.kind = "P"
    BY <2>2, QueuedUnits
  <2>3. PICK d \in Seq(Package) :
           /\ Len(d) = Unit /\ d[1] = p /\ d[2] = p
           /\ \/ h2 = h \o d /\ l2 = l /\ (p.kind = "D" \/ l = <<>>)
              \/ h2 = h /\ l2 = l \o d /\ p.kind = "P"
    BY ONLY <2>14, <2>15, Zenon
  <2>4. Live(y)'
    BY <1>2, <1>5, <1>8 DEF Live
  <2>5. Stream(y) = w \o (r \o (h \o l))
    BY <1>2, <1>8 DEF Stream, Pending
  <2>6. Stream(y)' = w \o (r \o (h2 \o l2))
    BY <1>2, <1>8, <2>4 DEF Stream, Pending, HASH
  <2>7. Len(Stream(y)) % 2 = 0 /\ Low(l)
    BY <1>8 DEF StreamInv, EndInv, Unit
  <2>8. Len(l) % 2 = 0
    BY <1>1, <2>2, WholeEven DEF SizeInv
  <2>9. Comes(p)
    BY <1>2 DEF Comes
  <2> DEFINE s == Stream(y)
             t == Stream(y)'
  <2> SUFFICES \E n \in 0..Len(s) :
                 n % Unit = 0 /\ Inserts(s, t, n, p) /\ Passes(s, n, p)
    BY <1>2, <1>8, <2>9 DEF Flow
  <2> HIDE DEF w, r, h, l, h2, l2, s, t
  <2>10. PICK a \in Seq(Package) :
           /\ w \o (r \o (h \o l)) = a \o l
           /\ w \o (r \o ((h \o d) \o l)) = a \o (d \o l)
           /\ w \o (r \o (h \o (l \o d))) = (w \o (r \o (h \o l))) \o d
    <3>1. d \in Seq(Package)
      BY <2>3
    <3>2. Regrouped(w, r, h, l, d)
      BY ONLY <2>1, <3>1, Regroup
    <3> QED
      BY ONLY <3>2, Zenon DEF Regrouped
  <2>11. s = a \o l
    BY <2>5, <2>10 DEF s
  <2>12. CASE h2 = h \o d /\ l2 = l /\ (p.kind = "D" \/ l = <<>>)
    <3>1. t = a \o (d \o l)
      BY <2>6, <2>10, <2>12 DEF t
    <3>2. Yields(l, p)
      BY <2>7, <2>12 DEF Yields, Low
    <3>3. Len(a) \in 0..Len(s) /\ Inserts(s, t, Len(a), p) /\ Passes(s, Len(a), p)
      BY ONLY <2>1, <2>3, <2>10, <2>11, <3>1, <3>2, PutBetween
    <3>4. Len(a) % Unit = 0
      <4>1. Len(s) = Len(a) + Len(l) /\ Len(a) \in Nat /\ Len(l) \in Nat
        BY <2>1, <2>11, ConcatAt
      <4>2. Len(s) % 2 = 0
        BY <2>7 DEF s
      <4> QED
        BY ONLY <2>8, <4>1, <4>2, EvenDiff DEF Unit
    <3> QED
      BY <3>3, <3>4
  <2>13. CASE h2 = h /\ l2 = l \o d /\ p.kind = "P"
    <3>1. t = s \o d
      BY <2>5, <2>6, <2>10, <2>13 DEF s, t
    <3>2. s \in Seq(Package)
      BY <1>1, StreamType DEF s
    <3>3. <<>> \in Seq(Package) /\ Yields(<<>>, p)
      BY EmptySeq DEF Yields
    <3>4. s \o <<>> = s /\ d \o <<>> = d
      BY <2>3, <3>2, ConcatNone
    <3>5. Len(s) \in 0..Len(s) /\ Inserts(s, t, Len(s), p) /\ Passes(s, Len(s), p)
      BY ONLY <2>3, <3>1, <3>2, <3>3, <3>4, PutBetween
    <3> QED
      BY <2>7, <3>5 DEF s, Unit
  <2> QED
    BY <2>3, <2>12, <2>13
<1> QED
  BY <1>4, <1>6, <1>7, <1>8

\* Every step does one of these to every stream.
LEMMA FlowAll ==
  ASSUME SocketInv, ~failed, WireInv, Next, NEW x \in Id
  PROVE  Flow(x)
<1>1. TypeOK /\ StreamInv /\ NumberInv /\ WriteInv /\ EndInv
  BY Parts DEF WireInv
<1>2. CASE Quiet
  BY <1>1, <1>2, QuietFlow
<1>3. CASE \E k \in Slot : Empties(k) \/ Breaks(k) \/ Queues(k)
  BY <1>1, <1>3, EmptiesFlow, BreaksFlow, QueuesFlow
<1>4. CASE \E y \in Id : News(y)
  BY <1>1, <1>4, NewsFlow
<1>5. CASE \E c \in Sender : DirectWrite(c)
  BY <1>1, <1>5, DirectFlow
<1>6. CASE \E e \in ev \ {None} : \E u : SendBuffer(e, u)
  BY <1>1, <1>6, SendBufferFlow
<1> QED
  BY <1>1, <1>2, <1>3, <1>4, <1>5, <1>6, Kinds
-----------------------------------------------------------------------------
(* The numbers of the packages.                                            *)

LEMMA ToldGrows ==
  ASSUME SocketInv, ~failed, Next, NEW x \in Id
  PROVE  told[x] \subseteq told'[x]
<1>1. TypeOK /\ IdInv /\ CloseInv
  BY Parts
<1>2. CASE Old
  BY <1>1, <1>2, OldTells, TellFacts
<1>3. CASE OpenSocket
  <2>1. \/ Tell(Head(pipe).id, "err") \/ TellNothing \/ Tell(Head(pipe).id, "open")
    BY <1>3, OpenFacts
  <2> QED
    BY <1>1, <2>1, TellOne DEF TellNothing
<1>4. CASE \E y \in Id : Connect(y)
  BY <1>4, ConnectFacts DEF ownerVars
<1>5. CASE \E y \in Id : Accept(y)
  BY <1>1, <1>5, AcceptFacts, TellOne
<1> QED
  BY <1>2, <1>3, <1>4, <1>5 DEF Old

\* The senders and the pipe are left alone, or the thread takes a request, or
\* the owner sends one.
Aside ==
  /\ UNCHANGED <<call, count>>
  /\ \/ UNCHANGED pipe
     \/ pipe # <<>> /\ pipe' = Tail(pipe)
     \/ \E r \in Request :
          /\ r.cmd \notin {"D", "W"} /\ pipe' = Append(pipe, r)
          /\ r.cmd = "X" => "shutdown" \in Asks

\* A step is one of a sender, or leaves the senders alone.
LEMMA CallCases ==
  ASSUME SocketInv, ~failed, Next
  PROVE  Aside \/ \E c \in Sender : Sending(c)
<1>1. CASE Asking
  <2>1. UNCHANGED <<call, count>>
    BY <1>1, AskingFrame DEF senderVars
  <2>2. PICK x \in Id : Start(x) \/ \E how \in Asks : Close(x, how)
    BY <1>1 DEF Asking
  <2>3. \A cmd \in {"R", "K", "X"} : [cmd |-> cmd, id |-> x] \in Request
    BY <2>2, RequestType
  <2>4. \E cmd \in {"R", "K", "X"} :
          /\ pipe' = Append(pipe, [cmd |-> cmd, id |-> x])
          /\ cmd = "X" => "shutdown" \in Asks
    <3>1. CASE Start(x)
      BY <3>1 DEF Start
    <3>2. ASSUME NEW how \in Asks, Close(x, how)
          PROVE  \E cmd \in {"K", "X"} :
                   /\ pipe' = Append(pipe, [cmd |-> cmd, id |-> x])
                   /\ cmd = "X" => "shutdown" \in Asks
      <4>1. how = "close" \/ how = "shutdown"
        BY SocketServerAssumption
      <4> QED
        BY <3>2, <4>1 DEF Close
    <3> QED
      BY <2>2, <3>1, <3>2
  <2>5. \E r \in Request :
          /\ r.cmd \notin {"D", "W"} /\ pipe' = Append(pipe, r)
          /\ r.cmd = "X" => "shutdown" \in Asks
    BY <2>3, <2>4
  <2> QED
    BY <2>1, <2>5 DEF Aside
<1>2. CASE Peer
  BY <1>2, PeerFrame DEF Aside, senderVars, pollVars
<1>3. CASE Idle
  BY <1>3, IdleFrame DEF Aside, senderVars
<1>4. CASE ChangesSlot
  <2>1. UNCHANGED <<call, count>>
    BY <1>4, ThreadFrame DEF senderVars
  <2>2. \/ \E cmd \in {"R", "K", "X", "D", "W"} : Command(cmd)
        \/ ForceClose
        \/ \E e \in ev : Handling(e)
    BY <1>4, ChangesCases
  <2> QED
    BY <2>1, <2>2 DEF Aside, Command, ForceClose, Handling
<1>5. CASE OpenSocket
  BY <1>5, OpenFacts DEF Aside, senderVars
<1>6. CASE \E x \in Id : Connect(x)
  <2>1. PICK x \in Id : Connect(x)
    BY <1>6
  <2>2. pipe' = Append(pipe, [cmd |-> "O", id |-> x]) /\ UNCHANGED <<call, count>>
    BY <2>1, ConnectFacts DEF senderVars
  <2>3. [cmd |-> "O", id |-> x] \in Request
    BY <2>1, RequestType
  <2>4. \E r \in Request : r.cmd \notin {"D", "W", "X"} /\ pipe' = Append(pipe, r)
    BY <2>2, <2>3
  <2> QED
    BY <2>2, <2>4 DEF Aside
<1>7. CASE \E x \in Id : Accept(x)
  BY <1>7, AcceptFacts DEF Aside, senderVars
<1> QED
  BY <1>1, <1>2, <1>3, <1>4, <1>5, <1>6, <1>7, Cases

\* The numbers of a sender that takes a step.
Numbers(c) ==
  /\ \A d \in Sender \ {c} : call'[d] = call[d] /\ count'[d] = count[d]
  /\ call'[c] # None => call'[c].pkg.by = c /\ call'[c].pkg.no = count'[c]
  /\ \/ count'[c] = count[c] + 1 /\ call[c] = None /\ UNCHANGED pipe
     \/ /\ count'[c] = count[c] /\ call[c] # None
        /\ Waits(c)' => Waits(c)
        /\ \/ UNCHANGED pipe
           \/ \E r \in Request : r.cmd = "W" /\ pipe' = Append(pipe, r)
           \/ \E r \in Request :
                /\ pipe' = Append(pipe, r) /\ r.cmd = "D" /\ r.pkg = call[c].pkg
                /\ r.id = call[c].pkg.to
                /\ call[c].pc = "request" /\ call'[c] = None

LEMMA SendNumbers ==
  ASSUME TypeOK, NEW c \in Sender, NEW x \in Id, NEW kind \in Sends, Send(c, x, kind)
  PROVE  Numbers(c)
<1>1. /\ call \in [Sender -> {None} \cup
              [pc : {"try", "lock", "write", "trigger", "queue", "request"}, pkg : Package]]
      /\ count \in [Sender -> Nat]
  BY DEF TypeOK
<1>2. call[c] = None /\ UNCHANGED pipe /\ count' = [count EXCEPT ![c] = @ + 1]
  BY DEF Send, pollVars
<1>3. \A d \in Sender \ {c} : call'[d] = call[d] /\ count'[d] = count[d]
  BY <1>1 DEF Send
<1>4. count'[c] = count[c] + 1
  BY <1>1, <1>2
<1>5. PICK pc : call' = [call EXCEPT ![c] = IF ~(~Invalid(x) /\ ~(kind = "D" /\ slot[HASH(x)].closing)) THEN None
                  ELSE [pc |-> pc, pkg |-> [by |-> c, no |-> count[c] + 1, to |-> x, kind |-> kind]]]
  BY DEF Send
<1>6. call'[c] # None => call'[c].pkg.by = c /\ call'[c].pkg.no = count[c] + 1
  BY <1>1, <1>5
<1> QED
  BY <1>2, <1>3, <1>4, <1>6 DEF Numbers

\* A call keeps its number, and a package leaves it for the pipe once.
LEMMA StepNumbers ==
  ASSUME TypeOK, ToldInv, NumberInv, NEW c \in Sender, Sending(c)
  PROVE  Numbers(c)
<1>1. CASE \E x \in Id, kind \in Sends : Send(c, x, kind)
  BY <1>1, SendNumbers
<1>2. CASE SenderStep(c)
  <2>1. UNCHANGED count /\ call[c] # None
    BY <1>2 DEF SenderStep, TryLock, DoubleCheck, DirectWrite, Trigger, IncSending,
                SendRequest
  <2>2. call[c].pkg.by = c /\ call[c].pkg.no = count[c]
    BY <2>1 DEF NumberInv
  <2>3. /\ \A d \in Sender \ {c} : call'[d] = call[d]
        /\ \/ /\ UNCHANGED pipe /\ call'[c].pkg = call[c].pkg
              /\ call[c].pc = "trigger" => FALSE
           \/ UNCHANGED pipe /\ call'[c] = None
           \/ call'[c] = None /\ pipe' = Append(pipe, [cmd |-> "W", id |-> call[c].pkg.to])
           \/ /\ call[c].pc = "request" /\ call'[c] = None
              /\ pipe' = Append(pipe, [cmd |-> "D", id |-> call[c].pkg.to,
                                       pkg |-> call[c].pkg])
    BY <2>1, SendingCalls
  <2>4. call[c].pkg \in Package /\ call[c].pkg.to \in Id
    BY <2>1, CallType
  <2>5. /\ [cmd |-> "W", id |-> call[c].pkg.to] \in Request
        /\ [cmd |-> "D", id |-> call[c].pkg.to, pkg |-> call[c].pkg] \in Request
    BY <2>4, RequestType
  <2>6. Waits(c)' => Waits(c)
    BY <2>1, <2>3 DEF Waits
  <2>7. CASE UNCHANGED pipe
    BY <2>1, <2>2, <2>3, <2>6, <2>7 DEF Numbers
  <2>8. CASE call'[c] = None /\ pipe' = Append(pipe, [cmd |-> "W", id |-> call[c].pkg.to])
    <3>1. \E r \in Request : r.cmd = "W" /\ pipe' = Append(pipe, r)
      BY <2>5, <2>8
    <3> QED
      BY <2>1, <2>3, <2>6, <2>8, <3>1 DEF Numbers
  <2>9. CASE /\ call[c].pc = "request" /\ call'[c] = None
             /\ pipe' = Append(pipe, [cmd |-> "D", id |-> call[c].pkg.to,
                                      pkg |-> call[c].pkg])
    <3>1. \E r \in Request :
                /\ pipe' = Append(pipe, r) /\ r.cmd = "D" /\ r.pkg = call[c].pkg
                /\ r.id = call[c].pkg.to
      BY <2>5, <2>9
    <3> QED
      BY <2>1, <2>3, <2>6, <2>9, <3>1 DEF Numbers
  <2> QED
    BY <2>3, <2>7, <2>8, <2>9
<1> QED
  BY <1>1, <1>2 DEF Sending

LEMMA GivenKept ==
  ASSUME SocketInv, ~failed, NumberInv, Next, NEW p \in Package, Given(p)
  PROVE  Given(p)'
<1>1. TypeOK /\ ToldInv
  BY Parts
<1>2. p.by \in Sender /\ p.no \in Nat
  BY DEF Package
<1>3. count[p.by] \in Nat
  BY <1>1, <1>2 DEF TypeOK
<1>4. CASE Aside
  BY <1>4 DEF Aside, Given, Waits
<1>5. ASSUME NEW c \in Sender, Sending(c)
      PROVE  Given(p)'
  <2>1. Numbers(c)
    BY <1>1, <1>5, StepNumbers
  <2>2. CASE p.by # c
    BY <1>2, <2>1, <2>2 DEF Numbers, Given, Waits
  <2>3. CASE p.by = c /\ count'[c] = count[c] + 1
    BY <1>2, <1>3, <2>3 DEF Given
  <2>4. CASE p.by = c /\ count'[c] = count[c] /\ (Waits(c)' => Waits(c))
    BY <1>2, <1>3, <2>4 DEF Given, Waits
  <2> QED
    BY <2>1, <2>2, <2>3, <2>4 DEF Numbers
<1> QED
  BY <1>4, <1>5, CallCases

LEMMA ComesGiven ==
  ASSUME SocketInv, ~failed, NumberInv, Next, NEW p \in Package, Comes(p)
  PROVE  Given(p)' /\ Newest(Stream(p.to), p)
<1>1. TypeOK /\ ToldInv /\ IdInv
  BY Parts
<1>2. p.to \in Id /\ p.by \in Sender /\ p.no \in Nat
  BY DEF Package
<1>3. Stream(p.to) \in Seq(Package)
  BY <1>1, <1>2, StreamType
<1>4. CASE /\ pipe # <<>> /\ pipe' = Tail(pipe) /\ UNCHANGED <<call, count>>
           /\ Head(pipe).cmd = "D" /\ p = Head(pipe).pkg
  <2>1. Head(pipe) = pipe[1] /\ 1 \in DOMAIN pipe
    BY <1>1, <1>4, HeadPipe
  <2>2. Given(p) /\ Newest(Stream(p.to), p)
    BY <1>4, <2>1 DEF NumberInv
  <2> QED
    BY <2>2, GivenKept
<1>5. ASSUME NEW c \in Sender,
             call[c] # None, call[c].pc = "write", p = call[c].pkg,
             ~Waits(c)', UNCHANGED <<pipe, count>>
      PROVE  Given(p)' /\ Newest(Stream(p.to), p)
  <2>1. p.by = c /\ p.no = count[c] /\ Waits(c)
    BY <1>5 DEF NumberInv, Waits
  <2>2. Given(p)'
    BY <1>2, <1>5, <2>1 DEF Given, Waits
  <2>3. \A i \in DOMAIN Stream(p.to) : Given(Stream(p.to)[i])
    BY <1>2 DEF NumberInv
  <2>4. Newest(Stream(p.to), p)
    BY <2>1, <2>3 DEF Newest, Given
  <2> QED
    BY <2>2, <2>4
<1> QED
  BY <1>4, <1>5 DEF Comes

LEMMA EvenNext ==
  ASSUME NEW n \in Nat, n % Unit = 0
  PROVE  (n + Unit) % Unit = 0
BY DEF Unit

\* Where the units of the streams come from.
LEMMA StreamFrom ==
  ASSUME TypeOK, TypeOK', NEW x \in Id, Flow(x), NEW i \in DOMAIN Stream(x)'
  PROVE  \/ \E j \in DOMAIN Stream(x) : Stream(x)'[i] = Stream(x)[j]
         \/ \E p \in Package : Comes(p) /\ p.to = x /\ Stream(x)'[i] = p
<1> DEFINE s == Stream(x)
           t == Stream(x)'
<1>1. s \in Seq(Package) /\ t \in Seq(Package) /\ i \in DOMAIN t
  BY StreamType, StreamTypeNext
<1>2. CASE t = s
  BY <1>1, <1>2
<1>3. CASE Begin(s, t)
  <2> HIDE DEF s, t
  <2>1. i \in DOMAIN s /\ t[i] = s[i]
    BY <1>1, <1>3, BeginGood
  <2> QED
    BY <2>1 DEF s, t
<1>4. CASE t = <<>>
  BY <1>1, <1>4
<1>5. ASSUME NEW p \in Package, NEW n \in 0..Len(s), Inserts(s, t, n, p), p.to = x, Comes(p)
      PROVE  \/ \E j \in DOMAIN s : t[i] = s[j]
             \/ \E q \in Package : Comes(q) /\ q.to = x /\ t[i] = q
  <2> HIDE DEF s, t
  <2>1. \E j \in Nat : Place(s, t, n, p, i, j)
    BY <1>1, <1>5, Placed
  <2>2. t[i] = p \/ \E j \in DOMAIN s : t[i] = s[j]
    BY <2>1 DEF Place
  <2> QED
    BY <1>5, <2>2
<1> HIDE DEF s, t
<1>6. Flow(x) => \/ t = s \/ Begin(s, t) \/ t = <<>>
                 \/ \E p \in Package, n \in 0..Len(s) :
                      Inserts(s, t, n, p) /\ p.to = x /\ Comes(p)
  BY DEF Flow, s, t
<1>7. \/ \E j \in DOMAIN s : t[i] = s[j]
      \/ \E q \in Package : Comes(q) /\ q.to = x /\ t[i] = q
  BY <1>2, <1>3, <1>4, <1>5, <1>6 DEF s, t
<1> QED
  BY <1>7 DEF s, t

\* The streams stay whole and in order.
LEMMA StreamStep ==
  ASSUME SocketInv, ~failed, WireInv, TypeOK', Next
  PROVE  StreamInv'
<1>1. TypeOK /\ StreamInv /\ NumberInv
  BY Parts DEF WireInv
<1> SUFFICES ASSUME NEW x \in Id
             PROVE  /\ Paired(Stream(x)', x) /\ Ordered(Stream(x)')
                    /\ Live(x)' => Len(Stream(x)') % Unit = 0
                    /\ "open" \notin told'[x] => Stream(x)' = <<>>
  BY DEF StreamInv, Paired, Ordered
<1> DEFINE s == Stream(x)
           t == Stream(x)'
           S == Package
<1>2. s \in Seq(S) /\ t \in Seq(S)
  BY <1>1, StreamType, StreamTypeNext
<1>3. /\ Paired(s, x) /\ Ordered(s)
      /\ Live(x) => Len(s) % Unit = 0
      /\ "open" \notin told[x] => s = <<>>
  BY <1>1 DEF StreamInv
<1>4. "open" \in told[x] => "open" \in told'[x]
  BY ToldGrows
<1>5. Flow(x)
  BY FlowAll
<1> USE <1>5 DEF Flow
<1>6. CASE t = s /\ (Live(x)' => Live(x))
  BY <1>3, <1>4, <1>6
<1>7. CASE Begin(s, t) /\ ~Live(x)'
  <2> HIDE DEF s, t
  <2>1. Paired(t, x) /\ Ordered(t) /\ (s = <<>> => t = <<>>)
    BY <1>2, <1>3, <1>7, BeginGood DEF S
  <2> QED
    BY <1>3, <1>4, <1>7, <2>1 DEF s, t
<1>8. CASE t = <<>>
  <2>1. DOMAIN t = {} /\ Len(t) = 0
    BY <1>8
  <2>2. Paired(t, x) /\ Ordered(t)
    BY <2>1 DEF Paired, Ordered
  <2>3. Len(t) % Unit = 0
    BY <2>1 DEF Unit
  <2> QED
    BY <1>8, <2>2, <2>3
<1>9. ASSUME Live(x), "open" \in told[x],
             NEW p \in Package, NEW n \in 0..Len(s),
             n % Unit = 0, Inserts(s, t, n, p), p.to = x, Passes(s, n, p), Comes(p)
      PROVE  /\ Paired(t, x) /\ Ordered(t)
             /\ Len(t) % Unit = 0
  <2>1. Newest(s, p)
    BY <1>1, <1>9, ComesGiven
  <2> HIDE DEF s, t
  <2>2. Paired(t, x)
    BY <1>2, <1>3, <1>9, <2>1, InsertPaired DEF S
  <2>3. Ordered(t)
    BY <1>2, <1>3, <1>9, <2>1, InsertOrdered DEF S
  <2>4. Len(s) \in Nat
    BY <1>2
  <2>5. Len(t) % Unit = 0
    BY <1>3, <1>9, <2>4, EvenNext DEF Inserts
  <2> QED
    BY <2>2, <2>3, <2>5
<1> HIDE DEF s, t, Flow
<1>10. \/ t = s /\ (Live(x)' => Live(x))
       \/ Begin(s, t) /\ ~Live(x)'
       \/ t = <<>>
       \/ /\ Live(x) /\ "open" \in told[x]
          /\ \E p \in Package, n \in 0..Len(s) :
               /\ n % Unit = 0 /\ Inserts(s, t, n, p)
               /\ p.to = x /\ Passes(s, n, p)
               /\ Comes(p)
  BY <1>5 DEF s, t, Flow
<1> QED
  BY <1>4, <1>6, <1>7, <1>8, <1>9, <1>10 DEF s, t

LEMMA AppendOnce ==
  ASSUME pipe \in Seq(Request), NEW r \in Request, pipe' = Append(pipe, r)
  PROVE  pipe' # pipe /\ (pipe # <<>> => pipe' # Tail(pipe))
<1>1. Len(pipe') = Len(pipe) + 1 /\ Len(pipe) \in Nat
  OBVIOUS
<1>2. pipe # <<>> => Len(Tail(pipe)) = Len(pipe) - 1
  OBVIOUS
<1> QED
  BY <1>1, <1>2

LEMMA TailOnce ==
  ASSUME pipe \in Seq(Request), pipe # <<>>
  PROVE  Tail(pipe) # pipe
<1> DEFINE t == Tail(pipe)
<1>1. Len(t) = Len(pipe) - 1 /\ Len(pipe) \in Nat
  OBVIOUS
<1> HIDE DEF t
<1>2. t # pipe
  BY ONLY <1>1
<1> QED
  BY <1>2 DEF t

\* The packages in the pipe of a sender are in order.
PipeOrder ==
  \A i, j \in DOMAIN pipe :
    i < j /\ pipe[i].cmd = "D" /\ pipe[j].cmd = "D" /\ pipe[i].pkg.by = pipe[j].pkg.by
      => pipe[i].pkg.no < pipe[j].pkg.no

PipeGiven ==
  \A j \in DOMAIN pipe : pipe[j].cmd = "D" =>
    Given(pipe[j].pkg) /\ Newest(Stream(pipe[j].pkg.to), pipe[j].pkg)

CallNumbers ==
  \A c \in Sender : call[c] # None => call[c].pkg.by = c /\ call[c].pkg.no = count[c]

StreamGiven == \A x \in Id : \A i \in DOMAIN Stream(x) : Given(Stream(x)[i])

LEMMA NumberParts ==
  ASSUME NumberInv
  PROVE  CallNumbers /\ StreamGiven /\ PipeOrder /\ PipeGiven
<1>1. CallNumbers /\ StreamGiven
  BY DEF NumberInv, CallNumbers, StreamGiven
<1>2. \A j \in DOMAIN pipe : pipe[j].cmd = "D" =>
       /\ Given(pipe[j].pkg) /\ Newest(Stream(pipe[j].pkg.to), pipe[j].pkg)
       /\ \A i \in DOMAIN pipe :
            i < j /\ pipe[i].cmd = "D" /\ pipe[i].pkg.by = pipe[j].pkg.by
              => pipe[i].pkg.no < pipe[j].pkg.no
  BY DEF NumberInv
<1> QED
  BY <1>1, <1>2 DEF PipeOrder, PipeGiven

LEMMA NumberPartsNext ==
  CallNumbers' /\ StreamGiven' /\ PipeOrder' /\ PipeGiven' => NumberInv'
BY DEF NumberInv, CallNumbers, StreamGiven, PipeOrder, PipeGiven

LEMMA CallNumbersStep ==
  ASSUME SocketInv, ~failed, NumberInv, Next
  PROVE  CallNumbers'
<1>1. TypeOK /\ ToldInv
  BY Parts
<1>2. CASE Aside
  BY <1>2, NumberParts DEF Aside, CallNumbers
<1>3. ASSUME NEW c \in Sender, Sending(c)
      PROVE  CallNumbers'
  <2>1. Numbers(c)
    BY <1>1, <1>3, StepNumbers
  <2> QED
    BY <2>1, NumberParts DEF Numbers, CallNumbers
<1> QED
  BY <1>2, <1>3, CallCases

LEMMA StreamGivenStep ==
  ASSUME SocketInv, ~failed, WireInv, TypeOK', Next
  PROVE  StreamGiven'
<1>1. TypeOK /\ NumberInv
  BY Parts DEF WireInv
<1> SUFFICES ASSUME NEW x \in Id, NEW i \in DOMAIN Stream(x)',
                    NEW q, q = Stream(x)'[i]
             PROVE  Given(q)'
  BY DEF StreamGiven, Given, Waits
<1>2. Flow(x)
  BY FlowAll
<1>3. ASSUME NEW j \in DOMAIN Stream(x), q = Stream(x)[j]
      PROVE  Given(q)'
  <2>1. q \in Package /\ Given(q)
    BY <1>1, <1>3, StreamType DEF NumberInv
  <2> QED
    BY <1>1, <2>1, GivenKept
<1>4. ASSUME NEW p \in Package, Comes(p), q = p
      PROVE  Given(q)'
  BY <1>1, <1>4, ComesGiven
<1> QED
  BY <1>1, <1>2, <1>3, <1>4, StreamFrom

\* The request of c, whose call is over.
Requesting(c, r) ==
  /\ call[c] # None /\ call[c].pc = "request" /\ call'[c] = None
  /\ r.pkg = call[c].pkg /\ r.id = call[c].pkg.to
  /\ count'[c] = count[c] /\ \A d \in Sender \ {c} : call'[d] = call[d]

LEMMA PipeCases ==
  ASSUME SocketInv, ~failed, NumberInv, Next
  PROVE  \/ UNCHANGED pipe
         \/ pipe # <<>> /\ pipe' = Tail(pipe) /\ UNCHANGED <<call, count>>
         \/ \E r \in Request :
              /\ pipe' = Append(pipe, r)
              /\ r.cmd = "D" => \E c \in Sender : Requesting(c, r)
              /\ r.cmd = "X" => "shutdown" \in Asks
<1>1. TypeOK /\ ToldInv
  BY Parts
<1>2. CASE Aside
  BY <1>2 DEF Aside
<1>3. ASSUME NEW c \in Sender, Sending(c)
      PROVE  \/ UNCHANGED pipe
             \/ \E r \in Request :
                  /\ pipe' = Append(pipe, r)
                  /\ r.cmd = "D" => \E d \in Sender : Requesting(d, r)
                  /\ r.cmd = "X" => "shutdown" \in Asks
  <2>1. Numbers(c)
    BY <1>1, <1>3, StepNumbers
  <2>2. CASE \E r \in Request : r.cmd = "W" /\ pipe' = Append(pipe, r)
    BY <2>2
  <2>3. CASE /\ count'[c] = count[c] /\ call[c] # None
             /\ \E r \in Request :
                  /\ pipe' = Append(pipe, r) /\ r.cmd = "D" /\ r.pkg = call[c].pkg
                  /\ r.id = call[c].pkg.to
                  /\ call[c].pc = "request" /\ call'[c] = None
    <3>1. PICK r \in Request :
                  /\ pipe' = Append(pipe, r) /\ r.cmd = "D" /\ r.pkg = call[c].pkg
                  /\ r.id = call[c].pkg.to
                  /\ call[c].pc = "request" /\ call'[c] = None
      BY <2>3
    <3>2. Requesting(c, r)
      BY <2>1, <2>3, <3>1 DEF Requesting, Numbers
    <3> QED
      BY <3>1, <3>2
  <2> QED
    BY <2>1, <2>2, <2>3 DEF Numbers
<1> QED
  BY <1>2, <1>3, CallCases

LEMMA PipeOrderStep ==
  ASSUME SocketInv, ~failed, NumberInv, Next
  PROVE  PipeOrder'
<1>1. TypeOK /\ IdInv /\ CallNumbers /\ PipeOrder /\ PipeGiven /\ pipe \in Seq(Request)
  BY Parts, NumberParts DEF TypeOK
<1>2. CASE UNCHANGED pipe
  BY <1>1, <1>2 DEF PipeOrder
<1>3. CASE pipe # <<>> /\ pipe' = Tail(pipe)
  <2>1. /\ DOMAIN pipe' = 1..(Len(pipe) - 1)
        /\ \A i \in DOMAIN pipe' : i + 1 \in DOMAIN pipe /\ pipe'[i] = pipe[i + 1]
    BY <1>1, <1>3, HeadPipe
  <2> SUFFICES ASSUME NEW i \in DOMAIN pipe', NEW j \in DOMAIN pipe', i < j,
                      pipe'[i].cmd = "D", pipe'[j].cmd = "D",
                      pipe'[i].pkg.by = pipe'[j].pkg.by
               PROVE  pipe'[i].pkg.no < pipe'[j].pkg.no
    BY DEF PipeOrder
  <2>2. i + 1 < j + 1
    BY <1>1, <2>1
  <2> QED
    BY <1>1, <2>1, <2>2 DEF PipeOrder
<1>4. ASSUME NEW r \in Request, pipe' = Append(pipe, r),
             r.cmd = "D" => \E c \in Sender : Requesting(c, r)
      PROVE  PipeOrder'
  <2>1. PICK n : /\ n \in DOMAIN pipe' /\ pipe'[n] = r /\ n \notin DOMAIN pipe
                 /\ DOMAIN pipe' = DOMAIN pipe \cup {n}
                 /\ \A i \in DOMAIN pipe : pipe'[i] = pipe[i] /\ i < n
                 /\ DOMAIN pipe \subseteq Nat /\ n \in Nat
    BY <1>1, <1>4, AppendFacts
  <2> SUFFICES ASSUME NEW i \in DOMAIN pipe', NEW j \in DOMAIN pipe', i < j,
                      pipe'[i].cmd = "D", pipe'[j].cmd = "D",
                      pipe'[i].pkg.by = pipe'[j].pkg.by
               PROVE  pipe'[i].pkg.no < pipe'[j].pkg.no
    BY DEF PipeOrder
  <2>2. i \in DOMAIN pipe
    BY <2>1
  <2>3. CASE j \in DOMAIN pipe
    BY <1>1, <2>1, <2>2, <2>3 DEF PipeOrder
  <2>4. CASE j = n
    <3>1. PICK c \in Sender : Requesting(c, r)
      BY <1>4, <2>1, <2>4
    <3>2. r.pkg.by = c /\ r.pkg.no = count[c] /\ Waits(c)
      BY <1>1, <3>1 DEF Requesting, CallNumbers, Waits
    <3>3. pipe[i].pkg.by = c /\ Given(pipe[i].pkg)
      BY <1>1, <2>1, <2>2, <2>4, <3>2 DEF PipeGiven
    <3>4. pipe[i].pkg.no < count[c]
      BY <3>2, <3>3 DEF Given
    <3> QED
      BY <2>1, <2>2, <2>4, <3>2, <3>4
  <2> QED
    BY <2>1, <2>3, <2>4
<1> QED
  BY <1>2, <1>3, <1>4, PipeCases

\* A package that is still in the pipe stays behind the stream.
LEMMA NewestKept ==
  ASSUME SocketInv, ~failed, WireInv, TypeOK', Next, NEW p \in Package,
         Newest(Stream(p.to), p),
         \A q \in Package : Comes(q) /\ q.to = p.to /\ q.by = p.by => q.no < p.no
  PROVE  Newest(Stream(p.to)', p)
<1>1. TypeOK
  BY Parts
<1> SUFFICES ASSUME NEW x \in Id, x = p.to, NEW i \in DOMAIN Stream(x)',
                    NEW u, u = Stream(x)'[i], u.by = p.by
             PROVE  u.no < p.no
  <2>1. p.to \in Id
    BY DEF Package
  <2> QED
    BY <2>1 DEF Newest
<1>2. Flow(x)
  BY FlowAll
<1>3. \/ \E j \in DOMAIN Stream(x) : u = Stream(x)[j]
      \/ \E q \in Package : Comes(q) /\ q.to = x /\ u = q
  BY <1>1, <1>2, StreamFrom
<1> QED
  BY <1>3 DEF Newest

LEMMA PipeGivenStep ==
  ASSUME SocketInv, ~failed, WireInv, TypeOK', Next
  PROVE  PipeGiven'
<1>1. /\ TypeOK /\ IdInv /\ ToldInv /\ NumberInv /\ WriteInv
      /\ CallNumbers /\ StreamGiven /\ PipeOrder /\ PipeGiven /\ pipe \in Seq(Request)
  BY Parts, NumberParts DEF TypeOK, WireInv
<1> SUFFICES ASSUME NEW j \in DOMAIN pipe', NEW p, p = pipe'[j].pkg, pipe'[j].cmd = "D"
             PROVE  Given(p)' /\ Newest(Stream(p.to)', p)
  BY DEF PipeGiven, Given, Waits, Newest
<1>2. p \in Package
  <2>1. pipe'[j] \in Request
    BY DEF TypeOK
  <2> QED
    BY <2>1 DEF Request
<1>3. ASSUME NEW i \in DOMAIN pipe, p = pipe[i].pkg, pipe[i].cmd = "D",
             \A q \in Package : Comes(q) /\ q.to = p.to /\ q.by = p.by => q.no < p.no
      PROVE  Given(p)' /\ Newest(Stream(p.to)', p)
  <2>1. Given(p) /\ Newest(Stream(p.to), p)
    BY <1>1, <1>3 DEF PipeGiven
  <2> QED
    BY <1>1, <1>2, <1>3, <2>1, GivenKept, NewestKept
<1>4. CASE UNCHANGED pipe
  <2>1. p = pipe[j].pkg /\ pipe[j].cmd = "D" /\ j \in DOMAIN pipe
    BY <1>4
  <2>2. pipe[j].id = p.to
    BY <1>1, <2>1 DEF ToldInv
  <2>3. ASSUME NEW q \in Package, Comes(q), q.to = p.to, q.by = p.by
        PROVE  FALSE
    <3>1. ~(pipe # <<>> /\ pipe' = Tail(pipe))
      BY <1>1, <1>4, TailOnce
    <3>2. PICK c \in Sender : call[c] # None /\ call[c].pc = "write" /\ q = call[c].pkg
      BY <2>3, <3>1 DEF Comes
    <3>3. q.by = c
      BY <1>1, <3>2 DEF CallNumbers
    <3> QED
      BY <1>1, <2>1, <2>2, <2>3, <3>2, <3>3 DEF WriteInv
  <2> QED
    BY <1>3, <2>1, <2>3
<1>5. CASE pipe # <<>> /\ pipe' = Tail(pipe)
  <2>1. /\ Head(pipe) = pipe[1] /\ 1 \in DOMAIN pipe
        /\ DOMAIN pipe' = 1..(Len(pipe) - 1)
        /\ j + 1 \in DOMAIN pipe /\ pipe'[j] = pipe[j + 1]
    BY <1>1, <1>5, HeadPipe
  <2>2. 1 < j + 1
    BY <1>1, <2>1
  <2>3. ASSUME NEW q \in Package, Comes(q), q.to = p.to, q.by = p.by
        PROVE  q.no < p.no
    <3>1. ~UNCHANGED pipe
      BY <1>1, <1>5, TailOnce
    <3>2. Head(pipe).cmd = "D" /\ q = Head(pipe).pkg
      BY <2>3, <3>1 DEF Comes
    <3> QED
      BY <1>1, <2>1, <2>2, <2>3, <3>2 DEF PipeOrder
  <2> QED
    BY <1>3, <2>1, <2>3
<1>6. ASSUME NEW r \in Request, pipe' = Append(pipe, r),
             r.cmd = "D" => \E c \in Sender : Requesting(c, r)
      PROVE  Given(p)' /\ Newest(Stream(p.to)', p)
  <2>1. PICK n : /\ n \in DOMAIN pipe' /\ pipe'[n] = r /\ n \notin DOMAIN pipe
                 /\ DOMAIN pipe' = DOMAIN pipe \cup {n}
                 /\ \A i \in DOMAIN pipe : pipe'[i] = pipe[i] /\ i < n
                 /\ DOMAIN pipe \subseteq Nat /\ n \in Nat
    BY <1>1, <1>6, AppendFacts
  <2>2. \A q \in Package : ~Comes(q)
    BY <1>1, <1>6, AppendOnce DEF Comes
  <2>3. CASE j \in DOMAIN pipe
    BY <1>3, <2>1, <2>2, <2>3
  <2>4. CASE j = n
    <3>1. PICK c \in Sender : Requesting(c, r)
      BY <1>6, <2>1, <2>4
    <3>2. /\ p.by = c /\ p.no = count[c] /\ Waits(c)
          /\ count'[c] = count[c] /\ call'[c] = None
      BY <1>1, <2>1, <2>4, <3>1 DEF Requesting, CallNumbers, Waits
    <3>3. count[c] \in Nat
      BY <1>1 DEF TypeOK
    <3>4. Given(p)'
      BY <3>2, <3>3 DEF Given, Waits
    <3>5. p.to \in Id
      BY <1>2 DEF Package
    <3>6. Newest(Stream(p.to), p)
      BY <1>1, <3>2, <3>5 DEF StreamGiven, Newest, Given
    <3> QED
      BY <1>2, <2>2, <3>4, <3>6, NewestKept
  <2> QED
    BY <2>1, <2>3, <2>4
<1> QED
  BY <1>1, <1>4, <1>5, <1>6, PipeCases

\* The numbers keep growing from the streams to the pipe and the senders.
LEMMA NumberStep ==
  ASSUME SocketInv, ~failed, WireInv, TypeOK', Next
  PROVE  NumberInv'
<1>1. NumberInv
  BY DEF WireInv
<1> QED
  BY <1>1, CallNumbersStep, StreamGivenStep, PipeOrderStep, PipeGivenStep, NumberPartsNext
-----------------------------------------------------------------------------
(* A sender that may write itself.                                         *)

\* What waits at k is whole, and none of it is of c.
Clear(k, c) ==
  Len(Pending(k)) % Unit = 0 /\ \A i \in DOMAIN Pending(k) : Pending(k)[i].by # c

LEMMA KeptPending ==
  ASSUME NEW k, Kept(k)
  PROVE  Pending(k)' = Pending(k) /\ slot'[k].id = slot[k].id
BY DEF Kept, Pending

LEMMA NothingPending ==
  ASSUME NEW k, NEW c, dw'[k] = None, BufferEmpty(slot'[k])
  PROVE  Clear(k, c)'
<1>1. Units(slot'[k].high) = <<>> /\ Units(slot'[k].low) = <<>> /\ Rest(dw'[k]) = <<>>
  BY UnitsEmpty DEF BufferEmpty, Rest
<1>2. <<>> \o <<>> = <<>>
  BY EmptySeq, ConcatNone
<1>3. Pending(k)' = <<>>
  BY <1>1, <1>2 DEF Pending
<1>4. Len(<<>>) % Unit = 0
  BY DEF Unit
<1> QED
  BY <1>3, <1>4 DEF Clear

LEMMA QueuesInsert ==
  ASSUME SocketInv, ~failed, NEW k \in Slot, Queues(k)
  PROVE  /\ Pending(k) \in Seq(Package) /\ Pending(k)' \in Seq(Package)
         /\ \E n \in 0..Len(Pending(k)) :
              Inserts(Pending(k), Pending(k)', n, Head(pipe).pkg)
<1>1. TypeOK
  BY Parts
<1>2. PICK p \in Package :
           /\ p = Head(pipe).pkg
           /\ slot'[k] = Queued(slot[k], p)
           /\ UNCHANGED dw
  BY QueuesHead
<1> DEFINE w == <<>>
           r == Rest(dw[k])
           h == Units(slot[k].high)
           l == Units(slot[k].low)
           h2 == Units(slot'[k].high)
           l2 == Units(slot'[k].low)
<1>3. r \in Seq(Package) /\ h \in Seq(Package) /\ l \in Seq(Package)
      /\ Pending(k) \in Seq(Package)
  BY <1>1, PendingType
<1>4. w \in Seq(Package)
  BY EmptySeq
<1>5. slot[k] \in Socket
  BY <1>1 DEF TypeOK
<1>6. \E d \in Seq(Package) :
         /\ Len(d) = Unit /\ d[1] = p /\ d[2] = p
         /\ \/ /\ Units(Queued(slot[k], p).high) = h \o d
               /\ Units(Queued(slot[k], p).low) = l
               /\ p.kind = "D" \/ l = <<>>
            \/ /\ Units(Queued(slot[k], p).high) = h
               /\ Units(Queued(slot[k], p).low) = l \o d
               /\ p.kind = "P"
  BY <1>5, QueuedUnits
<1>7. h2 = Units(Queued(slot[k], p).high) /\ l2 = Units(Queued(slot[k], p).low)
  BY <1>2
<1>8. PICK d \in Seq(Package) :
         /\ Len(d) = Unit /\ d[1] = p /\ d[2] = p
         /\ (h2 = h \o d /\ l2 = l) \/ (h2 = h /\ l2 = l \o d)
  BY ONLY <1>6, <1>7, Zenon
<1> DEFINE s == Pending(k)
           t == Pending(k)'
<1>9. s = r \o (h \o l) /\ t = r \o (h2 \o l2)
  BY <1>2 DEF Pending
<1> HIDE DEF w, r, h, l, h2, l2, s, t
<1>10. Regrouped(w, r, h, l, d)
  <2>1. d \in Seq(Package)
    BY <1>8
  <2> QED
    BY ONLY <1>3, <1>4, <2>1, Regroup
<1>11. PICK a \in Seq(Package) :
         /\ w \o (r \o (h \o l)) = a \o l
         /\ w \o (r \o ((h \o d) \o l)) = a \o (d \o l)
         /\ w \o (r \o (h \o (l \o d))) = (w \o (r \o (h \o l))) \o d
  BY ONLY <1>10, Zenon DEF Regrouped
<1>12. \A z \in Seq(Package) : w \o z = z
  BY EmptySeq, ConcatNone DEF w
<1>13. s \in Seq(Package)
  BY <1>3 DEF s
<1>14. s = a \o l
  BY ONLY <1>9, <1>11, <1>12, <1>13, Zenon
<1>15. CASE h2 = h \o d /\ l2 = l
  <2>1. a \o (d \o l) \in Seq(Package) /\ r \o ((h \o d) \o l) \in Seq(Package)
    <3>1. \A y, z \in Seq(Package) : y \o z \in Seq(Package)
      BY ConcatAt
    <3> QED
      BY ONLY <1>3, <1>8, <1>11, <3>1, Zenon
  <2>2. t = a \o (d \o l)
    BY ONLY <1>9, <1>11, <1>12, <1>15, <2>1, Zenon
  <2>3. Len(a) \in 0..Len(s) /\ Inserts(s, t, Len(a), p)
    BY ONLY <1>3, <1>8, <1>11, <1>14, <2>2, PutBetween
  <2> QED
    BY <1>2, <1>13, <2>1, <2>2, <2>3 DEF s, t
<1>16. CASE h2 = h /\ l2 = l \o d
  <2>1. r \o (h \o (l \o d)) \in Seq(Package) /\ s \o d \in Seq(Package)
    <3>1. \A y, z \in Seq(Package) : y \o z \in Seq(Package)
      BY ConcatAt
    <3> QED
      BY ONLY <1>3, <1>8, <1>13, <3>1, Zenon
  <2>2. t = s \o d
    BY ONLY <1>9, <1>11, <1>12, <1>13, <1>16, <2>1, Zenon
  <2>3. <<>> \in Seq(Package)
    BY EmptySeq
  <2>4. s \o <<>> = s /\ d \o <<>> = d
    BY <1>8, <1>13, ConcatNone
  <2>5. Len(s) \in 0..Len(s) /\ Inserts(s, t, Len(s), p)
    BY ONLY <1>8, <1>13, <2>2, <2>3, <2>4, PutBetween
  <2> QED
    BY <1>2, <1>13, <2>1, <2>2, <2>5 DEF s, t
<1> QED
  BY <1>8, <1>15, <1>16

\* A package that is not of c does not matter to it.
LEMMA QueuesClear ==
  ASSUME SocketInv, ~failed, NEW k \in Slot, Queues(k), NEW c, Clear(k, c),
         Head(pipe).pkg.by # c
  PROVE  Clear(k, c)'
<1> DEFINE s == Pending(k)
           t == Pending(k)'
<1>1. PICK p : p = Head(pipe).pkg
  OBVIOUS
<1>2. s \in Seq(Package) /\ t \in Seq(Package) /\ \E n \in 0..Len(s) : Inserts(s, t, n, p)
  BY <1>1, QueuesInsert
<1>3. Len(s) % Unit = 0 /\ \A i \in DOMAIN s : s[i].by # c
  BY DEF Clear
<1> HIDE DEF s, t
<1>4. PICK n \in 0..Len(s) : Inserts(s, t, n, p)
  BY <1>2
<1>5. \A i \in DOMAIN t : t[i].by # c
  <2> SUFFICES ASSUME NEW i \in DOMAIN t
               PROVE  t[i].by # c
    OBVIOUS
  <2>1. \E j \in Nat : Place(s, t, n, p, i, j)
    BY <1>2, <1>4, Placed
  <2>2. t[i] = p \/ \E j \in DOMAIN s : t[i] = s[j]
    BY <2>1 DEF Place
  <2> QED
    BY <1>1, <1>3, <2>2
<1>6. Len(t) % Unit = 0
  <2>1. Len(s) \in Nat
    BY <1>2
  <2> QED
    BY <1>3, <1>4, <2>1, EvenNext DEF Inserts
<1> QED
  BY <1>5, <1>6 DEF Clear, s, t

\* Nothing of c comes in the way of its direct write.
LEMMA WriteKept ==
  ASSUME SocketInv, ~failed, WireInv, Next, NEW c \in Sender,
         call[c] # None, call[c].pc = "write", call'[c] = call[c],
         NEW x, x = call[c].pkg.to, NEW k, k = HASH(x)
  PROVE  slot'[k].id = x /\ Clear(k, c)'
<1>1. TypeOK /\ FreshInv /\ IdInv
  BY Parts
<1>2. x \in Id /\ k \in Slot
  BY <1>1, CallType
<1>3. /\ slot[k].id = x /\ Clear(k, c)
      /\ \A i \in DOMAIN pipe : pipe[i].cmd = "D" /\ pipe[i].id = x => pipe[i].pkg.by # c
  BY DEF WireInv, WriteInv, Clear
<1>4. lock[k] = c /\ Alive(k) /\ dw[k] = None /\ c # None
  BY <1>1, SocketServerAssumption DEF FreshInv
<1>5. CASE Kept(k)
  BY <1>3, <1>5, KeptPending DEF Clear
<1>6. CASE Quiet
  BY <1>2, <1>5, <1>6 DEF Quiet
<1>7. ASSUME NEW j \in Slot, Empties(j)
      PROVE  slot'[k].id = x /\ Clear(k, c)'
  <2>1. CASE j # k
    BY <1>2, <1>5, <1>7, <2>1 DEF Empties, KeptBut
  <2>2. CASE j = k
    <3>1. slot'[k].id = x /\ BufferEmpty(slot'[k]) /\ dw'[k] = None
      BY <1>3, <1>4, <1>7, <2>2 DEF Empties
    <3> QED
      BY <3>1, NothingPending
  <2> QED
    BY <2>1, <2>2
<1>8. ASSUME NEW j \in Slot, Breaks(j)
      PROVE  slot'[k].id = x /\ Clear(k, c)'
  BY <1>2, <1>4, <1>5, <1>8 DEF Breaks, KeptBut
<1>9. ASSUME NEW j \in Slot, Queues(j)
      PROVE  slot'[k].id = x /\ Clear(k, c)'
  <2>1. PICK p \in Package :
           /\ p = Head(pipe).pkg /\ p.to = slot[j].id
           /\ Head(pipe) = pipe[1] /\ 1 \in DOMAIN pipe /\ Head(pipe).cmd = "D"
           /\ slot'[j] = Queued(slot[j], p) /\ KeptBut(j)
    BY <1>9, QueuesHead
  <2>2. CASE j # k
    BY <1>2, <1>5, <2>1, <2>2 DEF KeptBut
  <2>3. CASE j = k
    <3>1. pipe[1].id = x
      BY <1>3, <1>9, <2>1, <2>3 DEF Queues
    <3>2. Head(pipe).pkg.by # c
      BY <1>3, <2>1, <3>1
    <3>3. slot'[k].id = x
      <4>1. slot[k] \in Socket /\ p \in Package
        BY <1>1, <1>2 DEF TypeOK
      <4>2. Queued(slot[k], p).id = slot[k].id
        BY <4>1 DEF Queued, Socket
      <4> QED
        BY <1>3, <2>1, <2>3, <4>2
    <3> QED
      BY <1>2, <1>3, <1>9, <2>3, <3>2, <3>3, QueuesClear
  <2> QED
    BY <2>2, <2>3
<1>10. ASSUME NEW y \in Id, News(y)
       PROVE  slot'[k].id = x /\ Clear(k, c)'
  BY <1>2, <1>4, <1>5, <1>10 DEF News, KeptBut
<1>11. ASSUME NEW d \in Sender, DirectWrite(d)
       PROVE  slot'[k].id = x /\ Clear(k, c)'
  <2>1. call[d] # None /\ call[d].pc = "write" /\ UNCHANGED slot
    BY <1>11 DEF DirectWrite
  <2>2. d # c
    <3>1. Returned(c) \/ Goes(c, "trigger") => call'[c] # call[c]
      BY <1>1, ReturnedFacts, GoesFacts
    <3> QED
      BY <1>11, <3>1 DEF DirectWrite
  <2>3. PICK j : j = HASH(call[d].pkg.to)
    OBVIOUS
  <2>4. lock[j] = d /\ j # k
    BY <1>1, <1>4, <2>1, <2>2, <2>3 DEF FreshInv
  <2>5. dw' = dw \/ \E b : dw' = [dw EXCEPT ![j] = b]
    BY <1>11, <2>3 DEF DirectWrite
  <2>6. dw'[k] = dw[k]
    BY <1>1, <1>2, <2>4, <2>5 DEF TypeOK
  <2>7. Kept(k)
    BY <2>1, <2>6 DEF Kept
  <2> QED
    BY <1>5, <2>7
<1>12. ASSUME NEW e \in ev \ {None}, NEW u, SendBuffer(e, u)
       PROVE  slot'[k].id = x /\ Clear(k, c)'
  <2>1. lock[e.s] = None /\ KeptBut(e.s)
    BY <1>12, SendUnits
  <2> QED
    BY <1>2, <1>4, <1>5, <2>1 DEF KeptBut
<1> QED
  BY <1>6, <1>7, <1>8, <1>9, <1>10, <1>11, <1>12, Kinds DEF WireInv

LEMMA PipeKept ==
  ASSUME SocketInv, ~failed, WireInv, Next, NEW c \in Sender,
         call[c] # None, call[c].pc = "write", call'[c] = call[c],
         NEW x, x = call[c].pkg.to,
         NEW i \in DOMAIN pipe', pipe'[i].cmd = "D", pipe'[i].id = x
  PROVE  pipe'[i].pkg.by # c
<1>1. TypeOK /\ IdInv /\ NumberInv /\ pipe \in Seq(Request)
  BY Parts DEF WireInv, TypeOK
<1>2. \A j \in DOMAIN pipe : pipe[j].cmd = "D" /\ pipe[j].id = x => pipe[j].pkg.by # c
  BY DEF WireInv, WriteInv
<1>3. CASE UNCHANGED pipe
  BY <1>2, <1>3
<1>4. CASE pipe # <<>> /\ pipe' = Tail(pipe)
  BY <1>1, <1>2, <1>4, HeadPipe
<1>5. ASSUME NEW r \in Request, pipe' = Append(pipe, r),
             r.cmd = "D" => \E d \in Sender : Requesting(d, r)
      PROVE  pipe'[i].pkg.by # c
  <2>1. (i \in DOMAIN pipe /\ pipe'[i] = pipe[i]) \/ pipe'[i] = r
    BY <1>1, <1>5, AppendFacts
  <2>2. ASSUME pipe'[i] = r
        PROVE  r.pkg.by # c
    <3>1. PICK d \in Sender : Requesting(d, r)
      BY <1>5, <2>2
    <3> QED
      BY <1>1, <3>1 DEF Requesting, NumberInv
  <2> QED
    BY <1>2, <2>1, <2>2
<1> QED
  BY <1>1, <1>3, <1>4, <1>5, PipeCases

\* The second look, with the lock, finds nothing of c.
LEMMA WriteEnters ==
  ASSUME SocketInv, ~failed, NEW c \in Sender, DoubleCheck(c), call'[c].pc = "write",
         NEW x, x = call[c].pkg.to, NEW k, k = HASH(x)
  PROVE  /\ slot'[k].id = x /\ Clear(k, c)'
         /\ \A i \in DOMAIN pipe' : ~(pipe'[i].cmd = "D" /\ pipe'[i].id = x)
<1>1. TypeOK /\ ToldInv /\ CountInv
  BY Parts
<1>2. call[c] # None /\ UNCHANGED <<slot, dw, pipe>>
  BY DEF DoubleCheck, pollVars
<1>3. x \in Id /\ k \in Slot
  BY <1>1, <1>2, CallType
<1>4. CanDirectWrite(x)
  <2>1. ~CanDirectWrite(x) => Goes(c, "queue")
    BY DEF DoubleCheck
  <2>2. Goes(c, "queue") => call'[c].pc = "queue"
    BY <1>1, <1>2, GoesFacts
  <2> QED
    BY <2>1, <2>2
<1>5. /\ slot[k].id = x /\ slot[k].type = "connected" /\ BufferEmpty(slot[k])
      /\ dw[k] = None /\ sending[k].n = 0
  BY <1>4 DEF CanDirectWrite, NoMoreSending
<1>6. slot'[k].id = x /\ Clear(k, c)'
  BY <1>2, <1>5, NothingPending
<1>7. sending[k].id = x
  BY <1>1, <1>3, <1>5 DEF ToldInv, Alive
<1>8. Cardinality(Coming(x)) + Cardinality(Going(x)) <= 0
  BY <1>1, <1>3, <1>5, <1>7 DEF CountInv
<1>9. Coming(x) = {}
  <2>1. /\ IsFiniteSet(Coming(x)) /\ Cardinality(Coming(x)) \in Nat
        /\ Cardinality(Going(x)) \in Nat
    BY <1>1, CountFinite DEF TypeOK
  <2>2. Cardinality(Coming(x)) = 0
    BY <1>8, <2>1
  <2> QED
    BY <2>1, <2>2, FS_EmptySet
<1> QED
  BY <1>2, <1>6, <1>9 DEF Coming

LEMMA WriteStep ==
  ASSUME SocketInv, ~failed, WireInv, Next
  PROVE  WriteInv'
<1>1. TypeOK /\ ToldInv
  BY Parts
<1> SUFFICES ASSUME NEW c \in Sender, call'[c] # None, call'[c].pc = "write",
                    NEW x, x = call'[c].pkg.to, NEW k, k = HASH(x)
             PROVE  /\ slot'[k].id = x /\ Clear(k, c)'
                    /\ \A i \in DOMAIN pipe' :
                         pipe'[i].cmd = "D" /\ pipe'[i].id = x => pipe'[i].pkg.by # c
  <2> DEFINE R(k) == Rest(dw'[k]) \o (Units(slot'[k].high) \o Units(slot'[k].low))
  <2>1. ASSUME NEW c \in Sender, call'[c] # None, call'[c].pc = "write",
               NEW x, x = call'[c].pkg.to, NEW k, k = HASH(x)
        PROVE  /\ slot'[k].id = x /\ Len(R(k)) % Unit = 0
               /\ \A i \in DOMAIN R(k) : R(k)[i].by # c
               /\ \A i \in DOMAIN pipe' :
                    pipe'[i].cmd = "D" /\ pipe'[i].id = x => pipe'[i].pkg.by # c
    <3>1. /\ slot'[k].id = x /\ Clear(k, c)'
          /\ \A i \in DOMAIN pipe' :
               pipe'[i].cmd = "D" /\ pipe'[i].id = x => pipe'[i].pkg.by # c
      BY <2>1
    <3>2. Len(R(k)) % Unit = 0 /\ \A i \in DOMAIN R(k) : R(k)[i].by # c
      BY ONLY <3>1 DEF Clear, Pending
    <3> QED
      BY <3>1, <3>2
  <2> HIDE DEF R
  <2>2. \A c \in Sender : call'[c] # None /\ call'[c].pc = "write" =>
          /\ slot'[HASH(call'[c].pkg.to)].id = call'[c].pkg.to
          /\ Len(R(HASH(call'[c].pkg.to))) % Unit = 0
          /\ \A i \in DOMAIN R(HASH(call'[c].pkg.to)) :
               R(HASH(call'[c].pkg.to))[i].by # c
          /\ \A i \in DOMAIN pipe' :
               pipe'[i].cmd = "D" /\ pipe'[i].id = call'[c].pkg.to
                 => pipe'[i].pkg.by # c
    BY <2>1
  <2> QED
    BY <2>2 DEF WriteInv, Pending, R
<1>2. CASE call'[c] = call[c]
  BY <1>2, WriteKept, PipeKept
<1>3. CASE call'[c] # call[c]
  <2>1. Sending(c)
    <3>1. CASE Aside
      BY <1>3, <3>1 DEF Aside
    <3>2. ASSUME NEW d \in Sender, Sending(d), d # c
          PROVE  FALSE
      BY <1>1, <1>3, <3>2, SendingCalls
    <3> QED
      BY <3>1, <3>2, CallCases
  <2>2. DoubleCheck(c) /\ call'[c].pkg = call[c].pkg
    BY <1>1, <2>1, SendingCalls
  <2> QED
    BY <2>2, WriteEnters
<1> QED
  BY <1>2, <1>3
-----------------------------------------------------------------------------
(* What the end of a connection finds.                                     *)

\* Only packages of low priority get into the low list.
LEMMA LowStep ==
  ASSUME SocketInv, ~failed, WireInv, Next, NEW k \in Slot
  PROVE  Low(Units(slot'[k].low))
<1>1. TypeOK /\ Low(Units(slot[k].low))
  BY Parts DEF WireInv, EndInv
<1>2. Low(Units(<<>>))
  BY UnitsEmpty DEF Low
<1>3. CASE Kept(k)
  BY <1>1, <1>3 DEF Kept
<1>4. CASE Quiet
  BY <1>3, <1>4 DEF Quiet
<1>5. ASSUME NEW j \in Slot, Empties(j) \/ Breaks(j)
      PROVE  Low(Units(slot'[k].low))
  BY <1>1, <1>2, <1>3, <1>5 DEF Empties, Breaks, KeptBut, BufferEmpty
<1>6. ASSUME NEW j \in Slot, Queues(j)
      PROVE  Low(Units(slot'[k].low))
  <2>1. PICK p \in Package : slot'[j] = Queued(slot[j], p) /\ KeptBut(j)
    BY <1>6, QueuesHead
  <2>2. CASE j # k
    BY <1>3, <2>1, <2>2 DEF KeptBut
  <2>3. CASE j = k
    <3>1. slot[k] \in Socket /\ Units(slot[k].low) \in Seq(Package)
      BY <1>1, PendingType DEF TypeOK
    <3>2. PICK d \in Seq(Package) :
           /\ Len(d) = Unit /\ d[1] = p /\ d[2] = p
           /\ \/ Units(Queued(slot[k], p).low) = Units(slot[k].low)
              \/ /\ Units(Queued(slot[k], p).low) = Units(slot[k].low) \o d
                 /\ p.kind = "P"
      BY <3>1, QueuedUnits
    <3>3. p.kind = "P" => Low(d)
      <4>1. DOMAIN d = {1, 2}
        BY <3>2 DEF Unit
      <4> QED
        BY <3>2, <4>1 DEF Low
    <3> DEFINE l == Units(slot[k].low)
               l2 == Units(Queued(slot[k], p).low)
    <3>4. l \in Seq(Package) /\ Low(l) /\ (l2 = l \/ (l2 = l \o d /\ p.kind = "P"))
      BY <1>1, <3>1, <3>2
    <3> HIDE DEF l, l2
    <3>5. Low(l2)
      BY <3>2, <3>3, <3>4, LowConcat
    <3> QED
      BY <2>1, <2>3, <3>5 DEF l2
  <2> QED
    BY <2>2, <2>3
<1>7. ASSUME NEW x \in Id, News(x)
      PROVE  Low(Units(slot'[k].low))
  BY <1>2, <1>3, <1>7 DEF News, KeptBut, BufferEmpty
<1>8. ASSUME NEW c \in Sender, DirectWrite(c)
      PROVE  Low(Units(slot'[k].low))
  BY <1>1, <1>8 DEF DirectWrite
<1>9. ASSUME NEW e \in ev \ {None}, NEW u, SendBuffer(e, u)
      PROVE  Low(Units(slot'[k].low))
  <2>1. KeptBut(e.s) /\ (Low(Units(slot[e.s].low)) => Low(Units(slot'[e.s].low)))
    BY <1>9, SendUnits
  <2> QED
    BY <1>1, <1>3, <2>1 DEF KeptBut
<1> QED
  BY <1>4, <1>5, <1>6, <1>7, <1>8, <1>9, Kinds DEF WireInv

\* Nobody asks for a shutdown.
LEMMA NoShutdown ==
  ASSUME "shutdown" \notin Asks, SocketInv, ~failed, WireInv, Next
  PROVE  \A i \in DOMAIN pipe' : pipe'[i].cmd # "X"
<1>1. TypeOK /\ IdInv /\ pipe \in Seq(Request) /\ NumberInv
      /\ \A i \in DOMAIN pipe : pipe[i].cmd # "X"
  BY Parts DEF WireInv, EndInv, TypeOK
<1>2. CASE UNCHANGED pipe
  BY <1>1, <1>2
<1>3. CASE pipe # <<>> /\ pipe' = Tail(pipe)
  BY <1>1, <1>3, HeadPipe
<1>4. ASSUME NEW r \in Request, pipe' = Append(pipe, r), r.cmd # "X"
      PROVE  \A i \in DOMAIN pipe' : pipe'[i].cmd # "X"
  BY <1>1, <1>4, AppendFacts
<1> QED
  BY <1>1, <1>2, <1>3, <1>4, PipeCases

\* The types that matter here are set by a few steps only.
KeepsType(k) ==
  /\ slot'[k].id = slot[k].id
  /\ slot'[k].type \in {"halfclose_write", "connecting", "paccept"} => slot'[k].type = slot[k].type

LEMMA PutsTypes ==
  ASSUME TypeOK, NEW j \in Slot, NEW t, Puts(j, t), t.id = slot[j].id,
         t.type = slot[j].type \/ t.type \in {"invalid", "connected", "halfclose_read"},
         NEW k \in Slot
  PROVE  KeepsType(k)
BY PutsAt DEF KeepsType

LEMMA FreedTypes ==
  ASSUME TypeOK, NEW j \in Slot, NEW raise, ForceCloseAt(j, raise), NEW k \in Slot
  PROVE  KeepsType(k)
<1>1. slot[j] \in Socket
  BY DEF TypeOK
<1>2. Puts(j, Freed(slot[j])) /\ Same(slot[j], Freed(slot[j]))
  BY <1>1, ForceCloseAtPuts, FreedFacts
<1> QED
  BY <1>2, PutsTypes DEF Same

\* A step on a socket that is there does not halve its write side or let it connect.
LEMMA TypesKept ==
  ASSUME SocketInv, ~failed, Next, Old, NEW k \in Slot,
         \A e \in ev \ {None} : WriteError(e) => e.s # k
  PROVE  KeepsType(k)
<1>1. TypeOK /\ IdInv /\ OpenInv /\ ToldInv /\ SizeInv /\ FreshInv /\ ForceInv
  BY Parts
<1>2. CASE UNCHANGED slot
  BY <1>2 DEF KeepsType
<1>3. CASE ResumeSocket
  <2> DEFINE j == HASH(Head(pipe).id)
  <2>1. j \in Slot
    BY <1>1, <1>3, HeadPipe DEF ResumeSocket, Command
  <2>2. \/ UNCHANGED slot
        \/ \E t : /\ Puts(j, t) /\ t.id = slot[j].id
                 /\ t.type \in {slot[j].type, "connected"}
    BY <1>1, <1>3, ResumeSocketPuts DEF Lists
  <2> HIDE DEF j
  <2> QED
    BY <1>1, <1>2, <2>1, <2>2, PutsTypes
<1>4. ASSUME NEW cmd \in {"K", "X"}, CloseSocket(cmd)
      PROVE  KeepsType(k)
  <2>1. HASH(Head(pipe).id) \in Slot
    BY <1>1, <1>4, HeadPipe DEF CloseSocket, Command
  <2> QED
    BY <1>1, <1>2, <1>4, <2>1, CloseSocketPuts, PutsTypes, FreedTypes DEF Lists
<1>5. CASE SendSocket
  BY <1>1, <1>2, <1>5, SendSocketPuts, PutsTypes DEF Same, Puts
<1>6. CASE TriggerWrite
  BY <1>1, <1>2, <1>6, TriggerWritePuts, PutsTypes DEF Lists, Puts
<1>7. CASE ForceClose
  <2>1. force.s \in Slot /\ Puts(force.s, ForceClosed(slot[force.s]))
    BY <1>1, <1>7, ForceClosePuts
  <2>2. slot[force.s] \in Socket
    BY <1>1, <2>1 DEF TypeOK
  <2>3. ForceClosed(slot[force.s]).id = slot[force.s].id
        /\ ForceClosed(slot[force.s]).type = "invalid"
    BY <2>2, FreedFacts
  <2> QED
    BY <1>1, <2>1, <2>3, PutsTypes
<1>8. ASSUME NEW e \in ev \ {None}, ReportConnect(e)
      PROVE  KeepsType(k)
  BY <1>1, <1>8, EventSlot, ReportConnectPuts, PutsTypes, FreedTypes DEF Lists
<1>9. ASSUME NEW e \in ev \ {None}, ReadEnd(e)
      PROVE  KeepsType(k)
  BY <1>1, <1>2, <1>9, EventSlot, ReadEndPuts, PutsTypes, FreedTypes DEF Lists
<1>10. ASSUME NEW e \in ev \ {None}, EofEvent(e)
       PROVE  KeepsType(k)
  BY <1>1, <1>10, EventSlot, FreedTypes DEF EofEvent
<1>11. ASSUME NEW e \in ev \ {None}, WriteError(e)
       PROVE  KeepsType(k)
  <2>1. \E t : Puts(e.s, t)
    BY <1>1, <1>11, WriteErrorPuts
  <2>2. e.s # k /\ e.s \in Slot
    BY <1>1, <1>11, EventSlot
  <2>3. slot'[k] = slot[k]
    BY <1>1, <2>1, <2>2, PutsAt
  <2> QED
    BY <2>3 DEF KeepsType
<1>12. ASSUME NEW e \in ev \ {None}, NEW u, SendBuffer(e, u)
       PROVE  KeepsType(k)
  <2>1. PICK t \in Socket :
          /\ Same(slot[e.s], t)
          /\ \/ Puts(e.s, t) \/ Puts(e.s, ForceClosed(t))
             \/ \E r : Puts(e.s, r) /\ Lists(t, r) /\ r.type = t.type
    BY <1>1, <1>12, SendBufferPuts
  <2>2. ForceClosed(t).id = t.id /\ ForceClosed(t).type = "invalid"
    BY <2>1, FreedFacts
  <2>3. e.s \in Slot
    BY <1>1, EventSlot
  <2> QED
    BY <1>1, <2>1, <2>2, <2>3, PutsTypes DEF Same, Lists
<1>13. CASE ChangesSlot
  BY <1>3, <1>4, <1>5, <1>6, <1>7, <1>8, <1>9, <1>10, <1>11, <1>12, <1>13
     DEF ChangesSlot
<1>14. CASE UNCHANGED slot \/ ChangesSlot
  BY <1>2, <1>13, <1>14
<1>15. UNCHANGED slot \/ ChangesSlot
  BY <1>1, Cases, SendingFrame, AskingFrame, PeerFrame, IdleFrame DEF Old, slotVars
<1> QED
  BY <1>14, <1>15

\* No step on a socket that is there lets a connection take bytes again.
LEMMA OldDying ==
  ASSUME SocketInv, ~failed, EndInv, Next, Old
  PROVE  Dying
<1>1. TypeOK
  BY Parts
<1>2. CASE UNCHANGED peer
  BY <1>2, PeerDying
<1>3. ASSUME NEW x, peer' = [peer EXCEPT ![x] = Left(peer[x])]
      PROVE  Dying
  <2>1. Left(peer[x]) \notin {"open", "fin"}
    BY LeftDead
  <2>2. PICK v : v = Left(peer[x])
    OBVIOUS
  <2> QED
    BY <1>1, <1>3, <2>1, <2>2, DeadDying
<1>4. ASSUME NEW e \in ev \ {None}, NEW u, SendBuffer(e, u)
      PROVE  Dying
  <2>1. \/ UNCHANGED peer
        \/ peer' = [peer EXCEPT ![slot[e.s].id] = Left(peer[slot[e.s].id])]
    BY <1>4 DEF SendBuffer
  <2> QED
    BY <1>2, <1>3, <2>1
<1>5. ASSUME NEW c \in Sender, DirectWrite(c)
      PROVE  UNCHANGED peer
  BY <1>5 DEF DirectWrite
<1>6. ASSUME NEW k \in Slot, Empties(k) \/ Queues(k)
      PROVE  UNCHANGED peer
  BY <1>6 DEF Empties, Queues
<1>7. ~(\E x \in Id : Fills(x))
  BY DEF Old, Fills
<1> QED
  BY <1>2, <1>4, <1>5, <1>6, <1>7, Kinds DEF Quiet, Breaks

LEMMA StillDead ==
  ASSUME SocketInv, ~failed, EndInv, Next, Old, NEW k \in Slot,
         slot[k].id \in Id, ~Live(slot[k].id)
  PROVE  peer'[slot[k].id] \notin {"open", "fin"}
<1>1. TypeOK /\ IdInv
  BY Parts
<1>2. slot[k].id # 0
  BY DEF Id
<1>3. HASH(slot[k].id) = k
  BY <1>1, <1>2 DEF IdInv
<1>4. peer[slot[k].id] \notin {"open", "fin"}
  BY <1>3 DEF Live
<1> QED
  BY <1>4, OldDying DEF Dying

LEMMA OldHalf ==
  ASSUME SocketInv, ~failed, EndInv, Next, Old, NEW k \in Slot,
         slot'[k].type = "halfclose_write"
  PROVE  peer'[slot'[k].id] \notin {"open", "fin"}
<1>1. TypeOK /\ IdInv /\ CloseInv
  BY Parts
<1>2. ASSUME NEW e \in ev \ {None}, WriteError(e), e.s = k
      PROVE  peer'[slot'[k].id] \notin {"open", "fin"}
  BY <1>2, WriteErrorBreaks DEF Breaks
<1>3. CASE \A e \in ev \ {None} : WriteError(e) => e.s # k
  <2>1. slot'[k].id = slot[k].id /\ slot[k].type = "halfclose_write"
    BY <1>3, TypesKept DEF KeepsType
  <2>2. slot[k].id \in Id /\ ~Live(slot[k].id)
    BY <1>1, <2>1, AliveId DEF EndInv
  <2> QED
    BY <2>1, <2>2, StillDead
<1> QED
  BY <1>2, <1>3

\* Who is told that a socket is open finds it connected.
NoOpen == \A x \in Id : "open" \in told'[x] => "open" \in told[x]

LEMMA TellsNoOpen ==
  ASSUME TypeOK, NEW x, NEW what, what # "open", Tell(x, what)
  PROVE  NoOpen
BY DEF Tell, NoOpen, TypeOK

LEMMA RaisesNoOpen ==
  ASSUME TypeOK, NEW x, NEW what, what # "open", Raise(x, what)
  PROVE  NoOpen
<1>1. UNCHANGED told \/ Tell(x, what)
  BY DEF Raise, TellClose, TellNothing
<1> QED
  BY <1>1, TellsNoOpen DEF NoOpen

LEMMA IdleNoOpen ==
  ASSUME TypeOK, Idle
  PROVE  NoOpen
<1>1. CASE UNCHANGED told
  BY <1>1 DEF NoOpen
<1>2. ASSUME NEW e \in ev \ {None}, ReadData(e)
      PROVE  NoOpen
  <2>1. \E what \in {"late", "none"} : Raise(slot[e.s].id, what)
    BY <1>2 DEF ReadData
  <2> QED
    BY <2>1, RaisesNoOpen
<1>3. ASSUME NEW e \in ev \ {None}, ReadError(e) \/ ErrorEvent(e)
      PROVE  NoOpen
  BY <1>3, TellsNoOpen DEF ReadError, ErrorEvent
<1>4. \/ UNCHANGED told
      \/ \E e \in ev \ {None} : ReadData(e) \/ ReadError(e) \/ ErrorEvent(e)
  BY DEF Idle, NoCommand, AcceptDropped, Wait, InvalidEvent, WriteBlocked, ownerVars,
         TellNothing
<1> QED
  BY <1>1, <1>2, <1>3, <1>4

LEMMA OpensConnected ==
  ASSUME SocketInv, ~failed, Next, Old, NEW k \in Slot, slot[k].id \in Id,
         "open" \in told'[slot[k].id]
  PROVE  "open" \in told[slot[k].id] \/ slot'[k].type = "connected"
<1>1. TypeOK /\ IdInv /\ OpenInv /\ ToldInv /\ SizeInv /\ FreshInv /\ ForceInv
  BY Parts
<1>2. slot[k].id # 0
  BY DEF Id
<1>3. HASH(slot[k].id) = k
  BY <1>1, <1>2 DEF IdInv
<1>4. CASE NoOpen
  BY <1>4 DEF NoOpen
<1>5. TellNothing => NoOpen
  BY DEF TellNothing, NoOpen
<1>6. ASSUME NEW x, Tell(x, "open"), slot'[HASH(x)].type = "connected"
      PROVE  "open" \in told[slot[k].id] \/ slot'[k].type = "connected"
  <2>1. x # slot[k].id => told'[slot[k].id] = told[slot[k].id]
    BY <1>1, <1>6 DEF Tell, TypeOK
  <2> QED
    BY <1>3, <1>6, <2>1
<1>7. CASE ResumeSocket
  <2> DEFINE x == Head(pipe).id
             j == HASH(x)
  <2>1. j \in Slot
    BY <1>1, <1>7, HeadPipe DEF ResumeSocket, Command
  <2>2. \/ Tell(x, "err")
        \/ \E t : Puts(j, t) /\ Raise(x, IF t.type = "connected" THEN "open" ELSE "none")
    BY <1>1, <1>7, ResumeSocketPuts
  <2>3. ASSUME NEW t, Puts(j, t), Raise(x, IF t.type = "connected" THEN "open" ELSE "none")
        PROVE  NoOpen \/ (Tell(x, "open") /\ slot'[j].type = "connected")
    <3>1. slot'[j] = t
      BY <1>1, <2>1, <2>3, PutsAt
    <3>2. CASE t.type = "connected"
      BY <2>3, <3>1, <3>2 DEF Raise
    <3>3. CASE t.type # "connected"
      <4>1. Raise(x, "none")
        BY <2>3, <3>3
      <4> QED
        BY <1>1, <4>1, RaisesNoOpen
    <3> QED
      BY <3>2, <3>3
  <2>4. NoOpen \/ (Tell(x, "open") /\ slot'[j].type = "connected")
    BY <1>1, <2>2, <2>3, TellsNoOpen
  <2> QED
    BY <1>4, <1>6, <2>4
<1>8. ASSUME NEW cmd \in {"K", "X"}, CloseSocket(cmd)
      PROVE  NoOpen
  <2>1. TellNothing \/ \E x, j : Raise(x, Raises(j))
    BY <1>1, <1>8, CloseSocketPuts
  <2>2. \A j : Raises(j) # "open"
    BY DEF Raises
  <2> QED
    BY <1>1, <1>5, <2>1, <2>2, RaisesNoOpen
<1>9. CASE SendSocket \/ TriggerWrite
  BY <1>4, <1>5, <1>9 DEF SendSocket, TriggerWrite
<1>10. CASE ForceClose
  <2>1. force.raise # "open"
    BY <1>1, <1>10 DEF ForceClose, TypeOK
  <2> QED
    BY <1>1, <1>4, <1>10, <2>1, RaisesNoOpen DEF ForceClose
<1>11. ASSUME NEW e \in ev \ {None}, ReportConnect(e)
       PROVE  NoOpen \/ \E x : Tell(x, "open") /\ slot'[HASH(x)].type = "connected"
  <2>1. e.s \in Slot /\ slot[e.s].type = "connecting"
    BY <1>1, <1>11, EventSlot, ReportConnectPuts
  <2>2. HASH(slot[e.s].id) = e.s
    BY <1>1, <2>1, SlotOf DEF Id
  <2>3. \/ TellNothing
        \/ \E t : Puts(e.s, t) /\ t.type = "connected" /\ Tell(slot[e.s].id, "open")
    BY <1>1, <1>11, ReportConnectPuts
  <2>4. ASSUME NEW t, Puts(e.s, t), t.type = "connected"
        PROVE  slot'[e.s].type = "connected"
    BY <1>1, <2>1, <2>4, PutsAt
  <2> QED
    BY <1>5, <2>2, <2>3, <2>4
<1>12. ASSUME NEW e \in ev \ {None},
              \/ ReadEnd(e) \/ EofEvent(e) \/ WriteError(e)
              \/ \E u : SendBuffer(e, u)
       PROVE  NoOpen
  <2>1. UNCHANGED told \/ \E x : Tell(x, "err")
    BY <1>12 DEF ReadEnd, EofEvent, WriteError, SendBuffer, TellNothing, TellClose
  <2> QED
    BY <1>1, <2>1, TellsNoOpen DEF NoOpen
<1>13. CASE ChangesSlot
  BY <1>4, <1>6, <1>7, <1>8, <1>9, <1>10, <1>11, <1>12, <1>13 DEF ChangesSlot
<1>14. CASE (\E c \in Sender : Sending(c)) \/ Asking \/ Peer
  <2>1. UNCHANGED told
    BY <1>1, <1>14, SendingFrame, AskingFrame, PeerFrame DEF ownerVars
  <2> QED
    BY <1>4, <2>1 DEF NoOpen
<1> QED
  BY <1>1, <1>4, <1>13, <1>14, Cases, IdleNoOpen DEF Old

LEMMA OldConnecting ==
  ASSUME SocketInv, ~failed, EndInv, Next, Old, NEW k \in Slot,
         slot'[k].type = "connecting"
  PROVE  "open" \notin told'[slot'[k].id]
<1>1. TypeOK /\ IdInv /\ CloseInv /\ FreshInv /\ SizeInv
  BY Parts
<1>2. \A e \in ev \ {None} : WriteError(e) => e.s # k
  <2> SUFFICES ASSUME NEW e \in ev \ {None}, WriteError(e), e.s = k PROVE FALSE
    OBVIOUS
  <2> DEFINE s == Merged(k)
  <2>1. slot[k].type # "connecting"
    BY DEF WriteError, Default
  <2>2. s.type = slot[k].type /\ s \in Socket
    BY <1>1, WriteErrorPuts DEF Same
  <2>3. ForceClosed(Freed(s)).type = "invalid"
    <3>1. Freed(s) \in Socket
      BY <2>2, FreedFacts
    <3> QED
      BY <3>1, FreedFacts
  <2>4. \E t : Puts(k, t) /\ t.type # "connecting"
    BY <1>1, <2>1, <2>2, <2>3, WriteErrorPuts
  <2> QED
    BY <1>1, <2>4, PutsAt
<1>3. slot'[k].id = slot[k].id /\ slot[k].type = "connecting"
  BY <1>2, TypesKept DEF KeepsType
<1>4. slot[k].id \in Id /\ "open" \notin told[slot[k].id]
  BY <1>1, <1>3, AliveId DEF EndInv
<1> QED
  BY <1>3, <1>4, OpensConnected

\* What a slot that is taken, or comes into use, holds.
LEMMA FillsFacts ==
  ASSUME SocketInv, ~failed, NEW x \in Id, Fills(x)
  PROVE  LET j == HASH(x) IN
         /\ j \in Slot /\ slot'[j].id = x
         /\ slot'[j].type \in {"reserve", "paccept", "connecting", "connected", "invalid"}
         /\ \A k \in Slot \ {j} : slot'[k] = slot[k]
         /\ slot'[j].type = "connecting" => "open" \notin told'[x]
         /\ \A y \in Id \ {x} : told'[y] = told[y]
         /\ \A y \in Id \ {x} : peer'[y] = peer[y]
<1> DEFINE j == HASH(x)
<1>1. TypeOK /\ IdInv /\ j \in Slot
  BY Parts, HashSlot DEF Id
<1>2. \A y \in Id \ {x} : peer'[y] = peer[y]
  <2>1. UNCHANGED peer \/ peer' = [peer EXCEPT ![x] = "open"]
    BY DEF Fills, Connect, Accept, OpenSocket, NewFd, netVars
  <2> QED
    BY <1>1, <2>1 DEF TypeOK
<1>3. CASE Connect(x)
  <2>1. UNCHANGED told
    BY <1>3, ConnectFacts DEF ownerVars
  <2> QED
    BY <1>1, <1>2, <1>3, <2>1, ConnectFacts
<1>4. CASE Accept(x)
  <2>1. PICK t : Puts(j, t) /\ t.type = "paccept" /\ t.id = x
    BY <1>1, <1>4, AcceptPuts
  <2>2. slot'[j] = t /\ \A k \in Slot \ {j} : slot'[k] = slot[k]
    BY <1>1, <2>1, PutsAt
  <2>3. \A y \in Id \ {x} : told'[y] = told[y]
    BY <1>1, <1>4, AcceptFacts, TellOne
  <2> QED
    BY <1>1, <1>2, <2>1, <2>2, <2>3
<1>5. CASE OpenSocket /\ x = Head(pipe).id
  <2>1. slot[j].id = x /\ told[x] \subseteq {"err"}
    BY <1>5, OpenFacts
  <2>2. PICK t : /\ Puts(j, t)
                 /\ \/ t.type = "invalid" /\ t.id = slot[j].id /\ Tell(x, "err")
                    \/ /\ t.type \in {"connecting", "connected"} /\ t.id = x
                       /\ TellNothing \/ Tell(x, "open")
                       /\ ~TellNothing => t.type = "connected"
    BY <1>1, <1>5, OpenSocketPuts
  <2>3. slot'[j] = t /\ \A k \in Slot \ {j} : slot'[k] = slot[k]
    BY <1>1, <2>2, PutsAt
  <2>4. \A y \in Id \ {x} : told'[y] = told[y]
    BY <1>1, <2>2, TellOne DEF TellNothing
  <2>5. t.type = "connecting" => "open" \notin told'[x]
    BY <2>1, <2>2 DEF TellNothing
  <2> QED
    BY <1>1, <1>2, <2>1, <2>2, <2>3, <2>4, <2>5
<1> QED
  BY <1>2, <1>3, <1>4, <1>5 DEF Fills

LEMMA FillsEnds ==
  ASSUME SocketInv, ~failed, EndInv, NEW x \in Id, Fills(x), NEW k \in Slot
  PROVE  /\ slot'[k].type = "halfclose_write" => peer'[slot'[k].id] \notin {"open", "fin"}
         /\ slot'[k].type = "connecting" => "open" \notin told'[slot'[k].id]
<1>1. TypeOK /\ IdInv /\ CloseInv
  BY Parts
<1> DEFINE j == HASH(x)
<1>2. CASE k = j
  BY <1>2, FillsFacts
<1>3. CASE k # j
  <2>1. slot'[k] = slot[k]
    BY <1>3, FillsFacts
  <2> SUFFICES ASSUME slot[k].type \in {"halfclose_write", "connecting"}
               PROVE  /\ slot[k].type = "halfclose_write"
                            => peer'[slot[k].id] \notin {"open", "fin"}
                      /\ slot[k].type = "connecting" => "open" \notin told'[slot[k].id]
    BY <2>1
  <2>2. slot[k].id \in Id /\ HASH(slot[k].id) = k
    BY <1>1, AliveId
  <2>3. slot[k].id # x
    BY <1>3, <2>2
  <2>4. peer'[slot[k].id] = peer[slot[k].id] /\ told'[slot[k].id] = told[slot[k].id]
    BY <2>2, <2>3, FillsFacts
  <2> QED
    BY <2>2, <2>4 DEF EndInv, Live
<1> QED
  BY <1>2, <1>3

\* What the slots promise about the end of a connection.
LEMMA SlotEnds ==
  ASSUME SocketInv, ~failed, EndInv, Next, NEW k \in Slot
  PROVE  /\ slot'[k].type = "halfclose_write" => peer'[slot'[k].id] \notin {"open", "fin"}
         /\ slot'[k].type = "connecting" => "open" \notin told'[slot'[k].id]
<1>1. CASE Old
  BY <1>1, OldHalf, OldConnecting
<1>2. CASE \E x \in Id : Fills(x)
  BY <1>2, FillsEnds
<1>3. Old \/ \E x \in Id : Fills(x)
  <2>1. OpenSocket => Head(pipe).id \in Id
    BY OpenFacts
  <2> QED
    BY <2>1 DEF Old, Fills
<1> QED
  BY <1>1, <1>2, <1>3

\* An event of a broken connection is of one that has the slot, as long as the
\* slot is not reserved with an event of its past.
LEMMA EventEnds ==
  ASSUME ~StaleEvents, SocketInv, ~failed, ~failed', EventInv, EndInv, Next,
         NEW e \in ev' \ {None}, e.end = "hup"
  PROVE  slot'[e.s].id \in Id /\ peer'[slot'[e.s].id] \notin {"open", "fin"}
<1>1. TypeOK /\ IdInv /\ CloseInv
  BY Parts
<1>2. CASE \E data \in SUBSET Slot, accept \in BOOLEAN : Wait(data, accept)
  <2>1. PICK data \in SUBSET Slot, accept \in BOOLEAN : Wait(data, accept)
    BY <1>2
  <2>2. UNCHANGED <<slot, peer>>
    BY <2>1 DEF Wait, slotVars, netVars
  <2> DEFINE all == {EventOf(k, data) : k \in {j \in Slot : Registered(j)}}
  <2>3. e \in all
    BY <2>1 DEF Wait
  <2>4. PICK k \in Slot : Registered(k) /\ e = EventOf(k, data)
    BY <2>3
  <2>5. e.s = k /\ e.end = (CASE peer[slot[k].id] = "rst" -> "err"
                              [] peer[slot[k].id] = "dead" -> "hup" [] OTHER -> "none")
    BY <2>4 DEF EventOf
  <2>6. peer[slot[k].id] = "dead"
    BY <2>5
  <2>7. slot[k].id \in Id
    BY <1>1, <2>4, AliveId DEF Registered
  <2> QED
    BY <2>2, <2>5, <2>6, <2>7
<1>3. CASE ~(\E data \in SUBSET Slot, accept \in BOOLEAN : Wait(data, accept))
  <2>1. \E d \in ev \ {None} : d.s = e.s /\ d.end = "hup"
    <3>1. CASE e \in ev
      BY <3>1
    <3>2. ASSUME NEW d \in ev \ {None}, e = [d EXCEPT !.read = FALSE]
          PROVE  d.s = e.s /\ d.end = e.end
      <4>1. d \in Event
        BY <1>1, EventSlot
      <4> QED
        BY <3>2, <4>1 DEF Event
    <3>3. \/ e \in ev
          \/ \E d \in ev \ {None} : e = [d EXCEPT !.read = FALSE]
      BY <1>3, EventCases
    <3> QED
      BY <3>1, <3>2, <3>3
  <2>2. PICK d \in ev \ {None} : d.s = e.s /\ d.end = "hup"
    BY <2>1
  <2>3. PICK k : k = e.s
    OBVIOUS
  <2>4. /\ k \in Slot /\ slot[k].type # "reserve"
        /\ slot[k].id \in Id /\ ~Live(slot[k].id)
    BY <1>1, <2>2, <2>3, EventSlot DEF EventInv, EndInv
  <2>5. CASE Old
    <3>1. slot'[k].id = slot[k].id
      BY <2>4, <2>5, OldSlots
    <3> QED
      BY <2>3, <2>4, <2>5, <3>1, StillDead
  <2>6. ASSUME NEW x \in Id, Fills(x)
        PROVE  slot'[k].id \in Id /\ peer'[slot'[k].id] \notin {"open", "fin"}
    <3>1. k # HASH(x)
      <4>1. CASE Connect(x) \/ Accept(x)
        BY <2>2, <2>3, <4>1 DEF Connect, Accept, Reservable
      <4>2. CASE OpenSocket /\ x = Head(pipe).id
        BY <2>4, <4>2, OpenFacts
      <4> QED
        BY <2>6, <4>1, <4>2 DEF Fills
    <3>2. slot[k].id # 0
      BY <2>4 DEF Id
    <3>3. HASH(slot[k].id) = k
      BY <1>1, <2>4, <3>2 DEF IdInv
    <3>4. slot[k].id # x
      BY <3>1, <3>3
    <3>5. slot'[k] = slot[k] /\ peer'[slot[k].id] = peer[slot[k].id]
      BY <2>4, <2>6, <3>1, <3>4, FillsFacts
    <3> QED
      BY <2>4, <3>3, <3>5 DEF Live
  <2>7. Old \/ \E x \in Id : Fills(x)
    <3>1. OpenSocket => Head(pipe).id \in Id
      BY OpenFacts
    <3> QED
      BY <3>1 DEF Old, Fills
  <2> QED
    BY <2>3, <2>5, <2>6, <2>7
<1> QED
  BY <1>2, <1>3

LEMMA EndStep ==
  ASSUME ~StaleEvents, "shutdown" \notin Asks, SocketInv, ~failed, ~failed', EventInv,
         WireInv, Next
  PROVE  EndInv'
<1>1. EndInv
  BY DEF WireInv
<1>2. \A k \in Slot :
        /\ Low(Units(slot'[k].low))
        /\ slot'[k].type = "halfclose_write" => ~Live(slot[k].id)'
        /\ slot'[k].type = "connecting" => "open" \notin told'[slot'[k].id]
  BY <1>1, LowStep, SlotEnds DEF Live
<1>3. \A e \in ev' \ {None} :
        e.end = "hup" => slot'[e.s].id \in Id /\ ~Live(slot[e.s].id)'
  BY <1>1, EventEnds DEF Live
<1>4. \A i \in DOMAIN pipe' : pipe'[i].cmd # "X"
  BY NoShutdown
<1> QED
  BY <1>2, <1>3, <1>4 DEF EndInv, Low
-----------------------------------------------------------------------------
(* What a connection carries, at any time.                                 *)

LEMMA WireInit ==
  ASSUME Init
  PROVE  WireInv
<1>1. \A x \in Id : ~Live(x) /\ Stream(x) = <<>>
  BY DEF Init, Live, Stream
<1>2. Ordered(<<>>) /\ \A x : Paired(<<>>, x)
  BY DEF Paired, Ordered
<1>3. StreamInv
  BY <1>1, <1>2 DEF StreamInv
<1>4. NumberInv
  BY <1>1 DEF NumberInv, Init
<1>5. WriteInv
  BY DEF WriteInv, Init
<1>6. EndInv
  <2>1. \A k \in Slot : slot[k].low = <<>> /\ slot[k].type = "invalid"
    BY DEF Init
  <2>2. Low(Units(<<>>))
    BY UnitsEmpty DEF Low
  <2> QED
    BY <2>1, <2>2 DEF EndInv, Init
<1> QED
  BY <1>3, <1>4, <1>5, <1>6 DEF WireInv

LEMMA WireStutter ==
  ASSUME WireInv, UNCHANGED vars
  PROVE  WireInv'
<1>1. UNCHANGED <<slot, dw, pipe, ev, call, count, told, peer, wire>>
  BY DEF vars, slotVars, pollVars, senderVars, ownerVars, netVars
<1>2. /\ \A x : Live(x)' = Live(x) /\ Stream(x)' = Stream(x)
      /\ \A k : Pending(k)' = Pending(k)
      /\ \A c : Waits(c)' = Waits(c)
  BY <1>1 DEF Live, Stream, Pending, Rest, Waits
<1>3. StreamInv'
  BY <1>1, <1>2 DEF WireInv, StreamInv, Paired, Ordered
<1>4. NumberInv'
  BY <1>1, <1>2 DEF WireInv, NumberInv, Given, Newest
<1>5. WriteInv'
  BY <1>1, <1>2 DEF WireInv, WriteInv
<1>6. EndInv'
  BY <1>1, <1>2 DEF WireInv, EndInv, Low
<1> QED
  BY <1>3, <1>4, <1>5, <1>6 DEF WireInv

LEMMA WireStep ==
  ASSUME ~StaleEvents, "shutdown" \notin Asks, SocketInv, FreshEvents, WireInv,
         [Next]_vars
  PROVE  WireInv'
<1>1. CASE UNCHANGED vars
  BY <1>1, WireStutter
<1>2. CASE Next
  <2>1. ~failed /\ EventInv /\ ~failed'
    BY <1>2, HoldsStep DEF FreshEvents
  <2>2. TypeOK'
    BY <2>1, NextInv DEF SocketInv
  <2> QED
    BY <1>2, <2>1, <2>2, StreamStep, NumberStep, WriteStep, EndStep DEF WireInv
<1> QED
  BY <1>1, <1>2

\* What is written is the first part of a stream.
LEMMA WireGood ==
  ASSUME SocketInv, ~failed, WireInv
  PROVE  WholePackages /\ InOrder
<1>1. TypeOK /\ IdInv /\ StreamInv
  BY Parts DEF WireInv
<1> SUFFICES ASSUME NEW x \in Id
             PROVE  Paired(wire[x], x) /\ Ordered(wire[x])
  BY DEF WholePackages, InOrder
<1>2. Paired(Stream(x), x) /\ Ordered(Stream(x))
  BY <1>1 DEF StreamInv
<1>3. CASE ~Live(x)
  BY <1>2, <1>3 DEF Stream
<1>4. CASE Live(x)
  <2>1. HASH(x) \in Slot
    BY HashSlot DEF Id
  <2>2. PICK b : b = Pending(HASH(x))
    OBVIOUS
  <2>3. wire[x] \in Seq(Package) /\ b \in Seq(Package)
    BY <1>1, <2>1, <2>2, PendingType DEF TypeOK
  <2>4. Stream(x) = wire[x] \o b
    BY <1>4, <2>2 DEF Stream
  <2>5. Begin(Stream(x), wire[x]) /\ Stream(x) \in Seq(Package)
    BY <2>3, <2>4, ConcatBegin
  <2> QED
    BY <1>2, <2>5, BeginGood
<1> QED
  BY <1>3, <1>4

\* The invariants of the streams, together with those they rest on.
THEOREM WireInvariant ==
  ~StaleEvents /\ "shutdown" \notin Asks
    => (Spec => [](SocketInv /\ FreshEvents /\ WireInv))
<1> SUFFICES ASSUME ~StaleEvents, "shutdown" \notin Asks
             PROVE  Spec => [](SocketInv /\ FreshEvents /\ WireInv)
  OBVIOUS
<1> DEFINE Inv == SocketInv /\ FreshEvents /\ WireInv
<1>1. Init => Inv
  BY InitInv, WireInit DEF Init, FreshEvents, EventInv
<1>2. Inv /\ [Next]_vars => Inv'
  <2> SUFFICES ASSUME SocketInv, FreshEvents, WireInv, [Next]_vars PROVE Inv'
    OBVIOUS
  <2>1. FreshEvents'
    <3>1. CASE Next
      BY <3>1, HoldsStep, EventStep DEF FreshEvents
    <3>2. CASE UNCHANGED vars
      BY <3>2 DEF vars, slotVars, pollVars, FreshEvents, EventInv
    <3> QED
      BY <3>1, <3>2
  <2> QED
    BY <2>1, NextInv, WireStep
<1> QED
  BY <1>1, <1>2, PTL DEF Spec

\* A connection carries the packages that were sent on it, each at most once, in
\* one piece and on no other connection, whoever writes them: a sender with the
\* lock, or the thread from dw_buffer and the two lists
\* (socket_server.c:861-975, 1816-1861).
THEOREM AlwaysWhole ==
  ~StaleEvents /\ "shutdown" \notin Asks => (Spec => []WholePackages)
<1> SUFFICES ASSUME ~StaleEvents, "shutdown" \notin Asks PROVE Spec => []WholePackages
  OBVIOUS
<1>1. SocketInv /\ FreshEvents /\ WireInv => WholePackages
  BY WireGood DEF FreshEvents
<1> QED
  BY <1>1, WireInvariant, PTL

\* The packages of a sender arrive on a connection in the order in which it sent
\* them, except that those of high priority may pass those of low priority
\* (socket_server.c:1001-1006).
THEOREM AlwaysInOrder ==
  ~StaleEvents /\ "shutdown" \notin Asks => (Spec => []InOrder)
<1> SUFFICES ASSUME ~StaleEvents, "shutdown" \notin Asks PROVE Spec => []InOrder
  OBVIOUS
<1>1. SocketInv /\ FreshEvents /\ WireInv => InOrder
  BY WireGood DEF FreshEvents
<1> QED
  BY <1>1, WireInvariant, PTL
-----------------------------------------------------------------------------
(* Nothing is lost: the packages that wait, and their units.               *)

\* What is in a sequence that is put together.
Has(s, p) == \E i \in DOMAIN s : s[i] = p

LEMMA ConcatParts ==
  ASSUME NEW a \in Seq(Package), NEW b \in Seq(Package)
  PROVE  LET c == a \o b IN
         /\ \A i \in DOMAIN c :
              \/ i \in DOMAIN a /\ c[i] = a[i]
              \/ i \notin DOMAIN a /\ \E j \in DOMAIN b : c[i] = b[j]
         /\ \A i \in DOMAIN a : i \in DOMAIN c /\ c[i] = a[i]
         /\ \A j \in DOMAIN b : \E i \in DOMAIN c : c[i] = b[j]
<1> DEFINE c == a \o b
           m == Len(a)
           n == Len(b)
<1>1. /\ c \in Seq(Package) /\ Len(c) = m + n
      /\ m \in Nat /\ n \in Nat
      /\ \A i \in 1..m : i \in DOMAIN c /\ c[i] = a[i]
      /\ \A i \in 1..n : m + i \in DOMAIN c /\ c[m + i] = b[i]
  BY ConcatAt
<1>2. DOMAIN a = 1..m /\ DOMAIN b = 1..n
  OBVIOUS
<1> HIDE DEF c, m, n
<1>3. DOMAIN c = 1..(m + n)
  BY <1>1
<1>4. ASSUME NEW i \in DOMAIN c, i \notin DOMAIN a
      PROVE  \E j \in DOMAIN b : c[i] = b[j]
  <2>1. i - m \in 1..n /\ m + (i - m) = i
    BY <1>1, <1>2, <1>3, <1>4
  <2> QED
    BY <1>1, <1>2, <2>1
<1> QED
  BY <1>1, <1>2, <1>4 DEF c

LEMMA HasConcat ==
  ASSUME NEW a \in Seq(Package), NEW b \in Seq(Package), NEW p
  PROVE  Has(a \o b, p) <=> Has(a, p) \/ Has(b, p)
<1> DEFINE c == a \o b
<1>1. /\ \A i \in DOMAIN c :
           \/ i \in DOMAIN a /\ c[i] = a[i]
           \/ i \notin DOMAIN a /\ \E j \in DOMAIN b : c[i] = b[j]
      /\ \A i \in DOMAIN a : i \in DOMAIN c /\ c[i] = a[i]
      /\ \A j \in DOMAIN b : \E i \in DOMAIN c : c[i] = b[j]
  BY ConcatParts
<1> HIDE DEF c
<1>2. Has(c, p) <=> Has(a, p) \/ Has(b, p)
  BY <1>1 DEF Has
<1> QED
  BY <1>2 DEF c

\* The units of a list are of the packages of its buffers.
LEMMA UnitsOf ==
  ASSUME NEW list \in Seq(Buffer), NEW p
  PROVE  Has(Units(list), p) <=> \E j \in DOMAIN list : list[j].pkg = p
<1> DEFINE Fine(m) == Has(Units(m), p) <=> \E j \in DOMAIN m : m[j].pkg = p
           T == {k \in Nat : \E m \in Seq(Buffer) : Len(m) = k /\ ~Fine(m)}
<1>1. SUFFICES T = {}
  <2>1. Len(list) \in Nat
    OBVIOUS
  <2> QED
    BY <1>1, <2>1
<1>2. SUFFICES ASSUME T # {} PROVE FALSE
  OBVIOUS
<1>3. PICK k \in T : \A j \in T : k <= j
  <2>1. T \subseteq Nat
    OBVIOUS
  <2> HIDE DEF T
  <2> QED
    BY <1>2, <2>1, Least
<1>4. PICK m \in Seq(Buffer) : Len(m) = k /\ ~Fine(m)
  OBVIOUS
<1>5. m # <<>>
  <2>1. Units(<<>>) = <<>>
    BY UnitsEmpty
  <2>2. Fine(<<>>)
    BY <2>1 DEF Has
  <2> HIDE DEF Fine
  <2> QED
    BY <1>4, <2>2
<1>6. PICK n \in Seq(Buffer), b \in Buffer : m = Append(n, b) /\ Len(n) = Len(m) - 1
  BY <1>5, LastBuffer
<1>7. Fine(n)
  <2>1. Len(n) \in Nat /\ Len(n) < k /\ k \in Nat
    BY <1>4, <1>6
  <2> HIDE DEF Fine
  <2> QED
    BY <1>3, <2>1
<1>8. Units(m) = Units(n) \o Copies(b)
  BY <1>6, UnitsAppend
<1>9. Units(n) \in Seq(Package) /\ Copies(b) \in Seq(Package)
  BY UnitsConcat, CopiesType
<1>10. Has(Copies(b), p) <=> b.pkg = p
  BY DEF Has, Copies, Buffer, Unit
<1>11. Has(Units(m), p) <=> Has(Units(n), p) \/ b.pkg = p
  BY <1>8, <1>9, <1>10, HasConcat
<1>12. (\E j \in DOMAIN m : m[j].pkg = p)
         <=> (\E j \in DOMAIN n : n[j].pkg = p) \/ b.pkg = p
  <2>1. /\ DOMAIN m = 1..(Len(n) + 1) /\ DOMAIN n = 1..Len(n) /\ Len(n) \in Nat
        /\ m[Len(n) + 1] = b /\ \A j \in 1..Len(n) : m[j] = n[j]
    BY <1>6
  <2>2. ASSUME NEW j \in DOMAIN m, m[j].pkg = p
        PROVE  (\E i \in DOMAIN n : n[i].pkg = p) \/ b.pkg = p
    <3>1. j = Len(n) + 1 \/ j \in 1..Len(n)
      BY <2>1
    <3> QED
      BY <2>1, <2>2, <3>1, Zenon
  <2>3. ASSUME NEW j \in DOMAIN n, n[j].pkg = p
        PROVE  \E i \in DOMAIN m : m[i].pkg = p
    <3>1. j \in DOMAIN m
      BY <2>1
    <3> QED
      BY <2>1, <2>3, <3>1, Zenon
  <2>4. ASSUME b.pkg = p
        PROVE  \E i \in DOMAIN m : m[i].pkg = p
    <3>1. Len(n) + 1 \in DOMAIN m
      BY <2>1
    <3> QED
      BY <2>1, <2>4, <3>1, Zenon
  <2> QED
    BY <2>2, <2>3, <2>4, Zenon
<1> QED
  BY <1>4, <1>7, <1>11, <1>12

\* A stream has every package whole, both units of it.
LEMMA TwoOf ==
  ASSUME NEW s \in Seq(Package), NEW x, Paired(s, x), Len(s) % Unit = 0,
         NEW p, Has(s, p)
  PROVE  Times(s, p) = Unit
<1>1. PICK i \in DOMAIN s : s[i] = p
  BY DEF Has
<1>2. DOMAIN s = 1..Len(s) /\ Len(s) \in Nat
  OBVIOUS
<1>3. \A j \in 1..Len(s) : s[j] = p <=> (j - 1) \div 2 = (i - 1) \div 2
  BY <1>1, <1>2 DEF Paired, Unit
<1> DEFINE n == (i - 1) \div 2
           m == Len(s)
<1>4. i \in Nat /\ 1 <= i /\ i <= m /\ m \in Nat /\ m % 2 = 0
  BY <1>1, <1>2 DEF Unit
<1> HIDE DEF m
<1>5. n \in Nat /\ 2 * n + 1 \in 1..m /\ 2 * n + 2 \in 1..m
  BY <1>4
<1>6. \A j \in 1..m : (j - 1) \div 2 = n <=> (j = 2 * n + 1 \/ j = 2 * n + 2)
  <2> HIDE DEF n
  <2> QED
    BY <1>4, <1>5
<1>7. \A j \in 1..m : s[j] = p <=> (j - 1) \div 2 = n
  BY <1>3 DEF m
<1>8. DOMAIN s = 1..m
  BY <1>2 DEF m
<1> HIDE DEF n
<1>9. {j \in DOMAIN s : s[j] = p} = {2 * n + 1} \cup {2 * n + 2}
  BY <1>5, <1>6, <1>7, <1>8
<1>10. Cardinality({2 * n + 1} \cup {2 * n + 2}) = 2
  <2> DEFINE A == {2 * n + 1}
             y == 2 * n + 2
  <2>1. IsFiniteSet(A) /\ Cardinality(A) = 1
    BY FS_Singleton
  <2>2. y \notin A
    BY <1>5
  <2> HIDE DEF A, y
  <2>3. Cardinality(A \cup {y}) = IF y \in A THEN Cardinality(A) ELSE Cardinality(A) + 1
    BY <2>1, FS_AddElement
  <2>4. Cardinality(A \cup {y}) = 2
    BY <2>1, <2>2, <2>3
  <2> QED
    BY <2>4 DEF A, y
<1> QED
  BY <1>9, <1>10 DEF Times, Unit

\* What comes behind does not count, if p is not there.
LEMMA TimesFirst ==
  ASSUME NEW a \in Seq(Package), NEW b \in Seq(Package), NEW p, ~Has(b, p)
  PROVE  Times(a \o b, p) = Times(a, p)
<1> DEFINE c == a \o b
<1>1. /\ \A i \in DOMAIN c :
           \/ i \in DOMAIN a /\ c[i] = a[i]
           \/ i \notin DOMAIN a /\ \E j \in DOMAIN b : c[i] = b[j]
      /\ \A i \in DOMAIN a : i \in DOMAIN c /\ c[i] = a[i]
  BY ConcatParts
<1> HIDE DEF c
<1>2. {i \in DOMAIN c : c[i] = p} = {i \in DOMAIN a : a[i] = p}
  BY <1>1 DEF Has
<1> QED
  BY <1>2 DEF Times, c

\* The packages of the buffers of a slot are those of the units that wait.
LEMMA ListsPending ==
  ASSUME TypeOK, NEW k \in Slot, NEW p
  PROVE  Has(Pending(k), p)
           <=> \E b \in ToSet(slot[k].high) \cup ToSet(slot[k].low)
                          \cup ({dw[k]} \ {None}) : b.pkg = p
<1> DEFINE h == Units(slot[k].high)
           l == Units(slot[k].low)
           r == Rest(dw[k])
<1>1. /\ slot[k].high \in Seq(Buffer) /\ slot[k].low \in Seq(Buffer)
      /\ dw[k] \in Buffer \cup {None}
  BY DEF TypeOK, Socket
<1>2. r \in Seq(Package) /\ h \in Seq(Package) /\ l \in Seq(Package)
      /\ h \o l \in Seq(Package)
  BY PendingType
<1>3. ASSUME NEW list \in Seq(Buffer)
      PROVE  Has(Units(list), p) <=> \E b \in ToSet(list) : b.pkg = p
  <2>1. (\E j \in DOMAIN list : list[j].pkg = p) <=> \E b \in ToSet(list) : b.pkg = p
    BY DEF ToSet
  <2> QED
    BY <2>1, UnitsOf
<1>4. /\ Has(h, p) <=> \E b \in ToSet(slot[k].high) : b.pkg = p
      /\ Has(l, p) <=> \E b \in ToSet(slot[k].low) : b.pkg = p
  BY <1>1, <1>3
<1>5. Has(r, p) <=> dw[k] # None /\ dw[k].pkg = p
  <2>1. CASE dw[k] = None
    BY <2>1 DEF Has, Rest
  <2>2. CASE dw[k] # None
    BY <1>1, <2>2 DEF Has, Rest, Copies, Buffer, Unit
  <2> QED
    BY <2>1, <2>2
<1>6. Pending(k) = r \o (h \o l)
  BY DEF Pending
<1> HIDE DEF h, l, r
<1>7. Has(Pending(k), p) <=> Has(r, p) \/ Has(h, p) \/ Has(l, p)
  <2>1. Has(h \o l, p) <=> Has(h, p) \/ Has(l, p)
    BY <1>2, HasConcat
  <2>2. Has(r \o (h \o l), p) <=> Has(r, p) \/ Has(h \o l, p)
    BY <1>2, HasConcat
  <2> QED
    BY <1>6, <2>1, <2>2
<1> QED
  BY <1>4, <1>5, <1>7
-----------------------------------------------------------------------------
(* The last requests of the owner.                                         *)

\* The owner ends a socket once, and does not take that back.
LEMMA AskedCases ==
  ASSUME SocketInv, ~failed, Next
  PROVE  /\ \A x \in Id : asked[x] \subseteq asked'[x]
         /\ (\A x \in Id, how \in Asks : ~Close(x, how))
              => \A x \in Id : Ended(x)' <=> Ended(x)
<1>1. TypeOK /\ asked \in [Id -> SUBSET {"start", "close", "shutdown"}]
  BY Parts DEF TypeOK
<1>2. CASE UNCHANGED asked
  BY <1>2 DEF Ended
<1>3. ASSUME NEW x \in Id, Start(x)
      PROVE  \A y \in Id : asked[y] \subseteq asked'[y] /\ (Ended(y)' <=> Ended(y))
  BY <1>1, <1>3 DEF Start, Ended
<1>4. ASSUME NEW x \in Id, NEW how \in Asks, Close(x, how)
      PROVE  \A y \in Id : asked[y] \subseteq asked'[y]
  BY <1>1, <1>4 DEF Close
<1>5. UNCHANGED asked \/ Asking
  <2>1. ASSUME NEW x \in Id, Connect(x)
        PROVE  UNCHANGED asked
    BY <2>1 DEF Connect, ownerVars
  <2> QED
    BY <1>1, <2>1, Cases, SendingFrame, PeerFrame, IdleFrame, ThreadFrame DEF ownerVars
<1> QED
  BY <1>2, <1>3, <1>4, <1>5 DEF Asking

\* What a step does to the pipe, but for the request that ends a socket.
Rolls ==
  \/ UNCHANGED pipe
  \/ pipe # <<>> /\ pipe' = Tail(pipe) /\ UNCHANGED call
  \/ \E r \in Request :
       /\ r.cmd # "K" /\ pipe' = Append(pipe, r)
       /\ r.cmd = "D" => \E c \in Sender : Requesting(c, r)

LEMMA RollsCases ==
  ASSUME SocketInv, ~failed, NumberInv, Next,
         \A x \in Id, how \in Asks : ~Close(x, how)
  PROVE  Rolls
<1>1. TypeOK /\ ToldInv
  BY Parts
<1>2. ASSUME NEW x \in Id, Start(x)
      PROVE  Rolls
  <2>1. [cmd |-> "R", id |-> x] \in Request
    BY RequestType
  <2> QED
    BY <1>2, <2>1 DEF Start, Rolls
<1>3. ASSUME NEW x \in Id, Connect(x)
      PROVE  Rolls
  <2>1. [cmd |-> "O", id |-> x] \in Request
    BY RequestType
  <2> QED
    BY <1>3, <2>1 DEF Connect, Rolls
<1>4. CASE Asking
  BY <1>2, <1>4 DEF Asking
<1>5. ASSUME NEW c \in Sender, Sending(c)
      PROVE  Rolls
  <2>1. Numbers(c)
    BY <1>1, <1>5, StepNumbers
  <2>2. ASSUME NEW r \in Request, pipe' = Append(pipe, r), r.cmd = "D", r.pkg = call[c].pkg,
               r.id = call[c].pkg.to, call[c].pc = "request", call'[c] = None,
               call[c] # None, count'[c] = count[c]
        PROVE  Rolls
    <3>1. Requesting(c, r)
      BY <2>1, <2>2 DEF Requesting, Numbers
    <3> QED
      BY <2>2, <3>1 DEF Rolls
  <2>3. ASSUME NEW r \in Request, r.cmd = "W", pipe' = Append(pipe, r)
        PROVE  Rolls
    BY <2>3 DEF Rolls
  <2>4. UNCHANGED pipe => Rolls
    BY DEF Rolls
  <2> QED
    BY <2>1, <2>2, <2>3, <2>4 DEF Numbers
<1>6. CASE Peer
  BY <1>6, PeerFrame DEF Rolls, pollVars
<1>7. CASE Idle
  BY <1>7, IdleFrame DEF Rolls
<1>8. CASE ChangesSlot
  <2>1. UNCHANGED call
    BY <1>8, ThreadFrame DEF senderVars
  <2>2. \/ \E cmd \in {"R", "K", "X", "D", "W"} : Command(cmd)
        \/ ForceClose
        \/ \E e \in ev : Handling(e)
    BY <1>8, ChangesCases
  <2> QED
    BY <2>1, <2>2 DEF Rolls, Command, ForceClose, Handling
<1>9. CASE OpenSocket
  BY <1>9, OpenFacts DEF Rolls, senderVars
<1>10. CASE \E x \in Id : Accept(x)
  BY <1>10, AcceptFacts DEF Rolls
<1> QED
  BY <1>3, <1>4, <1>5, <1>6, <1>7, <1>8, <1>9, <1>10, Cases

\* The owner does not send on a socket that it has ended.
EndedCalls == \A x \in Id : Ended(x) => call[Owner] = None \/ call[Owner].pkg.to # x

LEMMA EndedCallsStep ==
  ASSUME SocketInv, ~failed, EndedCalls, Next
  PROVE  EndedCalls'
<1>1. TypeOK /\ ToldInv /\ Owner \in Sender
  BY Parts, SocketServerAssumption
<1>2. ASSUME NEW x \in Id, NEW how \in Asks, Close(x, how)
      PROVE  call'[Owner] = None
  BY <1>2 DEF Close, senderVars
<1> SUFFICES ASSUME \A x \in Id, how \in Asks : ~Close(x, how) PROVE EndedCalls'
  BY <1>2 DEF EndedCalls
<1>3. \A x \in Id : Ended(x)' <=> Ended(x)
  BY AskedCases
<1>4. CASE UNCHANGED call \/ call'[Owner] = call[Owner]
  BY <1>3, <1>4 DEF EndedCalls
<1>5. CASE Sending(Owner)
  <2>1. \/ call[Owner] # None /\ call'[Owner].pkg = call[Owner].pkg
        \/ call'[Owner] = None
        \/ call[Owner] = None
    BY <1>1, <1>5, SendingCalls
  <2>2. ASSUME call[Owner] = None, call'[Owner] # None
        PROVE  ~Ended(call'[Owner].pkg.to)
    <3>1. PICK x \in Id, kind \in Sends : Send(Owner, x, kind)
      BY <1>5, <2>2 DEF Sending, SenderStep, TryLock, DoubleCheck, DirectWrite, Trigger,
                        IncSending, SendRequest
    <3>2. PICK pc : call'[Owner] = IF ~(~Invalid(x) /\ ~(kind = "D" /\ slot[HASH(x)].closing))
                                   THEN None
                                   ELSE [pc |-> pc,
                                         pkg |-> [by |-> Owner, no |-> count[Owner] + 1,
                                                  to |-> x, kind |-> kind]]
      BY <1>1, <3>1 DEF Send, TypeOK
    <3>3. call'[Owner].pkg.to = x
      BY <2>2, <3>2
    <3>4. ~Ended(x)
      BY <3>1 DEF Send, Ended
    <3> QED
      BY <3>3, <3>4
  <2>3. call[Owner] # None /\ call'[Owner].pkg = call[Owner].pkg => EndedCalls'
    BY <1>3 DEF EndedCalls
  <2>4. call'[Owner] = None => EndedCalls'
    BY DEF EndedCalls
  <2>5. call[Owner] = None /\ call'[Owner] # None => EndedCalls'
    BY <1>3, <2>2 DEF EndedCalls
  <2> QED
    BY <2>1, <2>3, <2>4, <2>5
<1>6. ASSUME NEW c \in Sender, Sending(c), c # Owner
      PROVE  call'[Owner] = call[Owner]
  BY <1>1, <1>6, SendingCalls
<1> QED
  BY <1>4, <1>5, <1>6, CallCases DEF Aside

\* What the thread has seen the end of stays so.
LEMMA OverStays ==
  ASSUME SocketInv, ~failed, NumberInv, "shutdown" \notin Asks, Next,
         NEW x \in Id, Over(x)
  PROVE  Over(x)'
<1>1. TypeOK /\ IdInv /\ pipe \in Seq(Request)
  BY Parts DEF TypeOK
<1>2. Ended(x)'
  BY AskedCases DEF Over, Ended
<1>3. CASE \E y \in Id, how \in Asks : Close(y, how)
  <2>1. PICK y \in Id, how \in Asks : Close(y, how)
    BY <1>3
  <2>2. y # x /\ how = "close"
    BY <2>1, SocketServerAssumption DEF Close, Over, Ended
  <2>3. pipe' = Append(pipe, [cmd |-> "K", id |-> y])
    BY <2>1, <2>2 DEF Close
  <2>4. [cmd |-> "K", id |-> y] \in Request
    BY RequestType
  <2>5. \A i \in DOMAIN pipe' : pipe'[i] = [cmd |-> "K", id |-> y] \/ (i \in DOMAIN pipe /\ pipe'[i] = pipe[i])
    BY <1>1, <2>3, <2>4, AppendFacts
  <2> QED
    BY <1>2, <2>2, <2>5 DEF Over
<1>4. CASE Rolls
  <2>1. CASE UNCHANGED pipe
    BY <1>2, <2>1 DEF Over
  <2>2. CASE pipe # <<>> /\ pipe' = Tail(pipe)
    BY <1>1, <1>2, <2>2, HeadPipe DEF Over
  <2>3. ASSUME NEW r \in Request, r.cmd # "K", pipe' = Append(pipe, r)
        PROVE  Over(x)'
    <3>1. \A i \in DOMAIN pipe' : pipe'[i] = r \/ (i \in DOMAIN pipe /\ pipe'[i] = pipe[i])
      BY <1>1, <2>3, AppendFacts
    <3> QED
      BY <1>2, <2>3, <3>1 DEF Over
  <2> QED
    BY <1>4, <2>1, <2>2, <2>3 DEF Rolls
<1> QED
  BY <1>3, <1>4, RollsCases
-----------------------------------------------------------------------------
(* The order of the last requests in the pipe.                             *)

OwnD(r) == r.cmd = "D" /\ r.pkg.by = Owner

\* In the pipe f, the request to close a socket is the last of its owner; ended
\* are the sockets whose owner has made it.
Behind(f, ended) ==
  /\ \A i \in DOMAIN f : f[i].cmd = "K" => f[i].id \in ended
  /\ \A i, j \in DOMAIN f :
       f[i].cmd = "K" /\ f[j].id = f[i].id /\ (f[j].cmd = "K" \/ OwnD(f[j])) => j <= i
  /\ \A j \in DOMAIN f : OwnD(f[j]) /\ f[j].id \in ended =>
       \E i \in DOMAIN f : f[i].cmd = "K" /\ f[i].id = f[j].id

LEMMA BehindTail ==
  ASSUME NEW f \in Seq(Request), f # <<>>, NEW ended, Behind(f, ended)
  PROVE  Behind(Tail(f), ended)
<1> DEFINE g == Tail(f)
           m == Len(f)
<1>1. /\ DOMAIN g = 1..(m - 1) /\ DOMAIN f = 1..m /\ m \in Nat /\ m > 0
      /\ \A i \in 1..(m - 1) : g[i] = f[i + 1]
  OBVIOUS
<1> HIDE DEF g, m
<1>2. \A i \in DOMAIN g : i \in Int /\ i + 1 \in DOMAIN f /\ g[i] = f[i + 1]
  BY <1>1
<1>3. \A i \in DOMAIN g : g[i].cmd = "K" => g[i].id \in ended
  BY <1>2 DEF Behind
<1>4. ASSUME NEW i \in DOMAIN g, NEW j \in DOMAIN g, g[i].cmd = "K", g[j].id = g[i].id,
             g[j].cmd = "K" \/ OwnD(g[j])
      PROVE  j <= i
  <2>1. j + 1 <= i + 1
    BY <1>2, <1>4 DEF Behind
  <2> QED
    BY <1>2, <2>1
<1>5. ASSUME NEW j \in DOMAIN g, OwnD(g[j]), g[j].id \in ended
      PROVE  \E i \in DOMAIN g : g[i].cmd = "K" /\ g[i].id = g[j].id
  <2>1. PICK i \in DOMAIN f : f[i].cmd = "K" /\ f[i].id = f[j + 1].id
    BY <1>2, <1>5 DEF Behind
  <2>2. j + 1 <= i
    BY <1>2, <1>5, <2>1 DEF Behind
  <2>3. i - 1 \in DOMAIN g /\ (i - 1) + 1 = i
    BY <1>1, <2>2
  <2>4. g[i - 1] = f[i]
    BY <1>2, <2>3
  <2> QED
    BY <1>2, <2>1, <2>3, <2>4
<1> QED
  BY <1>3, <1>4, <1>5 DEF Behind, g

LEMMA BehindAppend ==
  ASSUME NEW f \in Seq(Request), NEW r \in Request, NEW ended, Behind(f, ended),
         r.cmd # "K", OwnD(r) => r.id \notin ended
  PROVE  Behind(Append(f, r), ended)
<1> DEFINE g == Append(f, r)
           n == Len(f) + 1
<1>1. /\ DOMAIN g = DOMAIN f \cup {n} /\ n \notin DOMAIN f
      /\ g[n] = r /\ \A i \in DOMAIN f : g[i] = f[i] /\ i \in Int /\ i < n
      /\ n \in Int
  OBVIOUS
<1> HIDE DEF g, n
<1>2. \A i \in DOMAIN g : g[i].cmd = "K" => i \in DOMAIN f /\ g[i] = f[i]
  BY <1>1
<1>3. \A i \in DOMAIN g : g[i].cmd = "K" => g[i].id \in ended
  BY <1>2 DEF Behind
<1>4. ASSUME NEW i \in DOMAIN g, NEW j \in DOMAIN g, g[i].cmd = "K", g[j].id = g[i].id,
             g[j].cmd = "K" \/ OwnD(g[j])
      PROVE  j <= i
  <2>1. i \in DOMAIN f /\ g[i] = f[i] /\ g[i].id \in ended
    BY <1>2, <1>3, <1>4
  <2>2. j \in DOMAIN f /\ g[j] = f[j]
    BY <1>1, <1>4, <2>1
  <2> QED
    BY <1>4, <2>1, <2>2 DEF Behind
<1>5. ASSUME NEW j \in DOMAIN g, OwnD(g[j]), g[j].id \in ended
      PROVE  \E i \in DOMAIN g : g[i].cmd = "K" /\ g[i].id = g[j].id
  <2>1. j \in DOMAIN f /\ g[j] = f[j]
    BY <1>1, <1>5
  <2>2. PICK i \in DOMAIN f : f[i].cmd = "K" /\ f[i].id = f[j].id
    BY <1>5, <2>1 DEF Behind
  <2> QED
    BY <1>1, <2>1, <2>2
<1> QED
  BY <1>3, <1>4, <1>5 DEF Behind, g

LEMMA BehindClose ==
  ASSUME NEW f \in Seq(Request), NEW r \in Request, NEW ended, Behind(f, ended),
         r.cmd = "K", r.id \notin ended
  PROVE  Behind(Append(f, r), ended \cup {r.id})
<1> DEFINE g == Append(f, r)
           n == Len(f) + 1
<1>1. /\ DOMAIN g = DOMAIN f \cup {n} /\ n \notin DOMAIN f
      /\ g[n] = r /\ \A i \in DOMAIN f : g[i] = f[i] /\ i \in Int /\ i < n
      /\ n \in Int
  OBVIOUS
<1> HIDE DEF g, n
<1>2. \A i \in DOMAIN g : g[i].cmd = "K" => g[i].id \in ended \cup {r.id}
  BY <1>1 DEF Behind
<1>3. ~OwnD(r)
  BY DEF OwnD
<1>4. ASSUME NEW i \in DOMAIN g, NEW j \in DOMAIN g, g[i].cmd = "K", g[j].id = g[i].id,
             g[j].cmd = "K" \/ OwnD(g[j])
      PROVE  j <= i
  <2>1. CASE i = n
    BY <1>1, <2>1
  <2>2. CASE i # n
    <3>1. i \in DOMAIN f /\ g[i] = f[i] /\ f[i].id \in ended
      BY <1>1, <1>4, <2>2 DEF Behind
    <3>2. j \in DOMAIN f /\ g[j] = f[j]
      BY <1>1, <1>4, <3>1
    <3> QED
      BY <1>4, <3>1, <3>2 DEF Behind
  <2> QED
    BY <2>1, <2>2
<1>5. ASSUME NEW j \in DOMAIN g, OwnD(g[j]), g[j].id \in ended \cup {r.id}
      PROVE  \E i \in DOMAIN g : g[i].cmd = "K" /\ g[i].id = g[j].id
  <2>1. j \in DOMAIN f /\ g[j] = f[j]
    BY <1>1, <1>3, <1>5
  <2>2. CASE g[j].id = r.id
    BY <1>1, <2>2
  <2>3. CASE g[j].id \in ended
    <3>1. PICK i \in DOMAIN f : f[i].cmd = "K" /\ f[i].id = f[j].id
      BY <1>5, <2>1, <2>3 DEF Behind
    <3> QED
      BY <1>1, <2>1, <3>1
  <2> QED
    BY <1>5, <2>2, <2>3
<1> QED
  BY <1>2, <1>4, <1>5 DEF Behind, g

EndedIds == {x \in Id : Ended(x)}

LEMMA LastParts ==
  ASSUME pipe \in Seq(Request)
  PROVE  LastInv <=> EndedCalls /\ Behind(pipe, EndedIds)
<1>1. \A r \in Request : r.id \in Id
  BY DEF Request
<1>2. \A i \in DOMAIN pipe : pipe[i].id \in Id
  BY <1>1
<1>3. \A i \in DOMAIN pipe : pipe[i].id \in EndedIds <=> Ended(pipe[i].id)
  BY <1>2 DEF EndedIds
<1> QED
  BY <1>3 DEF LastInv, EndedCalls, Behind, OwnD, Over

\* The same of the next state.
LEMMA LastPartsNext ==
  ASSUME pipe' \in Seq(Request), EndedCalls', Behind(pipe', EndedIds')
  PROVE  LastInv'
<1>1. \A r \in Request : r.id \in Id
  BY DEF Request
<1>2. \A i \in DOMAIN pipe' : pipe'[i].id \in Id
  BY <1>1
<1>3. \A i \in DOMAIN pipe' : pipe'[i].id \in EndedIds' <=> asked'[pipe'[i].id] \cap {"close", "shutdown"} # {}
  BY <1>2 DEF EndedIds, Ended
<1>4. \A i \in DOMAIN pipe' : pipe'[i].cmd = "K" => asked'[pipe'[i].id] \cap {"close", "shutdown"} # {}
  BY <1>3 DEF Behind
<1>5. \A i, j \in DOMAIN pipe' :
        pipe'[i].cmd = "K" /\ pipe'[j].id = pipe'[i].id /\ (pipe'[j].cmd = "K" \/ OwnD(pipe'[j]))
          => j <= i
  BY DEF Behind
<1>6. \A j \in DOMAIN pipe' : OwnD(pipe'[j]) /\ asked'[pipe'[j].id] \cap {"close", "shutdown"} # {} =>
       \E i \in DOMAIN pipe' : pipe'[i].cmd = "K" /\ pipe'[i].id = pipe'[j].id
  BY <1>3 DEF Behind
<1> QED
  BY <1>4, <1>5, <1>6 DEF LastInv, EndedCalls, OwnD, Over, Ended

LEMMA LastStep ==
  ASSUME SocketInv, ~failed, NumberInv, "shutdown" \notin Asks, LastInv, Next
  PROVE  LastInv'
<1>1. TypeOK /\ pipe \in Seq(Request)
  BY Parts DEF TypeOK
<1>2. EndedCalls /\ Behind(pipe, EndedIds)
  BY <1>1, LastParts
<1>3. EndedCalls'
  BY <1>2, EndedCallsStep
<1>4. CASE \E y \in Id, how \in Asks : Close(y, how)
  <2>1. PICK y \in Id, how \in Asks : Close(y, how)
    BY <1>4
  <2>2. how = "close" /\ ~Ended(y)
    BY <2>1, SocketServerAssumption DEF Close, Ended
  <2> DEFINE r == [cmd |-> "K", id |-> y]
  <2>3. pipe' = Append(pipe, r) /\ asked' = [asked EXCEPT ![y] = @ \cup {"close"}]
    BY <2>1, <2>2 DEF Close
  <2>4. r \in Request /\ r.cmd = "K" /\ r.id = y
    BY RequestType
  <2> HIDE DEF r
  <2>5. asked \in [Id -> SUBSET {"start", "close", "shutdown"}]
    BY <1>1 DEF TypeOK
  <2>6. EndedIds' = EndedIds \cup {y}
    BY <2>3, <2>5 DEF EndedIds, Ended
  <2>7. y \notin EndedIds
    BY <2>2 DEF EndedIds
  <2>8. pipe' \in Seq(Request)
    BY <1>1, <2>3, <2>4
  <2>9. Behind(pipe', EndedIds')
    BY <1>1, <1>2, <2>3, <2>4, <2>6, <2>7, BehindClose
  <2> QED
    BY <1>3, <2>8, <2>9, LastPartsNext
<1>5. CASE \A y \in Id, how \in Asks : ~Close(y, how)
  <2>1. \A x \in Id : Ended(x)' <=> Ended(x)
    BY <1>5, AskedCases
  <2>2. EndedIds' = EndedIds
    BY <2>1 DEF EndedIds
  <2>3. CASE UNCHANGED pipe
    BY <1>1, <1>2, <1>3, <2>2, <2>3, LastPartsNext
  <2>4. CASE pipe # <<>> /\ pipe' = Tail(pipe)
    <3>1. pipe' \in Seq(Request)
      BY <1>1, <2>4
    <3>2. Behind(pipe', EndedIds')
      BY <1>1, <1>2, <2>2, <2>4, BehindTail
    <3> QED
      BY <1>3, <3>1, <3>2, LastPartsNext
  <2>5. ASSUME NEW r \in Request, r.cmd # "K", pipe' = Append(pipe, r),
               r.cmd = "D" => \E c \in Sender : Requesting(c, r)
        PROVE  LastInv'
    <3>1. pipe' \in Seq(Request)
      BY <1>1, <2>5
    <3>2. OwnD(r) => r.id \notin EndedIds
      <4> SUFFICES ASSUME OwnD(r) PROVE r.id \notin EndedIds
        OBVIOUS
      <4>1. PICK c \in Sender : Requesting(c, r)
        BY <2>5 DEF OwnD
      <4>2. call[c].pkg.by = c /\ call[c] # None /\ r.pkg = call[c].pkg /\ r.id = call[c].pkg.to
        BY <4>1 DEF Requesting, NumberInv
      <4>3. c = Owner
        BY <4>2 DEF OwnD
      <4> QED
        BY <1>2, <4>2, <4>3 DEF EndedCalls, EndedIds
    <3>3. Behind(pipe', EndedIds')
      BY <1>1, <1>2, <2>2, <2>5, <3>2, BehindAppend
    <3> QED
      BY <1>3, <3>1, <3>3, LastPartsNext
  <2>6. Rolls
    BY <1>5, RollsCases
  <2> QED
    BY <2>3, <2>4, <2>5, <2>6 DEF Rolls
<1> QED
  BY <1>4, <1>5
-----------------------------------------------------------------------------
(* A socket that takes no packages any more.                               *)

LEMMA FieldsClosing ==
  ASSUME NEW s \in Socket, NEW type \in Types, NEW reading \in BOOLEAN,
         NEW writing \in BOOLEAN
  PROVE  /\ [s EXCEPT !.reading = reading, !.type = type].closing = s.closing
         /\ [s EXCEPT !.type = type, !.reading = reading].closing = s.closing
         /\ [s EXCEPT !.closing = TRUE, !.reading = reading, !.type = type].closing = TRUE
         /\ [s EXCEPT !.type = type, !.writing = writing].closing = s.closing
         /\ [s EXCEPT !.writing = writing].closing = s.closing
         /\ ForceClosed(s).closing = s.closing /\ Freed(s).closing = s.closing
BY DEF Socket, ForceClosed, Freed

CloseTypes ==
  \A k \in Slot :
    slot[k].closing => slot[k].type \in {"halfclose_read", "invalid", "reserve"}

\* The thread does what the owner of the socket of k asked.
Ending(k) == CloseSocket("K") /\ Alive(k) /\ slot[k].id = Head(pipe).id

\* What becomes of a slot: why it may be closing, or free.
Turned(k, t) ==
  /\ t.closing =>
       /\ t.type \in {"halfclose_read", "invalid", "reserve"}
       /\ slot[k].closing \/ Ending(k)
  /\ t.type = "invalid" /\ slot[k].type # "invalid" =>
       \/ slot[k].closing \/ peer[slot[k].id] \in {"rst", "dead"}
       \/ force # None /\ force.s = k

Turns == \A k \in Slot : Turned(k, slot'[k])

LEMMA TurnsPuts ==
  ASSUME TypeOK, CloseTypes, NEW j \in Slot, NEW t, Puts(j, t), Turned(j, t)
  PROVE  Turns
<1>1. \A k \in Slot : slot'[k] = IF k = j THEN t ELSE slot[k]
  BY PutsAt
<1>2. ASSUME NEW k \in Slot
      PROVE  Turned(k, slot[k])
  BY DEF Turned, CloseTypes
<1> QED
  BY <1>1, <1>2 DEF Turns

LEMMA TurnsNot ==
  ASSUME CloseTypes, UNCHANGED slot
  PROVE  Turns
BY DEF Turns, Turned, CloseTypes

\* A slot whose type and closing stay.
LEMMA TurnedSame ==
  ASSUME CloseTypes, NEW k \in Slot, NEW t, t.type = slot[k].type, t.closing = slot[k].closing
  PROVE  Turned(k, t)
BY DEF Turned, CloseTypes

LEMMA FreedTurns ==
  ASSUME TypeOK, CloseTypes, NEW k \in Slot, NEW raise, ForceCloseAt(k, raise)
  PROVE  Turns
<1>1. Puts(k, Freed(slot[k])) /\ slot[k] \in Socket
  BY ForceCloseAtPuts DEF TypeOK
<1>2. Same(slot[k], Freed(slot[k]))
  BY <1>1, FreedFacts
<1>3. Turned(k, Freed(slot[k]))
  BY <1>2, TurnedSame DEF Same
<1> QED
  BY <1>1, <1>3, TurnsPuts

LEMMA ResumeTurns ==
  ASSUME SocketInv, ~failed, CloseTypes, ResumeSocket
  PROVE  Turns
<1>1. TypeOK /\ IdInv
  BY Parts
<1> DEFINE k == HASH(Head(pipe).id)
           type == IF slot[k].type = "paccept" THEN "connected" ELSE slot[k].type
           t == [slot[k] EXCEPT !.reading = TRUE, !.type = type]
<1>2. k \in Slot
  BY <1>1, HeadPipe DEF ResumeSocket, Command
<1>3. UNCHANGED slot \/ slot' = [slot EXCEPT ![k] = t]
  BY DEF ResumeSocket
<1>4. slot[k] \in Socket /\ type \in Types
  BY <1>1, <1>2 DEF TypeOK, Socket, Types
<1> HIDE DEF k
<1>5. t \in Socket /\ t.type = type /\ t.closing = slot[k].closing
  <2> HIDE DEF type
  <2> QED
    BY <1>4, FieldsSet, FieldsClosing
<1>6. Turned(k, t)
  <2> HIDE DEF t
  <2> QED
    BY <1>2, <1>5 DEF Turned, CloseTypes
<1> QED
  <2> HIDE DEF t
  <2> QED
    BY <1>1, <1>2, <1>3, <1>5, <1>6, TurnsPuts, TurnsNot DEF Puts

LEMMA CloseTurns ==
  ASSUME SocketInv, ~failed, CloseTypes, CloseSocket("K")
  PROVE  Turns
<1>1. TypeOK /\ IdInv /\ OpenInv
  BY Parts
<1> DEFINE x == Head(pipe).id
           k == HASH(x)
           t == [slot[k] EXCEPT !.closing = TRUE, !.reading = FALSE, !.type = "halfclose_read"]
<1>2. k \in Slot /\ pipe # <<>> /\ Head(pipe).cmd = "K"
  BY <1>1, HeadPipe DEF CloseSocket, Command
<1>3. \/ UNCHANGED slot
      \/ ForceCloseAt(k, Raises(k))
      \/ ~Invalid(x) /\ slot' = [slot EXCEPT ![k] = t]
  BY DEF CloseSocket
<1>4. slot[k] \in Socket /\ "halfclose_read" \in Types /\ FALSE \in BOOLEAN
  BY <1>1, <1>2 DEF TypeOK, Types
<1>5. ~Invalid(x) => Alive(k) /\ slot[k].id = x
  BY <1>1, <1>2, NotReserved DEF Invalid
<1>6. ~Invalid(x) => Ending(k)
  BY <1>5 DEF Ending
<1> HIDE DEF k, x
<1>7. t \in Socket /\ t.type = "halfclose_read"
  BY <1>4, FieldsSet
<1> HIDE DEF t
<1>8. ~Invalid(x) => Turned(k, t)
  BY <1>6, <1>7 DEF Turned
<1> QED
  BY <1>1, <1>2, <1>3, <1>7, <1>8, FreedTurns, TurnsPuts, TurnsNot DEF Puts

LEMMA SendTurns ==
  ASSUME SocketInv, ~failed, CloseTypes, SendSocket \/ TriggerWrite
  PROVE  Turns
<1>1. TypeOK /\ IdInv /\ ToldInv /\ SizeInv
  BY Parts
<1> DEFINE k == HASH(Head(pipe).id)
<1>2. k \in Slot
  BY <1>1, HeadPipe DEF SendSocket, TriggerWrite, Command
<1>3. CASE SendSocket
  <2>1. UNCHANGED slot \/ \E t : Puts(k, t) /\ Same(slot[k], t)
    BY <1>1, <1>3, SendSocketPuts
  <2> HIDE DEF k
  <2> QED
    BY <1>1, <1>2, <2>1, TurnsPuts, TurnsNot, TurnedSame DEF Same
<1>4. CASE TriggerWrite
  <2> DEFINE t == [slot[k] EXCEPT !.writing = TRUE]
  <2>1. UNCHANGED slot \/ slot' = [slot EXCEPT ![k] = t]
    BY <1>4 DEF TriggerWrite
  <2>2. slot[k] \in Socket /\ TRUE \in BOOLEAN /\ "invalid" \in Types
    BY <1>1, <1>2 DEF TypeOK, Types
  <2> HIDE DEF k
  <2>3. t \in Socket /\ t.type = slot[k].type /\ t.closing = slot[k].closing
    BY <2>2, FieldsSet, FieldsClosing
  <2> HIDE DEF t
  <2> QED
    BY <1>1, <1>2, <2>1, <2>3, TurnsPuts, TurnsNot, TurnedSame DEF Puts
<1> QED
  BY <1>3, <1>4

LEMMA ForceCloseTurns ==
  ASSUME SocketInv, ~failed, CloseTypes, ForceClose
  PROVE  Turns
<1>1. TypeOK /\ ForceInv
  BY Parts
<1> DEFINE k == force.s
           t == ForceClosed(slot[k])
<1>2. k \in Slot /\ Puts(k, t) /\ force # None
  BY <1>1, ForceClosePuts DEF ForceClose
<1>3. slot[k] \in Socket /\ "invalid" \in Types /\ FALSE \in BOOLEAN
  BY <1>1, <1>2 DEF TypeOK, Types
<1>4. t.type = "invalid" /\ t.closing = slot[k].closing
  BY <1>3, FreedFacts, FieldsClosing
<1>5. Turned(k, t)
  <2> HIDE DEF t
  <2> QED
    BY <1>2, <1>4 DEF Turned
<1> QED
  BY <1>1, <1>2, <1>5, TurnsPuts

LEMMA EventTurns ==
  ASSUME SocketInv, ~failed, CloseTypes, NEW e \in ev \ {None},
         ReportConnect(e) \/ ReadEnd(e) \/ EofEvent(e)
  PROVE  Turns
<1>1. TypeOK
  BY Parts
<1> DEFINE k == e.s
           w == slot[k].writing /\ ~NoMoreSending(k)
           c == [slot[k] EXCEPT !.type = "connected", !.writing = w]
           h == [slot[k] EXCEPT !.type = "halfclose_read", !.reading = FALSE]
<1>2. k \in Slot /\ slot[k] \in Socket
  BY <1>1, EventSlot
<1>3. \/ UNCHANGED slot
      \/ \E raise : ForceCloseAt(k, raise)
      \/ slot[k].type = "connecting" /\ slot' = [slot EXCEPT ![k] = c]
      \/ slot' = [slot EXCEPT ![k] = h]
  BY DEF ReportConnect, ReadEnd, EofEvent
<1>4. {"connected", "halfclose_read"} \subseteq Types /\ FALSE \in BOOLEAN /\ w \in BOOLEAN
  BY DEF Types
<1> HIDE DEF w, k
<1>5. c \in Socket /\ c.type = "connected" /\ c.closing = slot[k].closing
  <2>1. ASSUME NEW v \in BOOLEAN
        PROVE  /\ [slot[k] EXCEPT !.type = "connected", !.writing = v] \in Socket
               /\ [slot[k] EXCEPT !.type = "connected", !.writing = v].type = "connected"
               /\ [slot[k] EXCEPT !.type = "connected", !.writing = v].closing = slot[k].closing
    <3>1. "connected" \in Types
      BY <1>4
    <3> QED
      BY <1>2, <3>1 DEF Socket
  <2> QED
    BY <1>4, <2>1, Zenon
<1>6. h \in Socket /\ h.type = "halfclose_read" /\ h.closing = slot[k].closing
  BY <1>2, <1>4, FieldsSet, FieldsClosing
<1> HIDE DEF c, h
<1>7. slot[k].type = "connecting" => Turned(k, c)
  BY <1>2, <1>5 DEF Turned, CloseTypes
<1>8. Turned(k, h)
  BY <1>2, <1>6 DEF Turned
<1> QED
  BY <1>1, <1>2, <1>3, <1>5, <1>6, <1>7, <1>8, FreedTurns, TurnsPuts, TurnsNot DEF Puts

LEMMA SendBufferTurns ==
  ASSUME SocketInv, ~failed, CloseTypes, NEW e \in ev \ {None}, NEW u, SendBuffer(e, u)
  PROVE  Turns
<1>1. TypeOK /\ FreshInv /\ SizeInv
  BY Parts
<1> DEFINE k == e.s
           t == Sent(Merged(k), u)
           r == [t EXCEPT !.writing = FALSE]
<1>2. k \in Slot
  BY <1>1, EventSlot
<1>3. t \in Socket /\ t.type = slot[k].type /\ t.closing = slot[k].closing
  BY <1>1, SendBufferPuts DEF Same
<1>4. \/ slot' = [slot EXCEPT ![k] = t]
      \/ t.closing /\ slot' = [slot EXCEPT ![k] = ForceClosed(t)]
      \/ slot' = [slot EXCEPT ![k] = r]
  BY DEF SendBuffer
<1> HIDE DEF t
<1>5. "invalid" \in Types /\ FALSE \in BOOLEAN
  BY DEF Types
<1>6. /\ ForceClosed(t) \in Socket /\ ForceClosed(t).type = "invalid"
      /\ ForceClosed(t).closing = t.closing
  BY <1>3, <1>5, FreedFacts, FieldsClosing
<1>7. r \in Socket /\ r.type = t.type /\ r.closing = t.closing
  BY <1>3, <1>5, FieldsSet, FieldsClosing
<1> HIDE DEF r, k
<1>8. Turned(k, t) /\ Turned(k, r)
  BY <1>2, <1>3, <1>7, TurnedSame
<1>9. t.closing => Turned(k, ForceClosed(t))
  BY <1>3, <1>6 DEF Turned
<1> QED
  BY <1>1, <1>2, <1>3, <1>4, <1>6, <1>7, <1>8, <1>9, TurnsPuts DEF Puts

LEMMA WriteErrorTurns ==
  ASSUME SocketInv, ~failed, CloseTypes, NEW e \in ev \ {None}, WriteError(e)
  PROVE  Turns
<1>1. TypeOK /\ FreshInv /\ SizeInv
  BY Parts
<1> DEFINE k == e.s
           s == Merged(k)
           f == Freed(s)
           h == [s EXCEPT !.type = "halfclose_write", !.writing = FALSE]
<1>2. k \in Slot
  BY <1>1, EventSlot
<1>3. s \in Socket /\ s.type = slot[k].type /\ s.closing = slot[k].closing /\ Alive(k)
  BY <1>1, WriteErrorPuts DEF Same
<1>4. peer[slot[k].id] \in {"rst", "dead"}
  BY <1>3 DEF WriteError, Alive
<1>5. \/ slot' = [slot EXCEPT ![k] = ForceClosed(f)]
      \/ slot' = [slot EXCEPT ![k] = s]
      \/ ~s.closing /\ slot' = [slot EXCEPT ![k] = h]
  BY DEF WriteError
<1> HIDE DEF s, k
<1>6. {"invalid", "halfclose_write"} \subseteq Types /\ FALSE \in BOOLEAN
  BY DEF Types
<1>7. f \in Socket /\ f.closing = s.closing
  BY <1>3, <1>6, FreedFacts, FieldsClosing
<1>8. h \in Socket /\ h.type = "halfclose_write" /\ h.closing = s.closing
  BY <1>3, <1>6, FieldsSet, FieldsClosing
<1> HIDE DEF f, h
<1>9. ForceClosed(f) \in Socket /\ ForceClosed(f).type = "invalid" /\ ForceClosed(f).closing = s.closing
  BY <1>6, <1>7, FreedFacts, FieldsClosing
<1>10. Turned(k, ForceClosed(f))
  BY <1>3, <1>4, <1>9 DEF Turned
<1>11. Turned(k, s)
  BY <1>2, <1>3, TurnedSame
<1>12. ~s.closing => Turned(k, h)
  BY <1>8 DEF Turned
<1> QED
  BY <1>1, <1>2, <1>3, <1>5, <1>8, <1>9, <1>10, <1>11, <1>12, TurnsPuts DEF Puts

LEMMA OldTurns ==
  ASSUME SocketInv, ~failed, EndInv, CloseTypes, Next, Old
  PROVE  Turns
<1>1. TypeOK /\ IdInv
  BY Parts
<1>2. ~CloseSocket("X")
  <2> SUFFICES ASSUME CloseSocket("X") PROVE FALSE
    OBVIOUS
  <2>1. pipe # <<>> /\ Head(pipe).cmd = "X"
    BY DEF CloseSocket, Command
  <2> QED
    BY <1>1, <2>1, HeadPipe DEF EndInv
<1>3. CASE ChangesSlot
  BY <1>2, <1>3, ResumeTurns, CloseTurns, SendTurns, ForceCloseTurns, EventTurns,
     SendBufferTurns, WriteErrorTurns DEF ChangesSlot
<1>4. UNCHANGED slot \/ ChangesSlot
  BY <1>1, Cases, SendingFrame, AskingFrame, PeerFrame, IdleFrame DEF Old, slotVars
<1> QED
  BY <1>3, <1>4, TurnsNot
-----------------------------------------------------------------------------
(* When the thread closes a connection by force.                           *)

\* Nobody writes on the socket of k, or the connection takes nothing any more.
Gone(k) == "open" \notin told[slot[k].id] \/ ~Live(slot[k].id)

Starts(k) ==
  /\ force' # None => force'.s = k
  /\ k \in Slot /\ Alive(k) /\ slot'[k] = Freed(slot[k])
  /\ UNCHANGED <<told, dw, peer>>
  /\ Ending(k) \/ slot[k].closing \/ Gone(k)
  /\ dw[k] = None \/ Gone(k)

LEMMA ForceCloseAtStarts ==
  ASSUME TypeOK, NEW k \in Slot, Alive(k), NEW raise, ForceCloseAt(k, raise),
         UNCHANGED <<told, dw, peer>>,
         Ending(k) \/ slot[k].closing \/ Gone(k), dw[k] = None \/ Gone(k)
  PROVE  Starts(k)
<1>1. Puts(k, Freed(slot[k]))
  BY ForceCloseAtPuts
<1>2. slot'[k] = Freed(slot[k])
  BY <1>1, PutsAt
<1> QED
  BY <1>2 DEF Starts, ForceCloseAt

LEMMA CloseStarts ==
  ASSUME SocketInv, ~failed, EndInv, CloseSocket("K")
  PROVE  UNCHANGED force \/ \E k \in Slot : Starts(k)
<1>1. TypeOK /\ IdInv /\ OpenInv
  BY Parts
<1> DEFINE x == Head(pipe).id
           k == HASH(x)
<1>2. k \in Slot /\ pipe # <<>> /\ Head(pipe).cmd = "K"
  BY <1>1, HeadPipe DEF CloseSocket, Command
<1>3. \/ UNCHANGED force
      \/ /\ ~Invalid(x) /\ NoMoreSending(k)
         /\ ForceCloseAt(k, Raises(k)) /\ UNCHANGED <<told, dw, peer>>
  BY DEF CloseSocket, TellNothing
<1>4. ~Invalid(x) => Alive(k) /\ Ending(k)
  BY <1>1, <1>2, NotReserved DEF Invalid, Ending
<1>5. NoMoreSending(k) => dw[k] = None \/ Gone(k)
  BY <1>2 DEF NoMoreSending, EndInv, Gone
<1> HIDE DEF k, x
<1> QED
  BY <1>1, <1>2, <1>3, <1>4, <1>5, ForceCloseAtStarts

LEMMA EventStarts ==
  ASSUME SocketInv, ~failed, EndInv, NEW e \in ev \ {None},
         ReportConnect(e) \/ ReadEnd(e) \/ EofEvent(e), ~failed'
  PROVE  UNCHANGED force \/ \E k \in Slot : Starts(k)
<1>1. TypeOK
  BY Parts
<1> DEFINE k == e.s
<1>2. k \in Slot /\ UNCHANGED <<dw, peer>>
  BY <1>1, EventSlot DEF ReportConnect, ReadEnd, EofEvent, netVars
<1>3. \/ UNCHANGED force
      \/ /\ slot[k].type # "invalid" /\ UNCHANGED told
         /\ \E raise : ForceCloseAt(k, raise)
         /\ \/ slot[k].type \in {"connecting", "halfclose_write"} \/ e.end = "hup"
            \/ slot[k].closing /\ NoMoreSending(k)
  <2>1. CASE ReportConnect(e)
    <3>1. /\ slot[k].type = "connecting"
          /\ (ForceCloseAt(k, "err") /\ TellNothing) \/ UNCHANGED force
      BY <1>1, <2>1, ReportConnectPuts
    <3>2. (ForceCloseAt(k, "err") /\ UNCHANGED told) \/ UNCHANGED force
      BY <3>1 DEF TellNothing
    <3> QED
      BY <3>1, <3>2
  <2>2. CASE ReadEnd(e)
    <3>1. slot[k].type # "invalid"
      BY <2>2 DEF ReadEnd, Default
    <3>2. \/ UNCHANGED force
          \/ UNCHANGED told /\ ForceCloseAt(k, "none") /\ slot[k].closing /\ NoMoreSending(k)
          \/ UNCHANGED told /\ ForceCloseAt(k, "close") /\ slot[k].type = "halfclose_write"
      BY <2>2 DEF ReadEnd, TellNothing
    <3> QED
      BY <3>1, <3>2
  <2>3. CASE EofEvent(e)
    BY <2>3 DEF EofEvent, TellNothing, Default
  <2> QED
    BY <2>1, <2>2, <2>3
<1>4. NoMoreSending(k) => dw[k] = None \/ Gone(k)
  BY <1>2 DEF NoMoreSending, EndInv, Gone
<1>5. slot[k].type = "connecting" \/ slot[k].type = "halfclose_write" \/ e.end = "hup" => Gone(k)
  BY <1>2 DEF EndInv, Gone
<1>6. ASSUME NEW raise, ForceCloseAt(k, raise), slot[k].type # "invalid"
      PROVE  Alive(k)
  BY <1>6 DEF ForceCloseAt, Alive
<1> HIDE DEF k
<1> QED
  BY <1>1, <1>2, <1>3, <1>4, <1>5, <1>6, ForceCloseAtStarts

LEMMA OldStarts ==
  ASSUME SocketInv, ~failed, ~failed', EndInv, Next, Old
  PROVE  UNCHANGED force \/ force' = None \/ \E k \in Slot : Starts(k)
<1>1. TypeOK /\ IdInv
  BY Parts
<1>2. ~CloseSocket("X")
  <2> SUFFICES ASSUME CloseSocket("X") PROVE FALSE
    OBVIOUS
  <2>1. pipe # <<>> /\ Head(pipe).cmd = "X"
    BY DEF CloseSocket, Command
  <2> QED
    BY <1>1, <2>1, HeadPipe DEF EndInv
<1>3. ASSUME ResumeSocket \/ SendSocket \/ TriggerWrite
      PROVE  UNCHANGED force
  BY <1>3 DEF ResumeSocket, SendSocket, TriggerWrite
<1>4. ASSUME NEW e \in ev \ {None}, NEW u, SendBuffer(e, u)
      PROVE  UNCHANGED force
  BY <1>4 DEF SendBuffer
<1>5. ASSUME NEW e \in ev \ {None}, WriteError(e)
      PROVE  UNCHANGED force
  BY <1>5 DEF WriteError
<1>6. ForceClose => force' = None
  BY DEF ForceClose
<1>7. CASE ChangesSlot
  BY <1>2, <1>3, <1>4, <1>5, <1>6, <1>7, CloseStarts, EventStarts DEF ChangesSlot
<1>8. UNCHANGED force \/ ChangesSlot
  BY <1>1, Cases, SendingFrame, AskingFrame, PeerFrame, IdleFrame DEF Old, pollVars
<1> QED
  BY <1>7, <1>8

-----------------------------------------------------------------------------
(* The other end.                                                          *)

\* It is reset or found to be broken, and forgotten with its slot.
PeerTurns ==
  \/ UNCHANGED peer
  \/ \E x \in Id : peer[x] \in {"open", "fin"} /\ peer' = [peer EXCEPT ![x] = "fin"]
  \/ \E x \in Id : peer' = [peer EXCEPT ![x] = "rst"] /\ peer[x] \in {"open", "fin"}
  \/ \E x : peer' = [peer EXCEPT ![x] = "dead"] /\ peer[x] = "rst"
  \/ \E k \in Slot :
       /\ peer' = [peer EXCEPT ![slot[k].id] = Left(@)]
       /\ slot'[k].type = "invalid"

LEMMA OldPeers ==
  ASSUME SocketInv, ~failed, Next, Old
  PROVE  PeerTurns
<1>1. TypeOK /\ ForceInv
  BY Parts
<1>2. UNCHANGED peer => PeerTurns
  BY DEF PeerTurns
<1>3. Peer => PeerTurns
  BY DEF Peer, PeerCloses, PeerResets, PeerSet, PeerTurns
<1>4. ASSUME NEW e \in ev \ {None}, ReadError(e) \/ ErrorEvent(e) \/ WriteError(e)
      PROVE  PeerTurns
  BY <1>4 DEF ReadError, ErrorEvent, WriteError, PeerTurns
<1>5. ASSUME NEW e \in ev \ {None}, InvalidEvent(e) \/ ReadData(e) \/ WriteBlocked(e)
      PROVE  UNCHANGED peer
  BY <1>5 DEF InvalidEvent, ReadData, WriteBlocked, netVars
<1>6. ASSUME NEW e \in ev \ {None}, NEW u, SendBuffer(e, u)
      PROVE  PeerTurns
  <2>1. e.s \in Slot
    BY <1>1, EventSlot
  <2>2. peer' = IF slot'[e.s].type = "invalid"
                THEN [peer EXCEPT ![slot[e.s].id] = Left(peer[slot[e.s].id])] ELSE peer
    BY <1>6 DEF SendBuffer
  <2> QED
    BY <2>1, <2>2 DEF PeerTurns
<1>7. ForceClose => PeerTurns
  <2> SUFFICES ASSUME ForceClose PROVE PeerTurns
    OBVIOUS
  <2>1. force.s \in Slot /\ Puts(force.s, ForceClosed(slot[force.s]))
    BY <1>1, ForceClosePuts
  <2>2. slot'[force.s].type = "invalid"
    <3>1. slot'[force.s] = ForceClosed(slot[force.s]) /\ slot[force.s] \in Socket
      BY <1>1, <2>1, PutsAt DEF TypeOK
    <3> QED
      BY <3>1, FreedFacts
  <2>3. peer' = [peer EXCEPT ![slot[force.s].id] = Left(peer[slot[force.s].id])]
    BY DEF ForceClose
  <2> QED
    BY <2>1, <2>2, <2>3 DEF PeerTurns
<1>8. ASSUME NEW e \in ev \ {None}, ReportConnect(e) \/ ReadEnd(e) \/ EofEvent(e)
      PROVE  UNCHANGED peer
  BY <1>8 DEF ReportConnect, ReadEnd, EofEvent, netVars
<1>9. ASSUME NEW cmd, CloseSocket(cmd)
      PROVE  UNCHANGED peer
  BY <1>9 DEF CloseSocket
<1>10. ResumeSocket \/ SendSocket \/ TriggerWrite => UNCHANGED peer
  BY DEF ResumeSocket, SendSocket, TriggerWrite
<1>11. ChangesSlot => PeerTurns
  BY <1>2, <1>4, <1>6, <1>7, <1>8, <1>9, <1>10 DEF ChangesSlot
<1>12. NoCommand \/ AcceptDropped \/ (\E data \in SUBSET Slot, accept \in BOOLEAN : Wait(data, accept))
         => UNCHANGED peer
  BY DEF NoCommand, AcceptDropped, Wait, netVars
<1>13. Idle => PeerTurns
  BY <1>2, <1>4, <1>5, <1>12 DEF Idle
<1>14. ASSUME NEW c \in Sender, Sending(c)
       PROVE  UNCHANGED peer
  BY <1>1, <1>14, SendingFrame
<1>15. Asking => UNCHANGED peer
  BY AskingFrame DEF netVars
<1> QED
  BY <1>2, <1>3, <1>11, <1>13, <1>14, <1>15, Cases DEF Old

LEMMA PeerTurnsFacts ==
  ASSUME TypeOK, PeerTurns, NEW x \in Id
  PROVE  /\ peer[x] \in {"rst", "dead"} => peer'[x] \in {"rst", "dead"}
         /\ peer[x] # "none" /\ peer'[x] = "none"
              => \E k \in Slot : slot[k].id = x /\ slot'[k].type = "invalid"
<1>1. peer \in [Id -> {"none", "open", "fin", "rst", "dead"}]
  BY DEF TypeOK
<1>2. CASE UNCHANGED peer
  BY <1>2
<1>3. ASSUME NEW y \in Id, NEW v \in {"fin", "rst"}, peer[y] \in {"open", "fin"},
             peer' = [peer EXCEPT ![y] = v]
      PROVE  /\ peer[x] \in {"rst", "dead"} => peer'[x] \in {"rst", "dead"}
             /\ peer'[x] = "none" => peer[x] = "none"
  BY <1>1, <1>3
<1>4. ASSUME NEW y, peer[y] = "rst", peer' = [peer EXCEPT ![y] = "dead"]
      PROVE  /\ peer[x] \in {"rst", "dead"} => peer'[x] \in {"rst", "dead"}
             /\ peer'[x] = "none" => peer[x] = "none"
  BY <1>1, <1>4
<1>5. ASSUME NEW k \in Slot, peer' = [peer EXCEPT ![slot[k].id] = Left(@)],
             slot'[k].type = "invalid"
      PROVE  /\ peer[x] \in {"rst", "dead"} => peer'[x] \in {"rst", "dead"}
             /\ peer[x] # "none" /\ peer'[x] = "none" => slot[k].id = x
  <2>1. peer'[x] = IF x = slot[k].id THEN Left(peer[x]) ELSE peer[x]
    BY <1>1, <1>5
  <2> QED
    BY <2>1 DEF Left
<1> QED
  BY <1>2, <1>3, <1>4, <1>5 DEF PeerTurns

\* A connection that broke stays broken.
LEMMA BrokenStays ==
  ASSUME SocketInv, ~failed, EndInv, Next, NEW x \in Id, "open" \in told[x], Broken(x)
  PROVE  Broken(x)'
<1>1. TypeOK
  BY Parts
<1>2. asked[x] \subseteq asked'[x]
  BY AskedCases
<1>3. CASE Old
  BY <1>1, <1>2, <1>3, OldPeers, PeerTurnsFacts DEF Broken
<1>4. ASSUME NEW y \in Id, Fills(y)
      PROVE  Broken(x)'
  <2>1. "open" \notin told[y]
    BY <1>4, ConnectNews, AcceptNews, OpenFacts DEF Fills, News
  <2>2. peer'[x] = peer[x]
    BY <1>4, <2>1, FillsFacts
  <2> QED
    BY <1>2, <2>2 DEF Broken
<1>5. Old \/ \E y \in Id : Fills(y)
  BY OpenFacts DEF Old, Fills
<1> QED
  BY <1>3, <1>4, <1>5
-----------------------------------------------------------------------------
(* The slots of the sockets that take no packages.                         *)

\* Who may write on the socket of a slot, and where its other end is.
ShutSlots ==
  /\ CloseTypes
  /\ \A k \in Slot :
       /\ slot[k].type = "paccept" => "open" \notin told[slot[k].id]
       /\ Alive(k) => peer[slot[k].id] # "none"

Shuts == \A x \in Id : "open" \in told[x] /\ Shut(x) => Over(x) \/ Broken(x)

LEMMA ShutParts == ShutInv <=> Shuts /\ ShutSlots
BY DEF ShutInv, Shuts, ShutSlots, CloseTypes

LEMMA ShutPartsNext == Shuts' /\ ShutSlots' => ShutInv'
BY DEF ShutInv, Shuts, ShutSlots, CloseTypes

\* What a new socket is like.
LEMMA FillsShut ==
  ASSUME SocketInv, ~failed, NEW x \in Id, Fills(x)
  PROVE  LET k == HASH(x) IN
         /\ slot'[k].closing => slot'[k].type \in {"reserve", "invalid"}
         /\ slot'[k].type \notin {"reserve", "invalid"} => peer'[x] = "open"
         /\ "open" \in told'[x] => slot'[k].type = "connected" /\ force' = None
         /\ "open" \notin told[x] /\ ~Alive(k) /\ UNCHANGED force
<1>1. TypeOK /\ IdInv
  BY Parts
<1> DEFINE k == HASH(x)
<1>2. k \in Slot
  BY HashSlot DEF Id
<1>3. "open" \notin told[x] /\ ~Alive(k)
  BY ConnectNews, AcceptNews, OpenFacts DEF Fills, News, Alive
<1>4. CASE Connect(x)
  <2>1. slot'[k].type = "reserve" /\ UNCHANGED <<told, force>>
    BY <1>4, ConnectFacts DEF ownerVars
  <2> QED
    BY <1>3, <2>1
<1>5. CASE Accept(x)
  <2>1. /\ slot' = [slot EXCEPT ![k] =
                     [type |-> "paccept", id |-> x, closing |-> FALSE,
                      reading |-> FALSE, writing |-> FALSE, high |-> <<>>, low |-> <<>>, wb |-> 0]]
        /\ peer' = [peer EXCEPT ![x] = "open"]
        /\ told' = [told EXCEPT ![x] = @ \cup {"accept"}]
        /\ UNCHANGED force
    BY <1>5 DEF Accept, Tell
  <2>2. ~slot'[k].closing
    BY <1>1, <1>2, <2>1 DEF TypeOK
  <2>3. peer'[x] = "open" /\ "open" \notin told'[x]
    BY <1>1, <1>3, <2>1 DEF TypeOK
  <2> QED
    BY <1>3, <2>1, <2>2, <2>3
<1>6. CASE OpenSocket /\ x = Head(pipe).id
  <2>1. force = None /\ UNCHANGED force
    BY <1>6 DEF OpenSocket, Command
  <2>2. \/ /\ slot' = [slot EXCEPT ![k].type = "invalid"]
           /\ Tell(x, "err")
        \/ NewFd(x, "connecting", TRUE, TRUE) /\ TellNothing
        \/ NewFd(x, "connected", TRUE, FALSE)
    BY <1>6 DEF OpenSocket
  <2>3. CASE slot' = [slot EXCEPT ![k].type = "invalid"] /\ Tell(x, "err")
    <3>1. slot'[k].type = "invalid"
      BY <1>1, <1>2, <2>3 DEF TypeOK, Socket
    <3>2. "open" \notin told'[x]
      BY <1>1, <1>3, <2>3 DEF Tell, TypeOK
    <3> QED
      BY <1>3, <2>1, <3>1, <3>2
  <2>4. ASSUME NEW type, NEW reading, NEW writing, NewFd(x, type, reading, writing),
               type = "connected" \/ (type = "connecting" /\ TellNothing)
        PROVE  /\ ~slot'[k].closing /\ peer'[x] = "open"
               /\ "open" \in told'[x] => slot'[k].type = "connected"
    <3>1. slot'[k] = [type |-> type, id |-> x, closing |-> FALSE, reading |-> reading,
                      writing |-> writing, high |-> <<>>, low |-> <<>>, wb |-> 0]
          /\ peer' = [peer EXCEPT ![x] = "open"]
      BY <1>1, <1>2, <2>4 DEF NewFd, TypeOK
    <3>2. ~slot'[k].closing /\ slot'[k].type = type
      BY <3>1
    <3>3. peer'[x] = "open"
      BY <1>1, <3>1 DEF TypeOK
    <3> QED
      BY <1>3, <2>4, <3>2, <3>3 DEF TellNothing
  <2> QED
    BY <1>3, <2>1, <2>2, <2>3, <2>4
<1> QED
  BY <1>4, <1>5, <1>6 DEF Fills

LEMMA FillsShutSlots ==
  ASSUME SocketInv, ~failed, ShutSlots, NEW x \in Id, Fills(x)
  PROVE  ShutSlots'
<1>1. TypeOK /\ IdInv
  BY Parts
<1> DEFINE j == HASH(x)
<1>2. /\ j \in Slot /\ slot'[j].id = x
      /\ \A k \in Slot \ {j} : slot'[k] = slot[k]
      /\ \A y \in Id \ {x} : told'[y] = told[y]
      /\ \A y \in Id \ {x} : peer'[y] = peer[y]
  BY FillsFacts
<1>3. ASSUME NEW k \in Slot
      PROVE  /\ slot'[k].closing => slot'[k].type \in {"halfclose_read", "invalid", "reserve"}
             /\ slot'[k].type = "paccept" => "open" \notin told'[slot'[k].id]
             /\ slot'[k].type \notin {"invalid", "reserve"} => peer'[slot'[k].id] # "none"
  <2>1. CASE k = j
    BY <1>2, <2>1, FillsShut
  <2>2. CASE k # j
    <3>1. slot'[k] = slot[k]
      BY <1>2, <2>2
    <3>2. slot[k].type # "invalid" => slot[k].id \in Id \ {x}
      BY <1>1, <2>2, SlotOf DEF Id
    <3>3. slot[k].type # "invalid" =>
            told'[slot[k].id] = told[slot[k].id] /\ peer'[slot[k].id] = peer[slot[k].id]
      BY <1>2, <3>2
    <3> QED
      BY <3>1, <3>3 DEF ShutSlots, CloseTypes, Alive
  <2> QED
    BY <2>1, <2>2
<1> QED
  BY <1>3 DEF ShutSlots, CloseTypes, Alive

LEMMA OldShutSlots ==
  ASSUME SocketInv, ~failed, ~failed', EndInv, ShutSlots, Next, Old
  PROVE  ShutSlots'
<1>1. TypeOK /\ IdInv /\ CloseInv /\ FreshInv /\ SizeInv
  BY Parts
<1>2. CloseTypes'
  <2>1. CloseTypes
    BY DEF ShutSlots
  <2> QED
    BY <2>1, OldTurns DEF Turns, Turned, CloseTypes
<1>3. ASSUME NEW k \in Slot, slot'[k].type = "paccept"
      PROVE  "open" \notin told'[slot'[k].id]
  <2>1. \A e \in ev \ {None} : WriteError(e) => e.s # k
    <3> SUFFICES ASSUME NEW e \in ev \ {None}, WriteError(e), e.s = k PROVE FALSE
      OBVIOUS
    <3>1. Merged(k) \in Socket
      BY <1>1, MergedFacts
    <3>2. \/ Puts(k, ForceClosed(Freed(Merged(k))))
          \/ Puts(k, Merged(k)) /\ Merged(k).type = "halfclose_write"
          \/ \E t : Puts(k, t) /\ t.type = "halfclose_write"
      <4>1. \/ Puts(k, ForceClosed(Freed(Merged(k))))
            \/ Puts(k, Merged(k))
            \/ \E t : Puts(k, t) /\ t.type = "halfclose_write"
        BY <1>1, WriteErrorPuts
      <4>2. \/ slot' = [slot EXCEPT ![k] = ForceClosed(Freed(Merged(k)))]
            \/ Merged(k).type = "halfclose_write"
            \/ slot' = [slot EXCEPT ![k] = [Merged(k) EXCEPT !.type = "halfclose_write",
                                                             !.writing = FALSE]]
        BY DEF WriteError
      <4>3. /\ ForceClosed(Freed(Merged(k))) \in Socket
            /\ [Merged(k) EXCEPT !.type = "halfclose_write", !.writing = FALSE] \in Socket
            /\ [Merged(k) EXCEPT !.type = "halfclose_write", !.writing = FALSE].type
                 = "halfclose_write"
        <5> DEFINE s == Merged(k)
        <5>1. "halfclose_write" \in Types /\ FALSE \in BOOLEAN
          BY DEF Types
        <5>2. s \in Socket
          BY <3>1
        <5> HIDE DEF s
        <5>3. /\ [s EXCEPT !.type = "halfclose_write", !.writing = FALSE] \in Socket
              /\ [s EXCEPT !.type = "halfclose_write", !.writing = FALSE].type = "halfclose_write"
          BY <5>1, <5>2, FieldsSet
        <5>4. ForceClosed(Freed(s)) \in Socket
          BY <5>2, FreedFacts
        <5> QED
          BY <5>3, <5>4 DEF s
      <4> QED
        BY <4>1, <4>2, <4>3 DEF Puts
    <3>3. ForceClosed(Freed(Merged(k))).type = "invalid"
      BY <3>1, FreedFacts
    <3> QED
      BY <1>1, <1>3, <3>2, <3>3, PutsAt
  <2>2. slot'[k].id = slot[k].id /\ slot[k].type = "paccept"
    BY <1>3, <2>1, TypesKept DEF KeepsType
  <2>3. slot[k].id \in Id
    BY <1>1, <2>2, AliveId
  <2>4. "open" \notin told[slot[k].id]
    BY <2>2 DEF ShutSlots
  <2> QED
    BY <1>3, <2>2, <2>3, <2>4, OpensConnected
<1>4. ASSUME NEW k \in Slot, slot'[k].type \notin {"invalid", "reserve"}
      PROVE  peer'[slot'[k].id] # "none"
  <2>1. slot'[k].id = slot[k].id /\ Alive(k)
    BY <1>4, OldSlots DEF Alive
  <2>2. slot[k].id \in Id /\ HASH(slot[k].id) = k /\ peer[slot[k].id] # "none"
    BY <1>1, <2>1, AliveId DEF ShutSlots, Alive
  <2>3. ASSUME NEW i \in Slot, slot[i].id = slot[k].id, slot'[i].type = "invalid"
        PROVE  FALSE
    <3>1. slot[i].id # 0
      BY <2>2, <2>3 DEF Id
    <3>2. i = k
      BY <1>1, <2>2, <2>3, <3>1, SlotOf
    <3> QED
      BY <1>4, <2>3, <3>2
  <2> QED
    BY <1>1, <2>1, <2>2, <2>3, OldPeers, PeerTurnsFacts
<1> QED
  BY <1>2, <1>3, <1>4 DEF ShutSlots, Alive

\* Who cannot be written to is broken, or was not opened yet.
LEMMA GoneBroken ==
  ASSUME SocketInv, ~failed, ShutSlots, NEW k \in Slot, Alive(k), Gone(k),
         "open" \in told[slot[k].id]
  PROVE  peer[slot[k].id] \in {"rst", "dead"}
<1>1. TypeOK /\ IdInv /\ CloseInv
  BY Parts
<1>2. slot[k].id \in Id /\ HASH(slot[k].id) = k
  BY <1>1, AliveId DEF Alive
<1>3. peer[slot[k].id] \in {"none", "open", "fin", "rst", "dead"}
  BY <1>1, <1>2 DEF TypeOK
<1> QED
  BY <1>2, <1>3 DEF Gone, Live, ShutSlots

\* The thread sees the last request of the owner.
LEMMA EndingOver ==
  ASSUME SocketInv, ~failed, LastInv, Next, NEW k \in Slot, Ending(k),
         NEW x, x = slot[k].id
  PROVE  Over(x)'
<1>1. TypeOK /\ IdInv /\ pipe \in Seq(Request)
  BY Parts DEF TypeOK
<1>2. pipe # <<>> /\ pipe' = Tail(pipe) /\ UNCHANGED asked /\ Head(pipe).cmd = "K"
  BY DEF Ending, CloseSocket, Command
<1>3. Behind(pipe, EndedIds)
  BY <1>1, LastParts
<1>4. /\ Head(pipe) = pipe[1] /\ 1 \in DOMAIN pipe
      /\ DOMAIN Tail(pipe) = 1..(Len(pipe) - 1)
      /\ \A i \in DOMAIN Tail(pipe) : i + 1 \in DOMAIN pipe /\ Tail(pipe)[i] = pipe[i + 1]
  BY <1>1, <1>2, HeadPipe
<1>5. x = pipe[1].id /\ pipe[1].cmd = "K"
  BY <1>2, <1>4 DEF Ending
<1>6. pipe[1].id \in EndedIds
  BY <1>3, <1>4, <1>5 DEF Behind
<1>7. Ended(x)'
  BY <1>2, <1>5, <1>6 DEF EndedIds, Ended
<1>8. ASSUME NEW i \in DOMAIN pipe', pipe'[i].cmd = "K", pipe'[i].id = x
      PROVE  FALSE
  <2>1. i + 1 \in DOMAIN pipe /\ pipe[i + 1].cmd = "K" /\ pipe[i + 1].id = pipe[1].id
        /\ i \in 1..(Len(pipe) - 1)
    BY <1>2, <1>4, <1>5, <1>8
  <2>2. i + 1 <= 1
    BY <1>3, <1>4, <1>5, <2>1 DEF Behind
  <2> QED
    BY <2>1, <2>2
<1> QED
  BY <1>7, <1>8 DEF Over
-----------------------------------------------------------------------------
(* Why a socket takes no packages any more.                                *)

\* When the owner is told of a connection, none is closed by force.
LEMMA OpensFree ==
  ASSUME SocketInv, ~failed, ~failed', EndInv, Next, Old, NEW x \in Id,
         "open" \notin told[x], "open" \in told'[x]
  PROVE  force' = None
<1>1. TypeOK
  BY Parts
<1>2. ~UNCHANGED told
  BY DEF TypeOK
<1>3. ChangesSlot => force = None \/ force' = None
  BY ForceCases
<1>4. Idle => force = None /\ UNCHANGED force
  BY IdleFrame
<1>5. ChangesSlot \/ Idle
  BY <1>1, <1>2, Cases, SendingFrame, AskingFrame, PeerFrame DEF Old, ownerVars
<1> QED
  BY <1>2, <1>3, <1>4, <1>5, OldStarts DEF Starts

LEMMA FillsShuts ==
  ASSUME SocketInv, ~failed, "shutdown" \notin Asks, NumberInv, EndInv, Shuts, Next,
         NEW y \in Id, Fills(y), NEW x \in Id, "open" \in told'[x], Shut(x)'
  PROVE  Over(x)' \/ Broken(x)'
<1>1. TypeOK /\ IdInv /\ ToldInv
  BY Parts
<1>2. /\ HASH(y) \in Slot /\ slot'[HASH(y)].id = y
      /\ \A k \in Slot \ {HASH(y)} : slot'[k] = slot[k]
      /\ \A z \in Id \ {y} : told'[z] = told[z]
  BY FillsFacts
<1>3. /\ "open" \in told'[y] => slot'[HASH(y)].type = "connected" /\ force' = None
      /\ slot'[HASH(y)].closing => slot'[HASH(y)].type \in {"reserve", "invalid"}
      /\ ~Alive(HASH(y)) /\ UNCHANGED force
  BY FillsShut
<1>4. x # y
  BY <1>2, <1>3 DEF Shut, Invalid
<1>5. "open" \in told[x]
  BY <1>2, <1>4
<1>6. HASH(x) \in Slot
  BY HashSlot DEF Id
<1>7. Shut(x)
  <2>1. CASE HASH(x) # HASH(y)
    <3>1. slot'[HASH(x)] = slot[HASH(x)]
      BY <1>2, <1>6, <2>1
    <3> QED
      BY <1>3, <3>1 DEF Shut, Invalid
  <2>2. CASE HASH(x) = HASH(y)
    <3>1. slot[HASH(x)].type \in {"invalid", "reserve"}
      BY <1>3, <2>2 DEF Alive
    <3>2. slot[HASH(x)].id = x => slot[HASH(x)].type # "reserve"
      BY <1>1, <1>5 DEF ToldInv
    <3> QED
      BY <3>1, <3>2 DEF Shut, Invalid
  <2> QED
    BY <2>1, <2>2
<1>8. Over(x) \/ Broken(x)
  BY <1>5, <1>7 DEF Shuts
<1> QED
  BY <1>5, <1>8, OverStays, BrokenStays

LEMMA OldShuts ==
  ASSUME SocketInv, ~failed, ~failed', "shutdown" \notin Asks, NumberInv, EndInv,
         LastInv, ShutSlots, Shuts, Next, Old,
         NEW x \in Id, "open" \in told'[x], Shut(x)'
  PROVE  Over(x)' \/ Broken(x)'
<1>1. TypeOK /\ IdInv /\ CloseInv /\ ToldInv
  BY Parts
<1> DEFINE k == HASH(x)
<1>2. k \in Slot
  BY HashSlot DEF Id
<1>3. slot'[k].id = slot[k].id
  BY <1>2, OldSlots
<1>4. ShutSlots' /\ CloseTypes
  BY OldShutSlots DEF ShutSlots
<1>5. CASE "open" \notin told[x]
  <2>1. PICK j \in Slot : Alive(j) /\ slot[j].id = x
    <3>1. Tells
      BY OldTells
    <3> QED
      BY <1>1, <1>5, <3>1, TellFacts
  <2>2. j = k
    BY <1>1, <2>1, SlotOf DEF Id
  <2>3. slot'[k].type = "connected"
    BY <1>5, <2>1, <2>2, OpensConnected
  <2>4. ~slot'[k].closing
    BY <1>2, <1>4, <2>3 DEF ShutSlots, CloseTypes
  <2>5. force' = None
    BY <1>5, OpensFree
  <2> QED
    BY <1>3, <2>1, <2>2, <2>3, <2>4, <2>5 DEF Shut, Invalid
<1>6. CASE "open" \in told[x] /\ Shut(x)
  BY <1>6, OverStays, BrokenStays DEF Shuts
<1>7. CASE "open" \in told[x] /\ ~Shut(x)
  <2>1. slot[k].id = x /\ slot[k].type # "invalid" /\ ~slot[k].closing
        /\ ~(force # None /\ force.s = k)
    BY <1>7 DEF Shut, Invalid
  <2>2. slot[k].type # "reserve"
    BY <1>1, <1>7, <2>1 DEF ToldInv
  <2>3. Alive(k)
    BY <2>1, <2>2 DEF Alive
  <2>4. peer[x] \in {"rst", "dead"} => Broken(x)'
    BY <1>7, BrokenStays DEF Broken
  <2>5. Ending(k) => Over(x)'
    BY <1>2, <2>1, EndingOver
  <2>6. Turned(k, slot'[k])
    BY <1>2, <1>4, OldTurns DEF Turns
  <2>7. CASE slot'[k].type = "invalid"
    BY <2>1, <2>4, <2>6, <2>7 DEF Turned
  <2>8. CASE slot'[k].closing
    BY <2>1, <2>5, <2>6, <2>8 DEF Turned
  <2>9. CASE force' # None /\ force'.s = k
    <3>1. Starts(k)
      BY <2>1, <2>9, OldStarts DEF Starts
    <3>2. Ending(k) \/ Gone(k)
      BY <2>1, <3>1 DEF Starts
    <3>3. Gone(k) => peer[x] \in {"rst", "dead"}
      BY <1>2, <1>7, <2>1, <2>3, GoneBroken
    <3> QED
      BY <2>4, <2>5, <3>2, <3>3
  <2> QED
    BY <1>3, <2>1, <2>7, <2>8, <2>9 DEF Shut, Invalid
<1> QED
  BY <1>5, <1>6, <1>7

LEMMA OldOrFills ==
  ASSUME SocketInv, ~failed
  PROVE  Old \/ \E x \in Id : Fills(x)
BY OpenFacts DEF Old, Fills

LEMMA ShutStep ==
  ASSUME SocketInv, ~failed, ~failed', "shutdown" \notin Asks, NumberInv, EndInv,
         LastInv, ShutInv, Next
  PROVE  ShutInv'
<1>1. Shuts /\ ShutSlots
  BY ShutParts
<1>2. Shuts'
  BY <1>1, OldOrFills, FillsShuts, OldShuts DEF Shuts
<1>3. ShutSlots'
  BY <1>1, OldOrFills, FillsShutSlots, OldShutSlots
<1> QED
  BY <1>2, <1>3, ShutPartsNext
-----------------------------------------------------------------------------
(* What waits in a slot.                                                   *)

LEMMA HasRest ==
  ASSUME NEW b \in Buffer \cup {None}, NEW p
  PROVE  Has(Rest(b), p) <=> b # None /\ b.pkg = p
<1>1. CASE b = None
  BY <1>1 DEF Has, Rest
<1>2. CASE b # None
  BY <1>2 DEF Has, Rest, Copies, Buffer, Unit
<1> QED
  BY <1>1, <1>2

LEMMA HasPending ==
  ASSUME NEW b \in Buffer \cup {None}, NEW h \in Seq(Buffer), NEW l \in Seq(Buffer), NEW p
  PROVE  Has(Rest(b) \o (Units(h) \o Units(l)), p)
           <=> (b # None /\ b.pkg = p) \/ Has(Units(h), p) \/ Has(Units(l), p)
<1>1. /\ Rest(b) \in Seq(Package) /\ Units(h) \in Seq(Package)
      /\ Units(l) \in Seq(Package) /\ Units(h) \o Units(l) \in Seq(Package)
  BY QueueType
<1>2. Has(Units(h) \o Units(l), p) <=> Has(Units(h), p) \/ Has(Units(l), p)
  BY <1>1, HasConcat
<1>3. Has(Rest(b) \o (Units(h) \o Units(l)), p)
        <=> Has(Rest(b), p) \/ Has(Units(h) \o Units(l), p)
  BY <1>1, HasConcat
<1> QED
  BY <1>2, <1>3, HasRest

\* Nothing waits in a slot whose lists are empty.
LEMMA NonePending ==
  ASSUME NEW k, dw'[k] = None, BufferEmpty(slot'[k]), NEW p
  PROVE  ~Has(Pending(k)', p)
<1>1. Units(slot'[k].high) = <<>> /\ Units(slot'[k].low) = <<>> /\ Rest(dw'[k]) = <<>>
  BY UnitsEmpty DEF BufferEmpty, Rest
<1>2. <<>> \o <<>> = <<>>
  BY EmptySeq, ConcatNone
<1>3. Pending(k)' = <<>>
  BY <1>1, <1>2 DEF Pending
<1> QED
  BY <1>3 DEF Has

\* What a step is, the end of a connection in two.
LEMMA Sorts ==
  ASSUME SocketInv, ~failed, EndInv, Next
  PROVE  \/ Quiet
         \/ \E k \in Slot : Empties(k) \/ Queues(k)
         \/ \E x \in Id : Fills(x) /\ News(x)
         \/ \E c \in Sender : DirectWrite(c)
         \/ \E e \in ev \ {None} : WriteError(e) \/ \E u : SendBuffer(e, u)
         \/ ForceClose
<1>1. TypeOK
  BY Parts
<1>2. CASE \E c \in Sender : Sending(c)
  BY <1>2, SendingQuiet
<1>3. CASE ChangesSlot
  <2>1. CASE ResumeSocket \/ CloseSocket("K") \/ CloseSocket("X") \/ SendSocket \/ TriggerWrite
    BY <2>1, ResumeQuiet, CloseQuiet, SendQueues, TriggerQuiet
  <2>2. ASSUME NEW e \in ev \ {None}, ReportConnect(e) \/ ReadEnd(e) \/ EofEvent(e)
        PROVE  Quiet \/ \E k \in Slot : Empties(k)
    BY <2>2, ConnectsQuiet, ReadEndQuiet, EofQuiet
  <2> QED
    BY <1>3, <2>1, <2>2 DEF ChangesSlot
<1>4. CASE OpenSocket
  BY <1>4, OpenNews DEF Fills
<1>5. CASE \E x \in Id : Connect(x) \/ Accept(x)
  BY <1>5, ConnectNews, AcceptNews DEF Fills
<1> QED
  BY <1>1, <1>2, <1>3, <1>4, <1>5, Cases, AskingQuiet, PeerQuiet, IdleQuiet

\* What waited is freed with the connection, of which the rest of a direct write is
\* the last.
LEMMA ForceClosePending ==
  ASSUME SocketInv, ~failed, ForceClose, NEW k, k = force.s
  PROVE  /\ k \in Slot /\ KeptBut(k) /\ slot'[k].id = slot[k].id
         /\ \A p : ~Has(Pending(k)', p)
         /\ \A p : Has(Pending(k), p) => dw[k] # None /\ dw[k].pkg = p
<1>1. TypeOK /\ ForceInv
  BY Parts
<1>2. k \in Slot /\ Puts(k, ForceClosed(slot[k])) /\ dw' = [dw EXCEPT ![k] = None]
  BY <1>1, ForceClosePuts
<1>3. slot[k] \in Socket /\ dw[k] \in Buffer \cup {None} /\ dw'[k] = None
      /\ slot[k].high \in Seq(Buffer) /\ slot[k].low \in Seq(Buffer)
  BY <1>1, <1>2 DEF TypeOK, Socket
<1>4. BufferEmpty(slot[k])
  BY <1>1 DEF ForceClose, ForceInv
<1>5. slot'[k] = ForceClosed(slot[k])
  BY <1>1, <1>2, PutsAt
<1>6. BufferEmpty(slot'[k])
  BY <1>3, <1>4, <1>5, FreedFacts DEF BufferEmpty
<1>7. KeptBut(k) /\ slot'[k].id = slot[k].id
  BY ForceBreaks DEF Breaks
<1>8. ASSUME NEW p, Has(Pending(k), p)
      PROVE  dw[k] # None /\ dw[k].pkg = p
  <2>1. Units(slot[k].high) = <<>> /\ Units(slot[k].low) = <<>>
    BY <1>4, UnitsEmpty DEF BufferEmpty
  <2>2. ~Has(<<>>, p)
    BY DEF Has
  <2>3. Has(Rest(dw[k]) \o (Units(slot[k].high) \o Units(slot[k].low)), p)
    BY <1>8 DEF Pending
  <2>4. ~Has(Units(slot[k].high), p) /\ ~Has(Units(slot[k].low), p)
    BY <2>1, <2>2
  <2> QED
    BY <1>3, <2>3, <2>4, HasPending
<1>9. \A p : ~Has(Pending(k)', p)
  BY <1>3, <1>6, NonePending
<1> QED
  BY <1>2, <1>7, <1>8, <1>9

\* When a write has failed, what waits is freed, or stays for the end.
LEMMA WriteErrorPending ==
  ASSUME SocketInv, ~failed, NEW e \in ev \ {None}, WriteError(e), NEW k, k = e.s
  PROVE  /\ k \in Slot /\ KeptBut(k) /\ slot'[k].id = slot[k].id
         /\ peer[slot[k].id] \in {"rst", "dead"}
         /\ \A p : Has(Pending(k)', p) => Has(Pending(k), p)
<1>1. TypeOK /\ FreshInv /\ SizeInv
  BY Parts
<1> DEFINE s == Merged(k)
<1>2. /\ k \in Slot /\ s \in Socket /\ Alive(k) /\ dw' = [dw EXCEPT ![k] = None]
      /\ \/ Puts(k, ForceClosed(Freed(s)))
         \/ Puts(k, s)
         \/ \E t : Puts(k, t) /\ Lists(s, t)
  BY <1>1, EventSlot, WriteErrorPuts
<1>3. KeptBut(k) /\ slot'[k].id = slot[k].id
  BY WriteErrorBreaks DEF Breaks
<1>4. peer[slot[k].id] \in {"rst", "dead"}
  BY <1>2 DEF WriteError, Alive
<1>5. dw'[k] = None
  BY <1>1, <1>2 DEF TypeOK
<1>6. Units(s.high) \o Units(s.low) = Pending(k)
  BY <1>1, <1>2, AllPending
<1> HIDE DEF s
<1>7. CASE slot'[k].high = s.high /\ slot'[k].low = s.low
  <2>1. Pending(k)' = <<>> \o (Units(s.high) \o Units(s.low))
    BY <1>5, <1>7 DEF Pending, Rest
  <2>2. Pending(k) \in Seq(Package)
    BY <1>1, <1>2, PendingType
  <2>3. Pending(k)' = Pending(k)
    BY <1>6, <2>1, <2>2, ConcatNone
  <2> QED
    BY <1>2, <1>3, <1>4, <2>3
<1>8. CASE slot'[k] = ForceClosed(Freed(s))
  <2>1. BufferEmpty(slot'[k])
    BY <1>2, <1>8, FreedFacts DEF BufferEmpty
  <2> QED
    BY <1>2, <1>3, <1>4, <1>5, <2>1, NonePending
<1>9. \/ slot'[k] = ForceClosed(Freed(s))
      \/ slot'[k].high = s.high /\ slot'[k].low = s.low
  BY <1>1, <1>2, PutsAt DEF Lists
<1> QED
  BY <1>7, <1>8, <1>9

\* Where the lists are freed at the start of force_close, the rest of a direct
\* write stays.
LEMMA EmptiesPending ==
  ASSUME TypeOK, NEW k \in Slot, Empties(k), NEW p
  PROVE  Has(Pending(k)', p) => Has(Pending(k), p)
<1>1. /\ dw[k] \in Buffer \cup {None} /\ dw'[k] = dw[k]
      /\ slot[k].high \in Seq(Buffer) /\ slot[k].low \in Seq(Buffer)
      /\ slot'[k].high = <<>> /\ slot'[k].low = <<>>
  BY DEF TypeOK, Socket, Empties, BufferEmpty
<1>2. <<>> \in Seq(Buffer) /\ ~Has(Units(<<>>), p)
  BY UnitsEmpty DEF Has
<1>3. Has(Pending(k)', p) <=> dw[k] # None /\ dw[k].pkg = p
  BY <1>1, <1>2, HasPending DEF Pending
<1> QED
  BY <1>1, <1>3, HasPending DEF Pending

\* A package is put in a list.
LEMMA QueuesPending ==
  ASSUME SocketInv, ~failed, NEW k \in Slot, Queues(k), NEW p
  PROVE  Has(Pending(k)', p) <=> Has(Pending(k), p) \/ p = Head(pipe).pkg
<1> DEFINE s == Pending(k)
           t == Pending(k)'
<1>1. PICK q : q = Head(pipe).pkg
  OBVIOUS
<1>2. s \in Seq(Package) /\ t \in Seq(Package) /\ \E n \in 0..Len(s) : Inserts(s, t, n, q)
  BY <1>1, QueuesInsert
<1> HIDE DEF s, t
<1>3. PICK n \in 0..Len(s) : Inserts(s, t, n, q)
  BY <1>2
<1>4. ASSUME Has(t, p)
      PROVE  Has(s, p) \/ p = q
  <2>1. PICK i \in DOMAIN t : t[i] = p
    BY <1>4 DEF Has
  <2>2. \E j \in Nat : Place(s, t, n, q, i, j)
    BY <1>2, <1>3, Placed
  <2> QED
    BY <2>1, <2>2 DEF Place, Has
<1>5. Len(s) \in Nat /\ Len(t) = Len(s) + 2 /\ DOMAIN s = 1..Len(s) /\ DOMAIN t = 1..Len(t)
  BY <1>2, <1>3 DEF Inserts, Unit
<1>6. t[n + 1] = q /\ n + 1 \in DOMAIN t
  BY <1>3, <1>5 DEF Inserts
<1>7. ASSUME NEW i \in DOMAIN s, s[i] = p
      PROVE  Has(t, p)
  <2>1. CASE i <= n
    BY <1>3, <1>5, <1>7, <2>1 DEF Inserts, Has
  <2>2. CASE n < i
    <3>1. t[i + 2] = s[i] /\ i + 2 \in DOMAIN t
      BY <1>3, <1>5, <2>2 DEF Inserts, Unit
    <3> QED
      BY <1>7, <3>1 DEF Has
  <2> QED
    BY <1>3, <1>5, <2>1, <2>2
<1> QED
  BY <1>1, <1>4, <1>6, <1>7 DEF Has, s, t

\* A direct write takes the whole package, or leaves the rest of it.
Leaves(k, q) ==
  \/ /\ wire' = [wire EXCEPT ![q.to] = @ \o Copies([pkg |-> q, left |-> Unit])]
     /\ UNCHANGED dw
  \/ Has(Pending(k)', q) /\ dw'[k].pkg = q

LEMMA DirectPending ==
  ASSUME SocketInv, ~failed, NEW c \in Sender, DirectWrite(c),
         NEW q, q = call[c].pkg, NEW k, k = HASH(q.to), NEW p
  PROVE  /\ k \in Slot /\ slot' = slot /\ \A j \in Slot \ {k} : dw'[j] = dw[j]
         /\ Has(Pending(k), p) => Has(Pending(k)', p)
         /\ Has(Pending(k)', p) => Has(Pending(k), p) \/ p = q
         /\ Leaves(k, q)
<1>1. TypeOK /\ FreshInv
  BY Parts
<1>2. q \in Package /\ k \in Slot /\ q.to \in Id
  BY <1>1, CallType DEF DirectWrite
<1>3. call[c] # None /\ call[c].pc = "write" /\ UNCHANGED slot
  BY DEF DirectWrite
<1>4. dw[k] = None /\ dw \in [Slot -> Buffer \cup {None}]
      /\ slot[k].high \in Seq(Buffer) /\ slot[k].low \in Seq(Buffer)
  BY <1>1, <1>2, <1>3 DEF FreshInv, TypeOK, Socket
<1>5. PICK n \in Writes(q.to, Unit) :
           /\ wire' = [wire EXCEPT ![q.to] = @ \o Copies([pkg |-> q, left |-> n])]
           /\ IF n = Unit THEN UNCHANGED dw
              ELSE dw' = [dw EXCEPT ![k] = [pkg |-> q, left |-> Unit - n]]
  BY DEF DirectWrite
<1>6. n \in 0..Unit
  BY <1>5 DEF Writes, Unit
<1>7. CASE n = Unit
  BY <1>2, <1>3, <1>5, <1>7 DEF Pending, Leaves
<1>8. CASE n # Unit
  <2> DEFINE b == [pkg |-> q, left |-> Unit - n]
  <2>1. b \in Buffer /\ b.pkg = q
    BY <1>2, <1>6, <1>8 DEF Buffer, Unit
  <2> HIDE DEF b
  <2>2. dw' = [dw EXCEPT ![k] = b]
    BY <1>5, <1>8 DEF b
  <2>3. dw'[k] = b /\ \A j \in Slot \ {k} : dw'[j] = dw[j]
    BY <1>2, <1>4, <2>2
  <2>4. b # None
    BY <2>1, NoneAssumption
  <2>5. \A r : Has(Pending(k)', r) <=> r = q \/ Has(Units(slot[k].high), r) \/ Has(Units(slot[k].low), r)
    BY <1>3, <1>4, <2>1, <2>3, <2>4, HasPending DEF Pending
  <2>6. Has(Pending(k), p) <=> Has(Units(slot[k].high), p) \/ Has(Units(slot[k].low), p)
    BY <1>4, HasPending DEF Pending
  <2> QED
    BY <1>2, <1>3, <2>1, <2>3, <2>5, <2>6 DEF Leaves
<1> QED
  BY <1>7, <1>8
-----------------------------------------------------------------------------
(* The packages in a slot are for its socket.                              *)

\* The front of what waits in a slot is written on a socket.
Sheds(k, x) ==
  /\ Pending(k)' \in Seq(Package)
  /\ \E v \in Seq(Package) :
       Pending(k) = v \o Pending(k)' /\ wire' = [wire EXCEPT ![x] = @ \o v]

\* The thread writes from the front of what waits.
LEMMA SendBufferPending ==
  ASSUME SocketInv, ~failed, NEW e \in ev \ {None}, NEW u, SendBuffer(e, u),
         NEW k, k = e.s, NEW x, x = slot[k].id
  PROVE  /\ k \in Slot /\ KeptBut(k) /\ slot'[k].id = x /\ x \in Id /\ HASH(x) = k
         /\ Sheds(k, x)
<1>1. TypeOK /\ FreshInv /\ SizeInv
  BY Parts
<1>2. /\ k \in Slot /\ KeptBut(k) /\ slot'[k].id = x /\ x \in Id /\ HASH(x) = k
      /\ dw'[k] = None
      /\ \E v \in Seq(Package) :
           /\ Pending(k) = v \o (Units(slot'[k].high) \o Units(slot'[k].low))
           /\ wire' = [wire EXCEPT ![x] = @ \o v]
  BY SendUnits
<1>3. \E t : Puts(k, t)
  BY <1>1, SendBufferPuts
<1>4. slot'[k].high \in Seq(Buffer) /\ slot'[k].low \in Seq(Buffer)
  BY <1>1, <1>2, <1>3, PutsAt DEF Socket
<1>5. Units(slot'[k].high) \o Units(slot'[k].low) \in Seq(Package)
  BY <1>4, QueueType, NoneAssumption
<1>6. Pending(k)' = <<>> \o (Units(slot'[k].high) \o Units(slot'[k].low))
  BY <1>2 DEF Pending, Rest
<1>7. Pending(k)' = Units(slot'[k].high) \o Units(slot'[k].low)
  BY <1>5, <1>6, ConcatNone
<1>8. Sheds(k, x)
  BY <1>2, <1>5, <1>7 DEF Sheds
<1> QED
  BY <1>2, <1>8

LEMMA SendBufferHas ==
  ASSUME SocketInv, ~failed, NEW e \in ev \ {None}, NEW u, SendBuffer(e, u),
         NEW k, k = e.s, NEW p, Has(Pending(k)', p)
  PROVE  Has(Pending(k), p)
<1>1. PICK t : t = Pending(k)'
  OBVIOUS
<1>x. PICK x : x = slot[k].id
  OBVIOUS
<1>2. t \in Seq(Package) /\ \E v \in Seq(Package) : Pending(k) = v \o t
  <2>1. Sheds(k, x)
    BY <1>x, SendBufferPending, Zenon
  <2> QED
    BY <1>1, <2>1 DEF Sheds
<1>3. Has(t, p)
  BY <1>1 DEF Has
<1> QED
  BY <1>2, <1>3, HasConcat

LEMMA QueuesTo ==
  ASSUME SocketInv, ~failed, NEW k \in Slot, Queues(k)
  PROVE  /\ KeptBut(k) /\ slot'[k].id = slot[k].id /\ Head(pipe).pkg.to = slot[k].id
         /\ dw' = dw
<1>1. TypeOK
  BY Parts
<1>2. PICK p \in Package :
        p = Head(pipe).pkg /\ p.to = slot[k].id /\ slot'[k] = Queued(slot[k], p) /\ KeptBut(k)
  BY QueuesHead
<1>3. slot[k] \in Socket
  BY <1>1 DEF TypeOK
<1>4. Queued(slot[k], p).id = slot[k].id
  BY <1>3 DEF Queued, Socket
<1> QED
  BY <1>2, <1>4 DEF Queues

\* A package in a slot was there, or is for the socket that has the slot now.
LEMMA Arrives ==
  ASSUME SocketInv, ~failed, EndInv, WriteInv, Next, NEW k \in Slot,
         NEW p, Has(Pending(k)', p)
  PROVE  \/ Has(Pending(k), p) /\ slot'[k].id = slot[k].id
         \/ p.to = slot'[k].id
<1> DEFINE Goal == \/ Has(Pending(k), p) /\ slot'[k].id = slot[k].id
                   \/ p.to = slot'[k].id
<1>0. TypeOK
  BY Parts
<1>a. ASSUME Kept(k)
      PROVE  Goal
  BY <1>a, KeptPending
<1>1. CASE Quiet
  BY <1>1, <1>a DEF Quiet
<1>2. ASSUME NEW j \in Slot, Empties(j)
      PROVE  Goal
  <2>1. CASE j = k
    BY <1>0, <1>2, <2>1, EmptiesPending DEF Empties
  <2> QED
    BY <1>2, <1>a, <2>1 DEF Empties, KeptBut
<1>3. ASSUME NEW j \in Slot, Queues(j)
      PROVE  Goal
  <2>1. CASE j = k
    <3>1. Has(Pending(k), p) \/ p = Head(pipe).pkg
      BY <1>3, <2>1, QueuesPending
    <3> QED
      BY <1>3, <2>1, <3>1, QueuesTo
  <2>2. CASE j # k
    BY <1>3, <1>a, <2>2, QueuesTo DEF KeptBut
  <2> QED
    BY <2>1, <2>2
<1>4. ASSUME NEW x \in Id, News(x)
      PROVE  Goal
  <2>1. CASE k = HASH(x)
    <3>1. dw'[k] = None /\ BufferEmpty(slot'[k])
      BY <1>4, <2>1 DEF News
    <3> QED
      BY <3>1, NonePending
  <2>2. CASE k # HASH(x)
    BY <1>4, <1>a, <2>2 DEF News, KeptBut
  <2> QED
    BY <2>1, <2>2
<1>5. ASSUME NEW c \in Sender, DirectWrite(c)
      PROVE  Goal
  <2>1. PICK q : q = call[c].pkg
    OBVIOUS
  <2>2. PICK j : j = HASH(q.to)
    OBVIOUS
  <2>3. j \in Slot /\ slot' = slot /\ \A i \in Slot \ {j} : dw'[i] = dw[i]
    BY <1>5, <2>1, <2>2, DirectPending
  <2>6. Has(Pending(j)', p) => Has(Pending(j), p) \/ p = q
    BY <1>5, <2>1, <2>2, DirectPending
  <2>4. CASE j = k
    <3>1. slot[j].id = q.to
      BY <1>5, <2>1, <2>2 DEF WriteInv, DirectWrite
    <3> QED
      BY <2>3, <2>4, <2>6, <3>1
  <2>5. CASE j # k
    BY <1>a, <2>3, <2>5 DEF Kept
  <2> QED
    BY <2>4, <2>5
<1>6. ASSUME NEW e \in ev \ {None}, WriteError(e)
      PROVE  Goal
  <2>1. PICK j : j = e.s
    OBVIOUS
  <2>2. /\ j \in Slot /\ KeptBut(j) /\ slot'[j].id = slot[j].id
        /\ \A r : Has(Pending(j)', r) => Has(Pending(j), r)
    BY <1>6, <2>1, WriteErrorPending
  <2> QED
    BY <1>a, <2>2 DEF KeptBut
<1>7. ASSUME NEW e \in ev \ {None}, NEW u, SendBuffer(e, u)
      PROVE  Goal
  <2>1. PICK j : j = e.s
    OBVIOUS
  <2>2. j \in Slot /\ KeptBut(j) /\ slot'[j].id = slot[j].id
    BY <1>7, <2>1, SendBufferPending
  <2>3. CASE j = k
    BY <1>7, <2>1, <2>2, <2>3, SendBufferHas
  <2>4. CASE j # k
    BY <1>a, <2>2, <2>4 DEF KeptBut
  <2> QED
    BY <2>3, <2>4
<1>8. CASE ForceClose
  <2>1. PICK j : j = force.s
    OBVIOUS
  <2>2. j \in Slot /\ KeptBut(j) /\ \A r : ~Has(Pending(j)', r)
    BY <1>8, <2>1, ForceClosePending
  <2> QED
    BY <1>a, <2>2 DEF KeptBut
<1> QED
  BY <1>1, <1>2, <1>3, <1>4, <1>5, <1>6, <1>7, <1>8, Sorts

InPlace == \A k \in Slot : \A i \in DOMAIN Pending(k) : Pending(k)[i].to = slot[k].id

LEMMA InPlaceStep ==
  ASSUME SocketInv, ~failed, EndInv, WriteInv, Next, InPlace
  PROVE  InPlace'
<1> SUFFICES ASSUME NEW k \in Slot, NEW i \in DOMAIN (Pending(k)')
             PROVE  Pending(k)'[i].to = slot'[k].id
  BY DEF InPlace
<1>1. PICK p : p = Pending(k)'[i]
  OBVIOUS
<1>2. Has(Pending(k)', p)
  BY <1>1 DEF Has
<1>3. \/ Has(Pending(k), p) /\ slot'[k].id = slot[k].id
      \/ p.to = slot'[k].id
  BY <1>2, Arrives
<1> QED
  BY <1>1, <1>3 DEF InPlace, Has
-----------------------------------------------------------------------------
(* What is closed by force.                                                *)

Forced ==
  force # None /\ dw[force.s] # None =>
    dw[force.s].pkg.by # Owner \/ Broken(slot[force.s].id)

LEMMA PlaceParts == PlaceInv <=> InPlace /\ Forced
BY DEF PlaceInv, InPlace, Forced
LEMMA PlacePartsNext == InPlace' /\ Forced' => PlaceInv'
BY DEF PlaceInv, InPlace, Forced

\* dw_buffer is filled by a direct write only.
LEMMA RestStays ==
  ASSUME SocketInv, ~failed, EndInv, Next, NEW k \in Slot, Alive(k),
         force # None, force' # None, dw'[k] # None
  PROVE  /\ slot'[k].id = slot[k].id
         /\ \/ dw'[k] = dw[k]
            \/ \E c \in Sender :
                 /\ DirectWrite(c) /\ HASH(call[c].pkg.to) = k
                 /\ dw'[k].pkg = call[c].pkg
<1> DEFINE Goal == /\ slot'[k].id = slot[k].id
                   /\ \/ dw'[k] = dw[k]
                      \/ \E c \in Sender :
                           /\ DirectWrite(c) /\ HASH(call[c].pkg.to) = k
                           /\ dw'[k].pkg = call[c].pkg
<1>a. ASSUME Kept(k)
      PROVE  Goal
  BY <1>a DEF Kept
<1>1. CASE Quiet
  BY <1>1, <1>a DEF Quiet
<1>2. ASSUME NEW j \in Slot, Empties(j)
      PROVE  Goal
  BY <1>2, <1>a DEF Empties, KeptBut
<1>3. ASSUME NEW j \in Slot, Queues(j)
      PROVE  Goal
  BY <1>3, <1>a, QueuesTo DEF KeptBut
<1>4. ASSUME NEW x \in Id, News(x)
      PROVE  Goal
  BY <1>4, <1>a DEF News, KeptBut
<1>5. ASSUME NEW c \in Sender, DirectWrite(c)
      PROVE  Goal
  <2>1. PICK q : q = call[c].pkg
    OBVIOUS
  <2>2. PICK j : j = HASH(q.to)
    OBVIOUS
  <2>3. j \in Slot /\ slot' = slot /\ \A i \in Slot \ {j} : dw'[i] = dw[i]
    BY <1>5, <2>1, <2>2, DirectPending
  <2>4. Leaves(j, q)
    BY <1>5, <2>1, <2>2, DirectPending
  <2>5. CASE j = k
    BY <1>5, <2>1, <2>2, <2>3, <2>4, <2>5 DEF Leaves
  <2> QED
    BY <2>3, <2>5
<1>6. ASSUME NEW e \in ev \ {None}, WriteError(e) \/ \E u : SendBuffer(e, u)
      PROVE  FALSE
  BY <1>6 DEF WriteError, SendBuffer, Default, Handling
<1>7. CASE ForceClose
  BY <1>7 DEF ForceClose
<1> QED
  BY <1>1, <1>2, <1>3, <1>4, <1>5, <1>6, <1>7, Sorts

\* A broken connection stays so with its slot.
LEMMA BrokenSlot ==
  ASSUME SocketInv, ~failed, EndInv, Next, NEW k \in Slot, Alive(k), UNCHANGED force,
         force # None, NEW x \in Id, x = slot[k].id, Broken(x)
  PROVE  Broken(x)'
<1>1. TypeOK /\ IdInv
  BY Parts
<1>2. asked[x] \subseteq asked'[x]
  BY AskedCases
<1>3. CASE Old
  <2>1. PeerTurns
    BY <1>3, OldPeers
  <2>2. peer[x] \in {"rst", "dead"} => peer'[x] \in {"rst", "dead"}
    BY <1>1, <2>1, PeerTurnsFacts
  <2> QED
    BY <1>2, <2>2 DEF Broken
<1>4. ASSUME NEW y \in Id, Fills(y)
      PROVE  Broken(x)'
  <2>1. ~Alive(HASH(y))
    BY <1>4, FillsShut
  <2>2. y # x
    BY <1>1, <2>1, SlotOf DEF Alive, Id
  <2>3. peer'[x] = peer[x]
    BY <1>4, <2>2, FillsFacts
  <2> QED
    BY <1>2, <2>3 DEF Broken
<1> QED
  BY <1>3, <1>4, OldOrFills

LEMMA RestPending ==
  ASSUME TypeOK, NEW k \in Slot, dw[k] # None
  PROVE  \E p : Has(Pending(k), p)
<1>1. dw[k] \in ToSet(slot[k].high) \cup ToSet(slot[k].low) \cup ({dw[k]} \ {None})
  OBVIOUS
<1>2. PICK p : p = dw[k].pkg
  OBVIOUS
<1>3. Has(Pending(k), p)
  BY <1>1, <1>2, ListsPending
<1> QED
  BY <1>3

\* What waits where nobody can write any more waits for a broken connection: on a
\* socket that nobody was told of nothing was written.
LEMMA GonePending ==
  ASSUME SocketInv, ~failed, StreamInv, ShutSlots, NEW k \in Slot, Alive(k), Gone(k),
         NEW p, Has(Pending(k), p)
  PROVE  slot[k].id \in Id /\ peer[slot[k].id] \in {"rst", "dead"}
<1>1. TypeOK /\ IdInv
  BY Parts
<1>2. PICK x : x = slot[k].id
  OBVIOUS
<1>3. x \in Id /\ HASH(x) = k
  BY <1>1, <1>2, SlotOf DEF Alive, Id
<1>4. CASE "open" \in told[x]
  BY <1>2, <1>3, <1>4, GoneBroken
<1>5. CASE "open" \notin told[x] /\ Live(x)
  <2>1. Stream(x) = <<>> /\ Stream(x) = wire[x] \o Pending(k)
    BY <1>3, <1>5 DEF StreamInv, Stream
  <2>2. wire[x] \in Seq(Package) /\ Pending(k) \in Seq(Package)
    BY <1>1, <1>3, PendingType DEF TypeOK
  <2>3. PICK a \in Seq(Package), b \in Seq(Package) : a \o b = <<>> /\ Has(b, p)
    BY <2>1, <2>2
  <2>4. Has(a \o b, p)
    BY <2>3, HasConcat
  <2> QED
    BY <2>3, <2>4 DEF Has
<1>6. CASE ~Live(x)
  <2>1. peer[x] # "none"
    BY <1>2 DEF ShutSlots
  <2>2. peer[x] \in {"none", "open", "fin", "rst", "dead"}
    BY <1>1, <1>3 DEF TypeOK
  <2> QED
    BY <1>2, <1>3, <1>6, <2>1, <2>2 DEF Live
<1> QED
  BY <1>4, <1>5, <1>6

LEMMA ForcedStep ==
  ASSUME SocketInv, ~failed, ~failed', WireInv, LastInv, ShutInv, Forced, Next
  PROVE  Forced'
<1>0. /\ TypeOK /\ IdInv /\ ForceInv /\ ToldInv
      /\ StreamInv /\ NumberInv /\ WriteInv /\ EndInv
  BY Parts DEF WireInv
<1>s. Shuts /\ ShutSlots
  BY ShutParts
<1> SUFFICES ASSUME force' # None, dw'[force'.s] # None
             PROVE  LET y == slot'[force'.s].id IN
                    \/ dw'[force'.s].pkg.by # Owner
                    \/ peer'[y] \in {"rst", "dead"} \/ "shutdown" \in asked'[y]
  BY DEF Forced, Broken
<1>1. PICK k : k = force'.s
  OBVIOUS
<1>2. CASE Starts(k)
  <2>1. k \in Slot /\ Alive(k) /\ slot'[k] = Freed(slot[k]) /\ dw[k] # None /\ Gone(k)
        /\ UNCHANGED peer
    BY <1>1, <1>2 DEF Starts
  <2>2. peer[slot[k].id] \in {"rst", "dead"}
    <3>1. PICK p : Has(Pending(k), p)
      BY <1>0, <2>1, RestPending
    <3> QED
      BY <1>0, <1>s, <2>1, <3>1, GonePending
  <2>3. slot'[k].id = slot[k].id
    BY <1>0, <2>1, FreedFacts DEF TypeOK, Same
  <2> QED
    BY <1>1, <2>1, <2>2, <2>3 DEF Broken
<1>3. CASE UNCHANGED force
  <2>1. force # None /\ force.s = k /\ k \in Slot /\ Alive(k)
    BY <1>0, <1>1, <1>3 DEF ForceInv, TypeOK
  <2>2. PICK x : x = slot[k].id
    OBVIOUS
  <2>3. x \in Id /\ HASH(x) = k
    BY <1>0, <2>1, <2>2, SlotOf DEF Alive, Id
  <2>4. /\ slot'[k].id = x
        /\ \/ dw'[k] = dw[k]
           \/ \E c \in Sender :
                /\ DirectWrite(c) /\ HASH(call[c].pkg.to) = k
                /\ dw'[k].pkg = call[c].pkg
    BY <1>0, <1>1, <1>3, <2>1, <2>2, RestStays
  <2>5. Broken(x) => Broken(x)'
    BY <1>0, <1>3, <2>1, <2>2, <2>3, BrokenSlot
  <2>6. CASE dw'[k] = dw[k]
    BY <1>1, <2>1, <2>2, <2>4, <2>5, <2>6 DEF Forced, Broken
  <2>7. ASSUME NEW c \in Sender, DirectWrite(c), HASH(call[c].pkg.to) = k,
               dw'[k].pkg = call[c].pkg
        PROVE  dw'[k].pkg.by # Owner \/ Broken(x)
    <3>1. call[c] # None /\ call[c].pc = "write"
      BY <2>7 DEF DirectWrite
    <3>2. call[c].pkg.by = c /\ call[c].pkg.to = x /\ "open" \in told[x]
      BY <1>0, <2>2, <2>7, <3>1 DEF NumberInv, WriteInv, ToldInv
    <3>3. CASE c = Owner
      <4>1. Shut(x)
        BY <2>1, <2>3 DEF Shut
      <4>2. Over(x) \/ Broken(x)
        BY <1>s, <2>3, <3>2, <4>1 DEF Shuts
      <4>3. ~Over(x)
        BY <2>3, <3>1, <3>2, <3>3 DEF LastInv, Over
      <4> QED
        BY <4>2, <4>3
    <3> QED
      BY <2>7, <3>2, <3>3
  <2> QED
    BY <1>1, <2>4, <2>5, <2>6, <2>7 DEF Broken
<1>4. CASE Old
  BY <1>0, <1>1, <1>2, <1>3, <1>4, OldStarts DEF Starts
<1>5. ASSUME NEW y \in Id, Fills(y)
      PROVE  UNCHANGED force
  BY <1>5, FillsShut
<1> QED
  BY <1>3, <1>4, <1>5, OldOrFills

LEMMA PlaceStep ==
  ASSUME SocketInv, ~failed, ~failed', WireInv, LossInv, Next
  PROVE  PlaceInv'
<1>1. EndInv /\ WriteInv /\ LastInv /\ ShutInv /\ InPlace /\ Forced
  BY PlaceParts DEF WireInv, LossInv
<1>2. InPlace'
  BY <1>1, InPlaceStep
<1>3. Forced'
  BY <1>1, ForcedStep
<1> QED
  BY <1>2, <1>3, PlacePartsNext
-----------------------------------------------------------------------------
(* The invariant.                                                          *)

LEMMA LossInit ==
  ASSUME Init
  PROVE  LossInv
<1>1. LastInv
  BY DEF LastInv, Ended, Init
<1>2. ShutInv
  <2>1. \A x \in Id : told[x] = {}
    BY DEF Init
  <2>2. \A k \in Slot : slot[k].type = "invalid" /\ ~slot[k].closing
    BY DEF Init
  <2> QED
    BY <2>1, <2>2 DEF ShutInv, Alive
<1>3. \A k \in Slot : Pending(k) = <<>>
  <2> TAKE k \in Slot
  <2>1. slot[k].high = <<>> /\ slot[k].low = <<>> /\ dw[k] = None
    BY DEF Init
  <2>2. Pending(k) = <<>> \o (<<>> \o <<>>)
    BY <2>1, UnitsEmpty DEF Pending, Rest
  <2>3. <<>> \o <<>> = <<>>
    BY EmptySeq, ConcatNone
  <2> QED
    BY <2>2, <2>3
<1>4. PlaceInv
  BY <1>3 DEF PlaceInv, Init
<1> QED
  BY <1>1, <1>2, <1>4 DEF LossInv

LEMMA LossStutter ==
  ASSUME LossInv, UNCHANGED vars
  PROVE  LossInv'
<1>1. UNCHANGED <<slot, dw, pipe, force, call, asked, told, peer>>
  BY DEF vars, slotVars, pollVars, senderVars, ownerVars, netVars
<1>2. /\ \A x : /\ Ended(x)' = Ended(x) /\ Over(x)' = Over(x)
                /\ Broken(x)' = Broken(x) /\ Shut(x)' = Shut(x)
      /\ \A k : Pending(k)' = Pending(k) /\ Alive(k)' = Alive(k)
  BY <1>1 DEF Ended, Over, Broken, Shut, Invalid, Pending, Rest, Alive
<1>3. LastInv'
  BY <1>1, <1>2 DEF LossInv, LastInv
<1>4. ShutInv'
  BY <1>1, <1>2 DEF LossInv, ShutInv
<1>5. PlaceInv'
  BY <1>1, <1>2 DEF LossInv, PlaceInv, Broken
<1> QED
  BY <1>3, <1>4, <1>5 DEF LossInv

LEMMA LossStep ==
  ASSUME "shutdown" \notin Asks, SocketInv, FreshEvents, WireInv, LossInv, [Next]_vars
  PROVE  LossInv'
<1>1. CASE UNCHANGED vars
  BY <1>1, LossStutter
<1>2. CASE Next
  <2>1. ~failed /\ ~failed'
    BY <1>2, HoldsStep DEF FreshEvents
  <2>2. NumberInv /\ EndInv /\ LastInv /\ ShutInv
    BY DEF WireInv, LossInv
  <2>3. LastInv'
    BY <1>2, <2>1, <2>2, LastStep
  <2>4. ShutInv'
    BY <1>2, <2>1, <2>2, ShutStep
  <2>5. PlaceInv'
    BY <1>2, <2>1, PlaceStep DEF LossInv
  <2> QED
    BY <2>3, <2>4, <2>5 DEF LossInv
<1> QED
  BY <1>1, <1>2

-----------------------------------------------------------------------------
(* What waits in a slot is not lost.                                       *)

\* Where the packages for x are.
InPipe(p) == \E i \in DOMAIN pipe : pipe[i].cmd = "D" /\ pipe[i].pkg = p

InCalls(p) == \E c \in Sender : Waits(c) /\ call[c].pkg = p

LEMMA WherePackages ==
  ASSUME TypeOK, NEW x \in Id, NEW k, k = HASH(x), NEW p \in InLists(x)
  PROVE  Has(Pending(k), p) \/ InPipe(p) \/ InCalls(p)
<1>1. k \in Slot
  BY HashSlot DEF Id
<1>2. CASE \E b \in ToSet(slot[k].high) \cup ToSet(slot[k].low) \cup ({dw[k]} \ {None}) :
             p = b.pkg
  BY <1>1, <1>2, ListsPending
<1>3. CASE \E r \in ToSet(pipe) : r.cmd = "D" /\ p = r.pkg
  BY <1>3 DEF InPipe, ToSet
<1>4. CASE InCalls(p)
  BY <1>4
<1> QED
  BY <1>2, <1>3, <1>4 DEF InLists, InCalls, Waits

LEMMA GoneFrom ==
  ASSUME TypeOK', NEW x \in Id, NEW k, k = HASH(x), NEW p, p \notin InLists(x)'
  PROVE  ~Has(Pending(k)', p) /\ ~InPipe(p)' /\ ~InCalls(p)'
<1>1. k \in Slot
  BY HashSlot DEF Id
<1>2. /\ slot'[k].high \in Seq(Buffer) /\ slot'[k].low \in Seq(Buffer)
      /\ dw'[k] \in Buffer \cup {None}
  BY <1>1 DEF TypeOK, Socket
<1>3. \A b \in ToSet(slot'[k].high) \cup ToSet(slot'[k].low) \cup ({dw'[k]} \ {None}) :
        b.pkg # p
  BY DEF InLists
<1>4. ASSUME NEW list \in Seq(Buffer), \A b \in ToSet(list) : b.pkg # p
      PROVE  ~Has(Units(list), p)
  <2>1. \A j \in DOMAIN list : list[j].pkg # p
    BY <1>4 DEF ToSet
  <2> QED
    BY <2>1, UnitsOf
<1>5. ~Has(Units(slot'[k].high), p) /\ ~Has(Units(slot'[k].low), p)
  BY <1>2, <1>3, <1>4
<1>6. ~Has(Rest(dw'[k]) \o (Units(slot'[k].high) \o Units(slot'[k].low)), p)
  BY <1>2, <1>3, <1>5, HasPending
<1>7. ~Has(Pending(k)', p)
  BY <1>6 DEF Pending, Has, Rest
<1>8. ~InPipe(p)'
  BY DEF InLists, InPipe, ToSet
<1>9. ~InCalls(p)'
  BY DEF InLists, InCalls, Waits
<1> QED
  BY <1>7, <1>8, <1>9

LEMMA PendingAlive ==
  ASSUME SocketInv, ~failed, NEW k \in Slot, NEW p, Has(Pending(k), p)
  PROVE  Alive(k)
<1>1. TypeOK /\ FreshInv
  BY Parts
<1> SUFFICES ASSUME ~Alive(k) PROVE FALSE
  OBVIOUS
<1>2. dw[k] = None /\ slot[k].high = <<>> /\ slot[k].low = <<>>
  BY <1>1 DEF FreshInv, BufferEmpty
<1>3. Pending(k) = <<>> \o (<<>> \o <<>>)
  BY <1>2, UnitsEmpty DEF Pending, Rest
<1>4. <<>> \o <<>> = <<>>
  BY EmptySeq, ConcatNone
<1> QED
  BY <1>3, <1>4 DEF Has

\* The units of a package that leave the slot are written, both of them.
LEMMA SendBufferWhole ==
  ASSUME SocketInv, ~failed, StreamInv, ShutSlots,
         NEW e \in ev \ {None}, NEW u, SendBuffer(e, u), NEW k, k = e.s,
         NEW x, x = slot[k].id, ~Broken(x),
         NEW p, Has(Pending(k), p), ~Has(Pending(k)', p)
  PROVE  Times(wire'[x], p) = Unit
<1>1. TypeOK
  BY Parts
<1>2. PICK t : t = Pending(k)'
  OBVIOUS
<1>3. /\ k \in Slot /\ x \in Id /\ HASH(x) = k /\ t \in Seq(Package)
      /\ \E v \in Seq(Package) : Pending(k) = v \o t /\ wire' = [wire EXCEPT ![x] = @ \o v]
  <2>1. k \in Slot /\ x \in Id /\ HASH(x) = k /\ Sheds(k, x)
    BY SendBufferPending, Zenon
  <2> QED
    BY <1>2, <2>1 DEF Sheds
<1>4. PICK v \in Seq(Package) :
        Pending(k) = v \o t /\ wire' = [wire EXCEPT ![x] = @ \o v]
  BY <1>3
<1>5. PICK w \in Seq(Package) : w = wire[x]
  BY <1>1, <1>3 DEF TypeOK
<1>6. wire'[x] = w \o v
  BY <1>1, <1>3, <1>4, <1>5 DEF TypeOK
<1>7. Live(x)
  <2>1. Alive(k)
    BY <1>3, PendingAlive
  <2>2. peer[x] \notin {"none", "rst", "dead"}
    BY <1>3, <2>1 DEF ShutSlots, Broken
  <2> QED
    BY <1>1, <1>3, <2>2 DEF Live, TypeOK
<1>8. PICK s \in Seq(Package) : s = Stream(x) /\ s = w \o (v \o t)
  <2>1. Stream(x) = w \o (v \o t)
    BY <1>3, <1>4, <1>5, <1>7 DEF Stream
  <2>2. w \o (v \o t) \in Seq(Package)
    BY <1>3
  <2> QED
    BY <2>1, <2>2
<1>9. s = (w \o v) \o t /\ w \o v \in Seq(Package)
  <2>1. (w \o v) \o t = w \o (v \o t)
    <3>1. w \in Seq(Package) /\ v \in Seq(Package) /\ t \in Seq(Package)
      BY <1>3
    <3>2. Grouped(w, v, t)
      BY ONLY <3>1, AllGrouped
    <3> QED
      BY ONLY <3>2, Zenon DEF Grouped
  <2>2. w \o v \in Seq(Package)
    BY ConcatAt
  <2>3. s = w \o (v \o t)
    BY <1>8
  <2> QED
    BY ONLY <2>1, <2>2, <2>3, Zenon
<1>10. Paired(s, x) /\ Len(s) % Unit = 0
  BY <1>3, <1>7, <1>8 DEF StreamInv
<1>11. Has(s, p)
  <2>1. Has(v \o t, p) /\ v \o t \in Seq(Package)
    <3>1. Pending(k) = v \o t
      BY <1>4
    <3>2. Has(v \o t, p)
      BY ONLY Has(Pending(k), p), <3>1 DEF Has
    <3>3. v \o t \in Seq(Package)
      BY <1>3
    <3> QED
      BY ONLY <3>2, <3>3, Zenon
  <2>2. Has(w \o (v \o t), p)
    BY <2>1, HasConcat
  <2> QED
    BY <1>8, <2>2
<1>12. ~Has(t, p)
  BY <1>2 DEF Has
<1>13. Times(s, p) = Unit
  BY <1>10, <1>11, TwoOf
<1>14. Times(s, p) = Times(w \o v, p)
  BY <1>3, <1>9, <1>12, TimesFirst
<1> QED
  BY <1>6, <1>13, <1>14

LEMMA PendingWhole ==
  ASSUME SocketInv, ~failed, WireInv, LossInv, Next, NEW k \in Slot,
         NEW p, Has(Pending(k), p), ~Has(Pending(k)', p), p.by = Owner,
         NEW x, x = p.to, ~Broken(x)
  PROVE  Times(wire'[x], p) = Unit
<1>1. TypeOK /\ StreamInv /\ EndInv
  BY Parts DEF WireInv
<1>2. ShutSlots /\ InPlace /\ Forced
  BY ShutParts, PlaceParts DEF LossInv
<1>3. slot[k].id = x /\ Alive(k)
  BY <1>2, PendingAlive DEF InPlace, Has
<1>4. ~Gone(k)
  BY <1>1, <1>2, <1>3, GonePending DEF Broken
<1>a. ~Kept(k)
  <2>1. ASSUME Kept(k)
        PROVE  Has(Pending(k)', p)
    BY <2>1, KeptPending DEF Has
  <2> QED
    BY <2>1
<1>5. ~Quiet
  BY <1>a DEF Quiet
<1>6. ASSUME NEW j \in Slot, Empties(j)
      PROVE  FALSE
  <2>1. j = k
    BY <1>6, <1>a DEF Empties, KeptBut
  <2> QED
    BY <1>4, <1>6, <2>1 DEF Empties, Gone
<1>7. ASSUME NEW j \in Slot, Queues(j)
      PROVE  FALSE
  <2>1. j = k
    BY <1>7, <1>a, QueuesTo DEF KeptBut
  <2> QED
    BY <1>7, <2>1, QueuesPending
<1>8. ASSUME NEW y \in Id, News(y)
      PROVE  FALSE
  BY <1>8, <1>3, <1>a DEF News, KeptBut
<1>9. ASSUME NEW c \in Sender, DirectWrite(c)
      PROVE  FALSE
  <2>1. PICK q : q = call[c].pkg
    OBVIOUS
  <2>2. PICK j : j = HASH(q.to)
    OBVIOUS
  <2>3. /\ j \in Slot /\ slot' = slot /\ \A i \in Slot \ {j} : dw'[i] = dw[i]
        /\ Has(Pending(j), p) => Has(Pending(j)', p)
    BY <1>9, <2>1, <2>2, DirectPending
  <2>4. j = k
    BY <1>a, <2>3 DEF Kept
  <2> QED
    BY <2>3, <2>4
<1>10. ASSUME NEW e \in ev \ {None}, WriteError(e)
       PROVE  FALSE
  <2>1. PICK j : j = e.s
    OBVIOUS
  <2>2. j \in Slot /\ KeptBut(j) /\ peer[slot[j].id] \in {"rst", "dead"}
    BY <1>10, <2>1, WriteErrorPending
  <2>3. j = k
    BY <1>a, <2>2 DEF KeptBut
  <2> QED
    BY <1>3, <2>2, <2>3 DEF Broken
<1>11. ASSUME NEW e \in ev \ {None}, NEW u, SendBuffer(e, u)
       PROVE  Times(wire'[x], p) = Unit
  <2>1. PICK j : j = e.s
    OBVIOUS
  <2>2. PICK y : y = slot[j].id
    OBVIOUS
  <2>3. j \in Slot /\ KeptBut(j)
    BY <1>11, <2>1, <2>2, SendBufferPending
  <2>4. j = k
    BY <1>a, <2>3 DEF KeptBut
  <2> QED
    BY <1>1, <1>2, <1>3, <1>11, <2>1, <2>4, SendBufferWhole
<1>12. CASE ForceClose
  <2>1. PICK j : j = force.s
    OBVIOUS
  <2>2. /\ j \in Slot /\ KeptBut(j)
        /\ \A r : Has(Pending(j), r) => dw[j] # None /\ dw[j].pkg = r
    BY <1>12, <2>1, ForceClosePending
  <2>3. j = k
    BY <1>a, <2>2 DEF KeptBut
  <2>4. dw[k] # None /\ dw[k].pkg = p
    BY <2>2, <2>3
  <2>5. force # None
    BY <1>12 DEF ForceClose
  <2> QED
    BY <1>2, <1>3, <2>1, <2>3, <2>4, <2>5 DEF Forced
<1> QED
  BY <1>1, <1>5, <1>6, <1>7, <1>8, <1>9, <1>10, <1>11, <1>12, Sorts
-----------------------------------------------------------------------------
(* What is in the pipe, or about to be sent, is not lost.                  *)

LEMMA TakesD ==
  ASSUME SocketInv, ~failed, NumberInv, Next,
         pipe # <<>>, pipe' = Tail(pipe), Head(pipe).cmd = "D"
  PROVE  SendSocket
<1>1. TypeOK /\ ToldInv /\ pipe \in Seq(Request)
  BY Parts DEF TypeOK
<1>2. pipe' # pipe /\ \A r \in Request : pipe' # Append(pipe, r)
  <2>1. \A r \in Request : Append(pipe, r) # Tail(pipe)
    BY <1>1
  <2> QED
    BY <1>1, <2>1, TailOnce
<1>3. ASSUME NEW c \in Sender, Sending(c)
      PROVE  FALSE
  <2>1. Numbers(c)
    BY <1>1, <1>3, StepNumbers
  <2> QED
    BY <1>2, <2>1 DEF Numbers
<1>4. ~Asking
  <2>1. ASSUME NEW x \in Id
        PROVE  /\ [cmd |-> "R", id |-> x] \in Request /\ [cmd |-> "K", id |-> x] \in Request
               /\ [cmd |-> "X", id |-> x] \in Request
    BY DEF Request
  <2> QED
    BY <1>2, <2>1 DEF Asking, Start, Close
<1>5. ASSUME NEW x \in Id
      PROVE  ~Connect(x)
  <2>1. [cmd |-> "O", id |-> x] \in Request
    BY DEF Request
  <2> QED
    BY <1>2, <2>1 DEF Connect
<1>6. ASSUME NEW x \in Id
      PROVE  ~Accept(x)
  BY <1>2 DEF Accept, Handling
<1>7. ~Peer
  BY <1>2 DEF Peer, PeerCloses, PeerResets, PeerSet, pollVars
<1>8. ~Idle
  BY <1>2 DEF Idle, NoCommand, AcceptDropped, Wait, InvalidEvent, ReadData, ReadError,
       ErrorEvent, WriteBlocked, Default, Handling
<1>9. ~OpenSocket
  BY DEF OpenSocket, Command
<1>10. ChangesSlot => SendSocket
  <2>1. ~ResumeSocket /\ ~CloseSocket("K") /\ ~CloseSocket("X") /\ ~TriggerWrite
    BY DEF ResumeSocket, CloseSocket, TriggerWrite, Command
  <2>2. ~ForceClose
    BY <1>2 DEF ForceClose
  <2>3. ASSUME NEW e \in ev \ {None}
        PROVE  ~Handling(e)
    BY <1>2 DEF Handling
  <2>4. ASSUME NEW e \in ev \ {None}
        PROVE  /\ ~ReportConnect(e) /\ ~ReadEnd(e) /\ ~EofEvent(e) /\ ~WriteError(e)
               /\ \A u : ~SendBuffer(e, u)
    <3>1. ~Default(e)
      BY <2>3 DEF Default
    <3>2. ~ReportConnect(e)
      BY <2>3 DEF ReportConnect
    <3>3. ~ReadEnd(e) /\ ~EofEvent(e) /\ ~WriteError(e)
      BY <3>1 DEF ReadEnd, EofEvent, WriteError
    <3>4. ASSUME NEW u
          PROVE  ~SendBuffer(e, u)
      BY <3>1 DEF SendBuffer
    <3> QED
      BY <3>2, <3>3, <3>4
  <2> QED
    BY <2>1, <2>2, <2>4, Zenon DEF ChangesSlot
<1> QED
  BY <1>3, <1>4, <1>5, <1>6, <1>7, <1>8, <1>9, <1>10, Cases

\* A package leaves the pipe for its socket.
LEMMA PipeHead ==
  ASSUME SocketInv, ~failed, NumberInv, Next, NEW p, InPipe(p), ~InPipe(p)'
  PROVE  SendSocket /\ pipe # <<>> /\ Head(pipe).cmd = "D" /\ Head(pipe).pkg = p
<1>1. TypeOK /\ IdInv /\ pipe \in Seq(Request)
  BY Parts DEF TypeOK
<1>2. PICK i \in DOMAIN pipe : pipe[i].cmd = "D" /\ pipe[i].pkg = p
  BY DEF InPipe
<1>3. \A j \in DOMAIN pipe' : ~(pipe'[j].cmd = "D" /\ pipe'[j].pkg = p)
  BY DEF InPipe
<1>4. pipe' # pipe
  BY <1>2, <1>3
<1>5. ASSUME NEW r \in Request
      PROVE  pipe' # Append(pipe, r)
  <2>1. i \in DOMAIN Append(pipe, r) /\ Append(pipe, r)[i] = pipe[i]
    BY <1>1, <1>2
  <2> QED
    BY <1>2, <1>3, <2>1
<1>6. pipe # <<>> /\ pipe' = Tail(pipe)
  BY <1>4, <1>5, PipeCases
<1>7. i = 1
  <2> SUFFICES ASSUME i # 1 PROVE FALSE
    OBVIOUS
  <2>1. i - 1 \in DOMAIN Tail(pipe) /\ Tail(pipe)[i - 1] = pipe[i]
    BY <1>1, <1>2, <1>6
  <2> QED
    BY <1>2, <1>3, <1>6, <2>1
<1>8. Head(pipe) = pipe[1]
  BY <1>1, <1>6
<1> QED
  BY <1>2, <1>6, <1>7, <1>8, TakesD

\* The socket takes it, since it is open and its owner has not ended it.
LEMMA PipeWhole ==
  ASSUME SocketInv, ~failed, WireInv, LossInv, Next,
         NEW p, InPipe(p), ~InPipe(p)', p.by = Owner,
         NEW x, x = p.to, NEW k, k = HASH(x), ~Broken(x)
  PROVE  Has(Pending(k)', p)
<1>1. TypeOK /\ IdInv /\ ToldInv /\ EndInv /\ NumberInv
  BY Parts DEF WireInv
<1>2. Shuts /\ ShutSlots /\ LastInv
  BY ShutParts DEF LossInv
<1>3. SendSocket /\ pipe # <<>> /\ Head(pipe).cmd = "D" /\ Head(pipe).pkg = p
  BY <1>1, PipeHead
<1>4. 1 \in DOMAIN pipe /\ Head(pipe) = pipe[1] /\ Head(pipe).id \in Id
  BY <1>1, <1>3, HeadPipe
<1>5. x = pipe[1].id /\ x \in Id /\ "open" \in told[x] /\ k \in Slot
  BY <1>1, <1>3, <1>4, HashSlot DEF ToldInv, Id
<1>6. ~Over(x)
  BY <1>2, <1>3, <1>4, <1>5 DEF LastInv
<1>7. ~Shut(x)
  BY <1>2, <1>5, <1>6 DEF Shuts
<1>8. slot[k].id = x /\ slot[k].type # "invalid" /\ ~slot[k].closing
  BY <1>7 DEF Shut, Invalid
<1>9. Alive(k)
  BY <1>1, <1>5, <1>8 DEF ToldInv, Alive
<1>10. slot[k].type # "paccept"
  BY <1>2, <1>5, <1>8 DEF ShutSlots
<1>11. slot[k].type # "halfclose_write"
  <2>1. peer[x] \in {"open", "fin"}
    BY <1>1, <1>2, <1>5, <1>8, <1>9 DEF ShutSlots, Broken, TypeOK
  <2> QED
    BY <1>1, <1>5, <1>8, <2>1 DEF EndInv, Live
<1>12. ~Refuses(slot[k], x)
  BY <1>8, <1>10, <1>11 DEF Refuses
<1>13. Queues(k)
  BY <1>3, <1>4, <1>5, <1>8, <1>9, <1>12 DEF Queues, SendSocket
<1> QED
  BY <1>3, <1>5, <1>13, QueuesPending

LEMMA StepCalls ==
  ASSUME SocketInv, ~failed, NEW c \in Sender, Sending(c), Waits(c),
         NEW p, call[c].pkg = p
  PROVE  DirectWrite(c) \/ InCalls(p)' \/ InPipe(p)'
<1>1. TypeOK /\ call[c] # None /\ call[c].pc # "trigger"
  BY Parts DEF Waits
<1>2. call[c] \in [pc : {"try", "lock", "write", "trigger", "queue", "request"}, pkg : Package]
  BY <1>1 DEF TypeOK
<1>3. ASSUME NEW pc \in {"try", "lock", "write", "queue", "request"}, Goes(c, pc)
      PROVE  InCalls(p)'
  <2>1. call'[c] = [call[c] EXCEPT !.pc = pc]
    BY <1>1, <1>3 DEF Goes, TypeOK
  <2>2. call'[c] # None /\ call'[c].pc = pc /\ call'[c].pkg = p
    BY <1>2, <1>3, <2>1, NoneAssumption
  <2> QED
    BY <1>3, <2>2 DEF InCalls, Waits
<1>4. CASE SendRequest(c)
  <2>1. PICK r : r = [cmd |-> "D", id |-> p.to, pkg |-> p]
    OBVIOUS
  <2>2. pipe' = Append(pipe, r) /\ r.cmd = "D" /\ r.pkg = p
    BY <1>4, <2>1 DEF SendRequest
  <2>3. Len(pipe) + 1 \in DOMAIN pipe' /\ pipe'[Len(pipe) + 1] = r
    BY <1>1, <2>2 DEF TypeOK
  <2> QED
    BY <2>2, <2>3 DEF InPipe
<1>5. CASE TryLock(c) \/ DoubleCheck(c) \/ IncSending(c)
  <2>1. Goes(c, "lock") \/ Goes(c, "write") \/ Goes(c, "queue") \/ Goes(c, "request")
    BY <1>5 DEF TryLock, DoubleCheck, IncSending
  <2> QED
    BY <1>3, <2>1
<1>6. ~Trigger(c)
  BY <1>1 DEF Trigger
<1>7. ~(\E x \in Id, kind \in Sends : Send(c, x, kind))
  BY <1>1 DEF Send
<1> QED
  BY <1>4, <1>5, <1>6, <1>7 DEF Sending, SenderStep

\* A direct write takes it whole, or leaves the rest of it to the thread.
LEMMA DirectWhole ==
  ASSUME SocketInv, ~failed, WireInv, LossInv, TypeOK', StreamInv', NEW c \in Sender, DirectWrite(c),
         NEW p, p = call[c].pkg, NEW x, x = p.to, NEW k, k = HASH(x),
         ~Has(Pending(k)', p), ~Broken(x)
  PROVE  Times(wire'[x], p) = Unit
<1>1. TypeOK /\ WriteInv /\ FreshInv /\ ShutSlots
  BY Parts, ShutParts DEF WireInv, LossInv
<1>2. call[c] # None /\ call[c].pc = "write" /\ UNCHANGED <<slot, peer>>
  BY DEF DirectWrite
<1>3. p \in Package /\ x \in Id /\ k \in Slot
  <2>1. p \in Package
    BY <1>1, <1>2, CallType
  <2> QED
    BY <2>1, HashSlot DEF Package, Id
<1>4. PICK t : t = Pending(k)'
  OBVIOUS
<1>5. PICK w \in Seq(Package) : w = wire[x]
  BY <1>1, <1>3 DEF TypeOK
<1>6. PICK b \in Buffer : b = [pkg |-> p, left |-> Unit]
  <2>1. [pkg |-> p, left |-> Unit] \in Buffer
    BY <1>3 DEF Buffer, Unit
  <2> QED
    BY <2>1
<1>7. wire'[x] = w \o Copies(b)
  <2>1. Leaves(k, p)
    BY DirectPending
  <2>2. wire' = [wire EXCEPT ![x] = @ \o Copies(b)]
    BY <1>6, <2>1 DEF Leaves
  <2> QED
    BY <1>1, <1>3, <1>5, <2>2 DEF TypeOK
<1>8. PICK v \in Seq(Package) : v = wire'[x] /\ v = w \o Copies(b)
  <2>1. w \o Copies(b) \in Seq(Package)
    BY CopiesType
  <2> QED
    BY <1>7, <2>1
<1>9. Has(v, p)
  <2>1. Rest(b) = Copies(b) /\ Has(Rest(b), p)
    BY <1>6, HasRest, NoneAssumption DEF Rest
  <2>2. Has(Copies(b), p) /\ Copies(b) \in Seq(Package)
    BY <2>1, CopiesType DEF Has
  <2>3. Has(w \o Copies(b), p)
    BY <2>2, HasConcat
  <2> QED
    BY <1>8, <2>3
<1>10. t \in Seq(Package)
  <2>1. /\ slot'[k].high \in Seq(Buffer) /\ slot'[k].low \in Seq(Buffer)
        /\ dw'[k] \in Buffer \cup {None}
    BY <1>3 DEF TypeOK, Socket
  <2>2. Rest(dw'[k]) \o (Units(slot'[k].high) \o Units(slot'[k].low)) \in Seq(Package)
    BY <2>1, QueueType
  <2> QED
    BY <1>4, <2>2 DEF Pending, Rest
<1>11. slot'[k].id = x /\ peer'[x] \in {"open", "fin"}
  <2>1. slot[k].id = x /\ Alive(k)
    BY <1>1, <1>2 DEF WriteInv, FreshInv
  <2> QED
    BY <1>1, <1>2, <1>3, <2>1 DEF ShutSlots, Broken, TypeOK
<1>12. PICK s \in Seq(Package) :
         s = v \o t /\ Paired(s, x) /\ Len(s) % Unit = 0
  <2>1. Stream(x)' = v \o t
    BY <1>4, <1>8, <1>11 DEF Stream, Live
  <2>2. Paired(Stream(x)', x) /\ Len(Stream(x)') % Unit = 0
    BY <1>3, <1>11 DEF StreamInv, Live
  <2>3. v \o t \in Seq(Package)
    BY <1>8, <1>10
  <2>4. Paired(v \o t, x) /\ Len(v \o t) % Unit = 0
    BY <2>1, <2>2 DEF Paired
  <2> QED
    BY <2>3, <2>4
<1>13. Has(s, p) /\ ~Has(t, p)
  <2>1. Has(v \o t, p)
    BY <1>8, <1>9, <1>10, HasConcat
  <2> QED
    BY <1>4, <1>12, <2>1 DEF Has
<1>14. Times(s, p) = Unit
  BY <1>12, <1>13, TwoOf
<1>15. Times(s, p) = Times(v, p)
  <2>1. Times(v \o t, p) = Times(v, p)
    BY <1>10, <1>13, TimesFirst
  <2>2. s = v \o t
    BY <1>12
  <2> QED
    BY ONLY <2>1, <2>2, Zenon
<1> QED
  BY <1>8, <1>14, <1>15

-----------------------------------------------------------------------------
(* Nothing is lost.                                                        *)

LEMMA LossKept ==
  ASSUME SocketInv, FreshEvents, WireInv, LossInv, TypeOK', StreamInv', Next,
         NEW x \in Id, NEW p \in InLists(x), p.by = Owner, p.to = x, ~Broken(x),
         p \notin InLists(x)'
  PROVE  Times(wire'[x], p) = Unit
<1>1. ~failed /\ TypeOK /\ ToldInv /\ NumberInv
  BY Parts DEF FreshEvents, WireInv
<1>2. PICK k : k = HASH(x)
  OBVIOUS
<1>3. k \in Slot
  BY <1>2, HashSlot DEF Id
<1>4. ~Has(Pending(k)', p) /\ ~InPipe(p)' /\ ~InCalls(p)'
  BY <1>2, GoneFrom
<1>5. Has(Pending(k), p) \/ InPipe(p) \/ InCalls(p)
  BY <1>1, <1>2, WherePackages
<1>6. CASE Has(Pending(k), p)
  BY <1>1, <1>3, <1>4, <1>6, PendingWhole
<1>7. CASE InPipe(p)
  BY <1>1, <1>2, <1>4, <1>7, PipeWhole
<1>8. CASE InCalls(p)
  <2>1. PICK c \in Sender : Waits(c) /\ call[c].pkg = p
    BY <1>8 DEF InCalls
  <2>2. call'[c] # call[c]
    BY <1>4, <2>1 DEF InCalls, Waits
  <2>3. ~Aside
    BY <2>2 DEF Aside
  <2>4. PICK d \in Sender : Sending(d)
    BY <1>1, <2>3, CallCases
  <2>5. d = c
    BY <1>1, <2>2, <2>4, StepNumbers DEF Numbers
  <2>6. DirectWrite(c)
    BY <1>1, <1>4, <2>1, <2>4, <2>5, StepCalls
  <2> QED
    BY <1>1, <1>2, <1>4, <2>1, <2>6, DirectWhole
<1> QED
  BY <1>5, <1>6, <1>7, <1>8

\* socket.close loses nothing: what the owner sent before is written whole
\* before the socket is closed, unless the connection breaks
\* (socket_server.c:1100, 1141-1154 and 895).
THEOREM NeverLost ==
  ~StaleEvents /\ "shutdown" \notin Asks => (Spec => NothingLost)
<1> SUFFICES ASSUME ~StaleEvents, "shutdown" \notin Asks PROVE Spec => NothingLost
  OBVIOUS
<1> DEFINE Inv == SocketInv /\ FreshEvents /\ WireInv
           Keeps == \A x \in Id : \A p \in InLists(x) :
                      p.by = Owner /\ p.to = x /\ ~Broken(x) /\ p \notin InLists(x)'
                        => Times(wire'[x], p) = Unit
<1>1. Init => LossInv
  BY LossInit
<1>2. Inv /\ LossInv /\ [Next]_vars => LossInv'
  BY LossStep
<1>3. Inv /\ Inv' /\ LossInv /\ [Next]_vars => [Keeps]_vars
  <2> SUFFICES ASSUME SocketInv, FreshEvents, WireInv, SocketInv', FreshEvents', WireInv',
                      LossInv, Next, NEW x \in Id, NEW p \in InLists(x),
                      p.by = Owner, p.to = x, ~Broken(x), p \notin InLists(x)'
               PROVE  Times(wire'[x], p) = Unit
    OBVIOUS
  <2>1. TypeOK' /\ StreamInv'
    BY DEF SocketInv, FreshEvents, WireInv
  <2> QED
    BY <2>1, LossKept
<1>4. Spec => []Inv
  BY WireInvariant
<1> HIDE DEF Inv, Keeps
<1>5. Spec => [][Keeps]_vars
  BY <1>1, <1>2, <1>3, <1>4, PTL DEF Spec
<1> QED
  BY <1>5 DEF NothingLost, Keeps
=============================================================================
