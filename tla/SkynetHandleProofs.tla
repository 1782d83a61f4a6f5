--------------------------- MODULE SkynetHandleProofs ---------------------------
(***************************************************************************)
(* Theorems about the handle storage, for any size of the table and of     *)
(* handles, and any services and names.                                    *)
(***************************************************************************)
EXTENDS SkynetHandleProps, FiniteSetTheorems, SequenceTheorems,
        WellFoundedInduction, TLAPS

\* A set of numbers has a least one: induction, for what fails somewhere.
LEMMA Least ==
  ASSUME NEW T, T \subseteq Nat, T # {}
  PROVE  \E x \in T : \A y \in T : x <= y
<1> DEFINE R == {ss \in Nat \X Nat : ss[1] < ss[2]}
<1>1. IsWellFoundedOn(R, Nat)
  BY NatLessThanWellFounded DEF OpToRel
<1>2. \A x, y \in Nat : y < x => <<y, x>> \in R
  OBVIOUS
<1> HIDE DEF R
<1>3. PICK x \in T : \A y \in T : ~ (<<y, x>> \in R)
  BY <1>1, WFMin
<1>4. \A y \in T : ~ (y < x)
  BY <1>2, <1>3
<1> QED
  BY <1>4

-----------------------------------------------------------------------------
(* Powers of two and remainders.                                           *)

LEMMA PowerType == \A k \in 0..25 : Pow2(k) \in Nat \ {0}
<1> DEFINE T == {k \in 0..25 : Pow2(k) \notin Nat \ {0}}
<1> SUFFICES ASSUME T # {} PROVE FALSE
  OBVIOUS
<1>1. T \subseteq Nat
  OBVIOUS
<1>2. PICK t \in T : \A k \in T : t <= k
  <2> HIDE DEF T
  <2> QED
    BY <1>1, Least
<1>3. t # 0
  BY PowersOfTwo
<1>4. t - 1 \in 0..24 /\ t - 1 \notin T
  BY <1>2, <1>3
<1>5. Pow2((t - 1) + 1) = 2 * Pow2(t - 1) /\ Pow2(t - 1) \in Nat \ {0}
  BY <1>4, PowersOfTwo
<1> QED
  BY <1>2, <1>5

\* A smaller power divides a greater one.
LEMMA PowerDivides ==
  ASSUME NEW a \in 0..25, NEW b \in 0..25, a <= b
  PROVE  \E q \in Nat \ {0} : Pow2(b) = Pow2(a) * q
<1> DEFINE T == {d \in 0..(25 - a) : ~ \E q \in Nat \ {0} : Pow2(a + d) = Pow2(a) * q}
<1>1. T = {}
  <2> SUFFICES ASSUME T # {} PROVE FALSE
    OBVIOUS
  <2>1. T \subseteq Nat
    OBVIOUS
  <2>2. PICK t \in T : \A k \in T : t <= k
    <3> HIDE DEF T
    <3> QED
      BY <2>1, Least
  <2>3. t # 0
    <3>1. Pow2(a + 0) = Pow2(a) * 1
      BY PowerType
    <3> QED
      BY <3>1
  <2>4. t - 1 \in 0..(25 - a) /\ t - 1 \notin T
    BY <2>2, <2>3
  <2>6. PICK q \in Nat \ {0} : Pow2(a + (t - 1)) = Pow2(a) * q
    BY <2>4
  <2>7. Pow2((a + (t - 1)) + 1) = 2 * Pow2(a + (t - 1))
    BY <2>3, PowersOfTwo
  <2>8. (a + (t - 1)) + 1 = a + t
    BY <2>1
  <2>5. Pow2(a + t) = Pow2(a) * (2 * q)
    <3>1. Pow2(a) \in Nat
      BY PowerType
    <3> QED
      BY <2>6, <2>7, <2>8, <3>1
  <2> QED
    BY <2>5
<1>2. b - a \in 0..(25 - a) /\ a + (b - a) = b
  OBVIOUS
<1> QED
  BY <1>1, <1>2

LEMMA ModIs ==
  ASSUME NEW x \in Nat, NEW s \in Nat, NEW q \in Nat, NEW r \in 0..(s - 1),
         x = s * q + r
  PROVE  x % s = r
OBVIOUS

LEMMA ModHas ==
  ASSUME NEW x \in Nat, NEW s \in Nat, s > 0
  PROVE  x % s \in 0..(s - 1) /\ \E q \in Nat : x = s * q + (x % s)
OBVIOUS

\* Doubling the table only splits its slots.
LEMMA ModDouble ==
  ASSUME NEW x \in Nat, NEW s \in Nat, s > 0
  PROVE  (x % (2 * s)) % s = x % s
<1>0. 2 * s \in Nat /\ 2 * s > 0
  OBVIOUS
<1>1. PICK q \in Nat : x = (2 * s) * q + (x % (2 * s))
  BY <1>0, ModHas
<1> DEFINE y == x % (2 * s)
<1>2. y \in Nat
  BY <1>0, ModHas
<1>3. PICK p \in Nat : y = s * p + (y % s)
  BY <1>2, ModHas
<1>4. y % s \in 0..(s - 1)
  BY <1>2, ModHas
<1> HIDE DEF y
<1>5. x = s * (2 * q + p) + (y % s)
  BY <1>1, <1>2, <1>3, <1>4 DEF y
<1>6. 2 * q + p \in Nat
  OBVIOUS
<1>7. x % s = y % s
  BY <1>4, <1>5, <1>6, ModIs
<1> QED
  BY <1>7 DEF y
\* The sizes of tables are powers of two that divide the number of handles.
LEMMA SizeProperties ==
  ASSUME NEW sz \in Sizes
  PROVE  /\ sz \in Nat /\ sz >= 2
         /\ \E q \in Nat \ {0} : HandleMask + 1 = sz * q
         /\ sz # HandleMask + 1
              => 2 * sz \in Sizes /\ 2 * sz - 1 <= HandleMask
<1>1. PICK a \in 1..24 : sz = Pow2(a)
  BY DEF Sizes
<1>2. PICK b \in 1..24 : HandleMask + 1 = Pow2(b)
  BY SkynetHandleAssumption
<1>3. sz \in Nat /\ sz <= HandleMask + 1 /\ HandleMask \in Nat
  BY SkynetHandleAssumption DEF Sizes
<1>4. sz >= 2
  <2>1. Pow2((a - 1) + 1) = 2 * Pow2(a - 1) /\ Pow2(a - 1) \in Nat \ {0}
    BY PowersOfTwo, PowerType
  <2>2. (a - 1) + 1 = a
    OBVIOUS
  <2> QED
    BY <1>1, <2>1, <2>2
<1>5. CASE a >= b
  <2>1. PICK q \in Nat \ {0} : sz = (HandleMask + 1) * q
    BY <1>1, <1>2, <1>5, PowerDivides
  <2>2. sz = HandleMask + 1
    BY <1>3, <2>1
  <2>3. HandleMask + 1 = sz * 1
    BY <1>3, <2>2
  <2> QED
    BY <1>3, <1>4, <2>2, <2>3
<1>6. CASE a < b
  <2>1. \E q \in Nat \ {0} : HandleMask + 1 = sz * q
    BY <1>1, <1>2, <1>6, PowerDivides
  <2>2. PICK q \in Nat \ {0} : Pow2(b) = Pow2(a + 1) * q
    BY <1>6, PowerDivides
  <2>3. Pow2(a + 1) = 2 * sz
    BY <1>1, PowersOfTwo
  <2>4. HandleMask + 1 = (2 * sz) * q
    BY <1>2, <2>2, <2>3
  <2>6. 2 * sz <= HandleMask + 1
    BY <1>3, <2>4
  <2>7. 2 * sz \in Sizes
    BY <1>3, <1>4, <1>6, <2>3, <2>6 DEF Sizes
  <2> QED
    BY <1>3, <1>4, <2>1, <2>6, <2>7
<1> QED
  BY <1>5, <1>6

-----------------------------------------------------------------------------
(* The search for a handle.                                                *)

LEMMA MaskType == HandleMask \in Nat /\ HandleMask >= 1
<1>1. HandleMask + 1 \in Sizes
  <2>1. PICK k \in 1..24 : HandleMask + 1 = Pow2(k)
    BY SkynetHandleAssumption
  <2>2. HandleMask + 1 \in 1..(HandleMask + 1)
    BY SkynetHandleAssumption
  <2> QED
    BY <2>1, <2>2 DEF Sizes
<1>2. HandleMask + 1 >= 2
  BY <1>1, SizeProperties
<1> QED
  BY <1>2, SkynetHandleAssumption

LEMMA CandidateType ==
  ASSUME index \in 1..(HandleMask + 1), NEW k \in Nat
  PROVE  Candidate(k) \in Handle
<1>1. index + k - 1 \in Nat
  BY MaskType
<1>2. (index + k - 1) % HandleMask \in 0..(HandleMask - 1)
  BY <1>1, MaskType, ModHas
<1> QED
  BY <1>2, MaskType DEF Candidate, Handle

\* Whether or not they wrap around, the candidates cover all slots but the one
\* of handle 0.
LEMMA Covers ==
  ASSUME index \in 1..(HandleMask + 1), NEW sz \in Nat, sz >= 2,
         NEW q \in Nat \ {0}, HandleMask + 1 = sz * q, NEW r \in 1..(sz - 1)
  PROVE  \E k \in 0..(sz - 1) : SlotOf(Candidate(k), sz) = r
<1>0. HandleMask \in Nat /\ HandleMask >= 1 /\ sz <= HandleMask + 1
  BY MaskType
<1> DEFINE u == index % sz
           d == IF u <= r THEN r - u ELSE r - u + sz
           H == index + d
<1>1. u \in 0..(sz - 1) /\ \E p \in Nat : index = sz * p + u
  <2>1. index \in Nat /\ sz > 0
    BY <1>0
  <2> QED
    BY <2>1, ModHas
<1>2. PICK p \in Nat : index = sz * p + u
  BY <1>1
<1> HIDE DEF u
<1>3. d \in 0..(sz - 1)
  BY <1>1
<1>4. \E m \in Nat : H = sz * m + r
  <2>1. CASE u <= r
    <3>1. H = sz * p + r
      BY <1>1, <1>2, <2>1
    <3> QED
      BY <3>1
  <2>2. CASE u > r
    <3>1. H = sz * (p + 1) + r
      BY <1>1, <1>2, <2>2
    <3> QED
      BY <3>1, p + 1 \in Nat
  <2> QED
    BY <1>1, <1>2, <2>1, <2>2
<1>5. PICK m \in Nat : H = sz * m + r
  BY <1>4
<1>6. H \in Nat /\ H >= 1
  BY <1>0, <1>3
<1> HIDE DEF d
<1>7. CASE H <= HandleMask
  <2>1. index + d - 1 = HandleMask * 0 + (H - 1) /\ H - 1 \in 0..(HandleMask - 1)
    BY <1>0, <1>3, <1>6, <1>7
  <2>2. (index + d - 1) % HandleMask = H - 1
    BY <1>0, <2>1, ModIs
  <2>3. Candidate(d) = H
    BY <1>6, <2>2 DEF Candidate
  <2>4. H % sz = r
    <3>1. r \in 0..(sz - 1)
      OBVIOUS
    <3> HIDE DEF H
    <3> QED
      BY <1>5, <1>6, <3>1, ModIs
  <2> QED
    BY <1>3, <2>3, <2>4 DEF SlotOf
<1>8. CASE H > HandleMask
  <2>1. m = q
    <3>1. sz * m + r >= sz * q /\ sz * m + r <= sz * q + (sz - 1)
      BY <1>0, <1>3, <1>5, <1>8
    <3>2. ASSUME m < q PROVE FALSE
      <4>1. sz * (m + 1) <= sz * q
        BY <3>2
      <4>2. sz * (m + 1) = sz * m + sz
        OBVIOUS
      <4> QED
        BY <3>1, <4>1, <4>2
    <3>3. ASSUME m > q PROVE FALSE
      <4>1. sz * m >= sz * (q + 1)
        BY <3>3
      <4>2. sz * (q + 1) = sz * q + sz
        OBVIOUS
      <4> QED
        BY <3>1, <4>1, <4>2
    <3> QED
      BY <3>2, <3>3
  <2>2. H = HandleMask + 1 + r
    BY <1>5, <2>1
  <2>3. d - 1 \in 0..(sz - 1)
    BY <1>0, <1>3, <2>2
  <2>4. /\ index + (d - 1) - 1 = HandleMask * 1 + (r - 1)
        /\ r - 1 \in 0..(HandleMask - 1)
        /\ index + (d - 1) - 1 \in Nat
    BY <1>0, <1>3, <2>2
  <2>6. (index + (d - 1) - 1) % HandleMask = r - 1
    BY <1>0, <2>4, ModIs
  <2>7. Candidate(d - 1) = r
    BY <2>6 DEF Candidate
  <2>8. r = sz * 0 + r /\ r \in 0..(sz - 1)
    OBVIOUS
  <2>5. r % sz = r
    BY <2>8, ModIs
  <2> QED
    BY <2>3, <2>7, <2>5 DEF SlotOf
<1> QED
  BY <1>0, <1>3, <1>6, <1>7, <1>8

LEMMA FreeHandleFound ==
  ASSUME index \in 1..(HandleMask + 1), NEW sz \in Nat, NEW tb
  PROVE  /\ FreeHandle(sz, tb) # 0 =>
              /\ FreeHandle(sz, tb) \in Handle
              /\ tb[SlotOf(FreeHandle(sz, tb), sz)] = None
         /\ FreeHandle(sz, tb) = 0 =>
              \A k \in 0..(sz - 1) : tb[SlotOf(Candidate(k), sz)] # None
<1> DEFINE free == {k \in 0..(sz - 1) : tb[SlotOf(Candidate(k), sz)] = None}
<1>1. CASE free = {}
  <2>1. FreeHandle(sz, tb) = 0
    BY <1>1 DEF FreeHandle
  <2> QED
    BY <1>1, <2>1
<1>2. CASE free # {}
  <2>1. free \subseteq Nat
    OBVIOUS
  <2> DEFINE x == CHOOSE k \in free : \A l \in free : k <= l
  <2>2. x \in free
    <3> HIDE DEF free
    <3>1. \E k \in free : \A l \in free : k <= l
      BY <1>2, <2>1, Least
    <3> QED
      BY <3>1
  <2>3. FreeHandle(sz, tb) = Candidate(x)
    BY <1>2 DEF FreeHandle
  <2> HIDE DEF x
  <2>4. Candidate(x) \in Handle
    BY <2>1, <2>2, CandidateType
  <2>6. tb[SlotOf(Candidate(x), sz)] = None
    BY <2>2
  <2>7. Candidate(x) # 0
    BY <2>4 DEF Handle
  <2> QED
    BY <2>3, <2>4, <2>6, <2>7
<1> QED
  BY <1>1, <1>2

\* No handle is found only when the slots 1 .. sz-1 are all taken.
LEMMA NotFound ==
  ASSUME index \in 1..(HandleMask + 1), NEW sz \in Sizes, NEW tb,
         FreeHandle(sz, tb) = 0, NEW r \in 1..(sz - 1)
  PROVE  tb[r] # None
<1>1. sz \in Nat /\ sz >= 2
  BY SizeProperties
<1>2. PICK q \in Nat \ {0} : HandleMask + 1 = sz * q
  BY SizeProperties
<1>3. PICK k \in 0..(sz - 1) : SlotOf(Candidate(k), sz) = r
  BY <1>1, <1>2, Covers
<1> QED
  BY <1>1, <1>3, FreeHandleFound

-----------------------------------------------------------------------------
(* The expansion of the table.                                             *)

\* There are never more services than handles: HANDLE_MASK is far above the
\* number of contexts that fit in memory.
Enough == IsFiniteSet(Context) /\ Cardinality(Context) <= HandleMask

LEMMA SlotType ==
  ASSUME NEW x \in Nat, NEW sz \in Sizes
  PROVE  SlotOf(x, sz) \in 0..(sz - 1)
<1>1. sz \in Nat /\ sz > 0
  BY SizeProperties
<1> QED
  BY <1>1, ModHas DEF SlotOf

\* A table that is full can still be doubled, while a context is free.
LEMMA NotLargest ==
  ASSUME Enough, TypeOK, TableInv, NEW c \in Context, state[c] = "free",
         FreeHandle(size, slot) = 0
  PROVE  size # HandleMask + 1
<1> SUFFICES ASSUME size = HandleMask + 1 PROVE FALSE
  OBVIOUS
<1> DEFINE f == [r \in 0..HandleMask |-> IF r = 0 THEN c ELSE slot[r]]
<1>1. size \in Sizes /\ index \in 1..(HandleMask + 1)
  BY DEF TypeOK
<1>2. HandleMask \in Nat
  BY MaskType
<1>3. \A r \in 1..HandleMask : slot[r] # None
  BY <1>1, <1>2, NotFound
<1>4. \A r \in 1..HandleMask :
        /\ slot[r] \in Context /\ state[slot[r]] # "free"
        /\ SlotOf(HandleOf(slot[r]), size) = r
  BY <1>2, <1>3 DEF TypeOK, TableInv
<1>5. f \in [0..HandleMask -> Context]
  BY <1>2, <1>4
<1>6. IsFiniteSet(0..HandleMask) /\ Cardinality(0..HandleMask) = HandleMask + 1
  BY <1>2, FS_Interval
<1>7. IsFiniteSet(Context) /\ Cardinality(Context) < HandleMask + 1
  <2>1. Cardinality(Context) \in Nat
    BY FS_CardinalityType DEF Enough
  <2> QED
    BY <1>2, <2>1 DEF Enough
<1>8. \E x, y \in 0..HandleMask : x # y /\ f[x] = f[y]
  <2>1. Cardinality(Context) < Cardinality(0..HandleMask)
    BY <1>6, <1>7
  <2> DEFINE S == 0..HandleMask
             g == f
  <2>2. g \in [S -> Context] /\ IsFiniteSet(S) /\ Cardinality(Context) < Cardinality(S)
    BY <1>5, <1>6, <2>1
  <2>3. IsFiniteSet(Context)
    BY <1>7
  <2> HIDE DEF f, S, g
  <2>4. \E x, y \in S : x # y /\ g[x] = g[y]
    BY <2>2, <2>3, FS_PigeonHole
  <2> QED
    BY <2>4 DEF S, g
<1> QED
  BY <1>2, <1>4, <1>8

\* Services that have their handles do not meet in the doubled table.
LEMMA NoCollision ==
  ASSUME TypeOK, TableInv, \A c \in Context : state[c] # "registered"
  PROVE  ~ Collides
<1> SUFFICES ASSUME NEW x \in DOMAIN slot, NEW y \in DOMAIN slot,
                    x # y, slot[x] # None, slot[y] # None,
                    SlotOf(handle[slot[x]], 2 * size) = SlotOf(handle[slot[y]], 2 * size)
             PROVE  FALSE
  BY DEF Collides
<1>1. size \in Nat /\ size > 0
  BY SizeProperties DEF TypeOK
<1>2. \A z \in DOMAIN slot : slot[z] # None =>
        /\ handle[slot[z]] \in Nat
        /\ handle[slot[z]] % size = z
  <2>1. ASSUME NEW z \in DOMAIN slot, slot[z] # None
        PROVE  handle[slot[z]] \in Nat /\ handle[slot[z]] % size = z
    <3>1. z \in 0..(size - 1) /\ slot[z] \in Context
      BY <2>1 DEF TypeOK
    <3>2. state[slot[z]] # "registered" /\ SlotOf(HandleOf(slot[z]), size) = z
      BY <2>1, <3>1 DEF TableInv
    <3>3. handle[slot[z]] \in 0..HandleMask
      BY <3>1 DEF TypeOK
    <3> QED
      BY <3>2, <3>3, MaskType DEF HandleOf, SlotOf
  <2> QED
    BY <2>1
<1>3. \A z \in DOMAIN slot : slot[z] # None =>
        SlotOf(handle[slot[z]], 2 * size) % size = z
  BY <1>1, <1>2, ModDouble DEF SlotOf
<1> QED
  BY <1>3

\* Where the services are in the doubled table.
LEMMA Rehashed ==
  ASSUME TypeOK, TableInv, \A c \in Context : state[c] # "registered",
         NEW x \in 0..(2 * size - 1)
  PROVE  /\ Rehash[x] # None =>
              \E y \in 0..(size - 1) :
                /\ slot[y] # None /\ Rehash[x] = slot[y]
                /\ SlotOf(handle[slot[y]], 2 * size) = x
         /\ \A y \in 0..(size - 1) :
              slot[y] # None /\ SlotOf(handle[slot[y]], 2 * size) = x
                => Rehash[x] = slot[y]
<1> DEFINE here == {y \in DOMAIN slot : slot[y] # None /\
                                        SlotOf(handle[slot[y]], 2 * size) = x}
           top  == CHOOSE y \in here : \A z \in here : y >= z
<1>1. DOMAIN slot = 0..(size - 1)
  BY DEF TypeOK
<1>2. Rehash[x] = IF here = {} THEN None ELSE slot[top]
  BY DEF Rehash
<1>3. \A y, z \in here : y = z
  BY NoCollision DEF Collides
<1>4. here # {} => top \in here
  <2>1. \A y \in here : y >= y
    <3>1. size \in Nat
      BY SizeProperties DEF TypeOK
    <3> QED
      BY <1>1, <3>1
  <2>2. here # {} => \E y \in here : \A z \in here : y >= z
    BY <1>3, <2>1
  <2> HIDE DEF here
  <2> QED
    BY <2>2
<1>5. \A y \in here : y = top
  BY <1>3, <1>4
<1> HIDE DEF top
<1> QED
  BY <1>1, <1>2, <1>4, <1>5

\* The size of an interval of numbers that begins at 0 or at 1.
LEMMA IntervalSize ==
  ASSUME NEW m \in Nat
  PROVE  /\ IsFiniteSet(1..m) /\ Cardinality(1..m) = m
         /\ IsFiniteSet(0..m) /\ Cardinality(0..m) = m + 1
<1>1. IsFiniteSet(1..m) /\ Cardinality(1..m) = IF 1 > m THEN 0 ELSE m - 1 + 1
  BY FS_Interval
<1>2. IsFiniteSet(0..m) /\ Cardinality(0..m) = IF 0 > m THEN 0 ELSE m - 0 + 1
  BY FS_Interval
<1>3. (IF 1 > m THEN 0 ELSE m - 1 + 1) = m
  OBVIOUS
<1>4. (IF 0 > m THEN 0 ELSE m - 0 + 1) = m + 1
  OBVIOUS
<1> QED
  BY <1>1, <1>2, <1>3, <1>4

\* There is room in the doubled table.
LEMMA RoomAfter ==
  ASSUME TypeOK, TableInv, \A c \in Context : state[c] # "registered",
         2 * size \in Sizes
  PROVE  FreeHandle(2 * size, Rehash) # 0
<1> SUFFICES ASSUME FreeHandle(2 * size, Rehash) = 0 PROVE FALSE
  OBVIOUS
<1>1. size \in Nat /\ size >= 2
  BY SizeProperties DEF TypeOK
<1>2. index \in 1..(HandleMask + 1)
  BY DEF TypeOK
<1>3. \A x \in 1..(2 * size - 1) : Rehash[x] # None
  BY <1>2, NotFound
<1>4. \A x \in 1..(2 * size - 1) :
        \E y \in 0..(size - 1) : SlotOf(handle[slot[y]], 2 * size) = x
  BY <1>1, <1>3, Rehashed
<1> DEFINE S == 1..(2 * size - 1)
           T == 0..(size - 1)
           f == [x \in S |-> CHOOSE y \in T : SlotOf(handle[slot[y]], 2 * size) = x]
<1>5. f \in [S -> T] /\ \A x \in S : SlotOf(handle[slot[f[x]]], 2 * size) = x
  <2>1. \A x \in S : f[x] \in T /\ SlotOf(handle[slot[f[x]]], 2 * size) = x
    BY <1>4
  <2> QED
    BY <2>1
<1>6. IsFiniteSet(S) /\ Cardinality(S) = 2 * size - 1
  <2> DEFINE m == 2 * size - 1
  <2>1. m \in Nat
    BY <1>1
  <2> HIDE DEF m
  <2>2. IsFiniteSet(1..m) /\ Cardinality(1..m) = m
    BY <2>1, IntervalSize
  <2> QED
    BY <2>2 DEF m
<1>7. IsFiniteSet(T) /\ Cardinality(T) = size
  <2> DEFINE m == size - 1
  <2>1. m \in Nat /\ size = m + 1
    BY <1>1
  <2> HIDE DEF m
  <2>2. IsFiniteSet(0..m) /\ Cardinality(0..m) = m + 1
    BY <2>1, IntervalSize
  <2> QED
    BY <2>1, <2>2 DEF m
<1>8. \E x, y \in S : x # y /\ f[x] = f[y]
  <2>1. Cardinality(T) < Cardinality(S)
    BY <1>1, <1>6, <1>7
  <2> HIDE DEF f, S, T
  <2> QED
    BY <1>5, <1>6, <1>7, <2>1, FS_PigeonHole
<1> QED
  BY <1>5, <1>8

-----------------------------------------------------------------------------
(* The array of names without those of a handle.                           *)

Entry == [name : Name, handle : Handle]

\* What skynet_handle_retire keeps of the first k names.
Keep(f, x, k) ==
  IF k = 0 THEN <<>>
  ELSE IF name[k].handle = x THEN f[k - 1]
  ELSE Append(f[k - 1], name[k])

LEMMA KeepExists ==
  ASSUME NEW x, Len(name) \in Nat
  PROVE  \E f : f = [k \in 0..Len(name) |-> Keep(f, x, k)]
<1> DEFINE Upto(f, d) == /\ f = [k \in 0..Len(name) |-> f[k]]
                         /\ \A k \in 0..Len(name) : k < d => f[k] = Keep(f, x, k)
           T == {d \in Nat : ~ \E f : Upto(f, d)}
<1>1. T = {}
  <2> SUFFICES ASSUME T # {} PROVE FALSE
    OBVIOUS
  <2>1. T \subseteq Nat
    OBVIOUS
  <2>2. PICK t \in T : \A d \in T : t <= d
    <3> HIDE DEF T
    <3> QED
      BY <2>1, Least
  <2>3. t # 0
    <3> DEFINE g == [k \in 0..Len(name) |-> <<>>]
    <3>1. Upto(g, 0)
      OBVIOUS
    <3> HIDE DEF g, Upto
    <3> QED
      BY <3>1
  <2>4. t - 1 \in Nat /\ t - 1 \notin T
    BY <2>2, <2>3
  <2>6. PICK f : Upto(f, t - 1)
    BY <2>4
  <2> DEFINE g == [k \in 0..Len(name) |-> Keep(f, x, k)]
  <2>7. Upto(g, t)
    <3>1. \A k \in 0..Len(name) : k < t - 1 => g[k] = f[k]
      BY <2>6
    <3>2. \A k \in 0..Len(name) : k < t => Keep(g, x, k) = Keep(f, x, k)
      <4> TAKE k \in 0..Len(name)
      <4> HAVE k < t
      <4>1. CASE k = 0
        BY <4>1 DEF Keep
      <4>2. CASE k # 0
        <5>1. k - 1 \in 0..Len(name) /\ k - 1 < t - 1
          BY <2>4, <4>2
        <5>2. g[k - 1] = f[k - 1]
          BY <3>1, <5>1
        <5> HIDE DEF g
        <5> QED
          BY <5>2 DEF Keep
      <4> QED
        BY <4>1, <4>2
    <3> QED
      BY <3>2
  <2> HIDE DEF g, Upto
  <2> QED
    BY <2>7
<1>2. PICK f : Upto(f, Len(name) + 1)
  BY <1>1
<1>3. f = [k \in 0..Len(name) |-> Keep(f, x, k)]
  BY <1>2
<1> QED
  BY <1>3

\* The names that are kept are names of the array, and still sorted.
LEMMA WithoutKeeps ==
  ASSUME name \in Seq(Entry), NameInv, NEW x
  PROVE  /\ NamesWithout(x) \in Seq(Entry)
         /\ \A p, q \in DOMAIN NamesWithout(x) :
              p < q => NamesWithout(x)[p].name < NamesWithout(x)[q].name
<1>0. Len(name) \in Nat /\ \A k \in 1..Len(name) : name[k] \in Entry
  OBVIOUS
<1> DEFINE kept == CHOOSE f : f = [k \in 0..Len(name) |-> Keep(f, x, k)]
<1>1. kept = [k \in 0..Len(name) |-> Keep(kept, x, k)]
  BY <1>0, KeepExists
<1>2. NamesWithout(x) = kept[Len(name)]
  BY DEF NamesWithout, Keep
<1> HIDE DEF kept
<1> DEFINE Sorted(k) ==
             /\ kept[k] \in Seq(Entry)
             /\ \A p \in 1..Len(kept[k]) : \E j \in 1..k : kept[k][p] = name[j]
             /\ \A p, q \in 1..Len(kept[k]) :
                  p < q => kept[k][p].name < kept[k][q].name
           T == {k \in 0..Len(name) : ~ Sorted(k)}
<1>3. T = {}
  <2> SUFFICES ASSUME T # {} PROVE FALSE
    OBVIOUS
  <2>1. T \subseteq Nat
    BY <1>0
  <2>2. PICK t \in T : \A k \in T : t <= k
    <3> HIDE DEF T
    <3> QED
      BY <2>1, Least
  <2>3. t # 0
    <3>1. kept[0] = <<>>
      <4>1. 0 \in 0..Len(name)
        BY <1>0
      <4>2. kept[0] = Keep(kept, x, 0)
        BY ONLY <4>1, <1>1
      <4> QED
        BY <4>2 DEF Keep
    <3>2. Sorted(0)
      BY <3>1
    <3> QED
      BY <3>2
  <2>4. t - 1 \in 0..Len(name) /\ t - 1 \notin T
    BY <1>0, <2>2, <2>3
  <2>6. Sorted(t - 1)
    BY <2>4
  <2>7. t \in 1..Len(name)
    BY <1>0, <2>3
  <2>8. kept[t] = IF name[t].handle = x THEN kept[t - 1]
                  ELSE Append(kept[t - 1], name[t])
    <3>1. kept[t] = Keep(kept, x, t)
      BY <1>1, <2>4, <2>7
    <3> QED
      BY <2>3, <3>1 DEF Keep
  <2>5. CASE name[t].handle = x
    <3>1. kept[t] = kept[t - 1]
      BY <2>8, <2>5
    <3>2. \A p \in 1..Len(kept[t]) : \E j \in 1..t : kept[t][p] = name[j]
      BY <2>6, <2>7, <3>1
    <3>3. Sorted(t)
      BY <2>6, <3>1, <3>2
    <3> QED
      BY <3>3
  <2>9. CASE name[t].handle # x
    <3> DEFINE s == kept[t - 1]
               r == kept[t]
               l == Len(s)
    <3>1. s \in Seq(Entry) /\ name[t] \in Entry /\ l \in Nat
      BY <1>0, <2>6, <2>7
    <3>2. r = Append(s, name[t])
      BY <2>8, <2>9
    <3>3. /\ r \in Seq(Entry) /\ Len(r) = l + 1
          /\ r[l + 1] = name[t]
          /\ \A p \in 1..l : r[p] = s[p]
      BY <3>1, <3>2, AppendProperties
    <3>4. \A p \in 1..l : \E j \in 1..(t - 1) : r[p] = name[j]
      BY <2>6, <3>3
    <3>5. \A p \in 1..Len(r) : \E j \in 1..t : r[p] = name[j]
      <4> TAKE p \in 1..Len(r)
      <4>1. t \in 1..t /\ 1..(t - 1) \subseteq 1..t
        BY <2>7
      <4>2. p = l + 1 \/ p \in 1..l
        BY <3>1, <3>3
      <4>3. CASE p = l + 1
        BY <3>3, <4>1, <4>3
      <4>4. CASE p \in 1..l
        BY <3>4, <4>1, <4>4
      <4> QED
        BY <4>2, <4>3, <4>4
    <3>6. \A p \in 1..l : r[p].name < name[t].name
      <4> TAKE p \in 1..l
      <4>1. PICK j \in 1..(t - 1) : r[p] = name[j]
        BY <3>4
      <4>2. j \in DOMAIN name /\ t \in DOMAIN name /\ j < t
        BY <1>0, <2>7
      <4> QED
        BY <4>1, <4>2 DEF NameInv
    <3>7. \A p, q \in 1..l : p < q => r[p].name < r[q].name
      BY <2>6, <3>3
    <3>8. \A p, q \in 1..Len(r) : p < q => r[p].name < r[q].name
      <4> TAKE p, q \in 1..Len(r)
      <4> HAVE p < q
      <4>1. p \in 1..l
        BY <3>1, <3>3
      <4>2. CASE q \in 1..l
        BY <3>7, <4>1, <4>2
      <4>3. CASE q = l + 1
        BY <3>3, <3>6, <4>1, <4>3
      <4> QED
        BY <3>1, <3>3, <4>2, <4>3
    <3>9. Sorted(t)
      BY <3>3, <3>5, <3>8
    <3> QED
      BY <3>9
  <2> QED
    BY <2>5, <2>9
<1>4. Sorted(Len(name))
  BY <1>0, <1>3
<1>5. DOMAIN kept[Len(name)] = 1..Len(kept[Len(name)])
  BY <1>4
<1> QED
  BY <1>2, <1>4, <1>5

-----------------------------------------------------------------------------
(* The binary search.                                                      *)

\* The ranges that are searched, and one round of the search of name x in one.
Ranges == (0..Len(name)) \X (-1..(Len(name) - 1))

Probe(f, x, r) ==
  LET b == r[1]
      e == r[2]
      mid == (b + e) \div 2
      y == name[mid + 1].name
  IN  IF b > e THEN [found |-> FALSE, at |-> b]
      ELSE IF y = x THEN [found |-> TRUE, at |-> mid]
      ELSE IF y < x THEN f[<<mid + 1, e>>] ELSE f[<<b, mid - 1>>]

Mid(r) == (r[1] + r[2]) \div 2

LEMMA Middle ==
  ASSUME Len(name) \in Nat, NEW r \in Ranges, r[1] <= r[2]
  PROVE  /\ r[1] <= Mid(r) /\ Mid(r) <= r[2]
         /\ Mid(r) \in Nat /\ Mid(r) + 1 \in 1..Len(name)
         /\ <<Mid(r) + 1, r[2]>> \in Ranges /\ <<r[1], Mid(r) - 1>> \in Ranges
<1>1. r[1] \in 0..Len(name) /\ r[2] \in -1..(Len(name) - 1)
  BY DEF Ranges
<1>2. r[1] + r[2] \in Nat
  BY <1>1
<1>3. Mid(r) \in Int /\ 2 * Mid(r) <= r[1] + r[2] /\ r[1] + r[2] <= 2 * Mid(r) + 1
  BY <1>2 DEF Mid
<1>4. r[1] <= Mid(r) /\ Mid(r) <= r[2]
  BY <1>1, <1>3
<1>5. /\ Mid(r) + 1 \in 0..Len(name) /\ Mid(r) - 1 \in -1..(Len(name) - 1)
      /\ Mid(r) \in Nat /\ Mid(r) + 1 \in 1..Len(name)
  BY <1>1, <1>3, <1>4
<1> QED
  BY <1>1, <1>4, <1>5 DEF Ranges

LEMMA RangeType ==
  ASSUME Len(name) \in Nat, NEW r \in Ranges
  PROVE  /\ r[1] \in 0..Len(name) /\ r[2] \in -1..(Len(name) - 1)
         /\ r[1] \in Int /\ r[2] \in Int
         /\ ~ (r[2] - r[1] < 0 - Len(name) - 2)
         /\ r[2] - r[1] < (2 * Len(name) + 3) - Len(name) - 2
BY DEF Ranges

LEMMA SearchExists ==
  ASSUME NEW x, Len(name) \in Nat
  PROVE  \E f : f = [r \in Ranges |-> Probe(f, x, r)]
<1> DEFINE L == Len(name)
           Upto(f, d) == \A r \in Ranges : r[2] - r[1] < d => f[r] = Probe(f, x, r)
           Round(f) == [r \in Ranges |-> Probe(f, x, r)]
           T == {d \in Nat : ~ \E f : Upto(f, d - L - 2)}
<1>1. T = {}
  <2> SUFFICES ASSUME T # {} PROVE FALSE
    OBVIOUS
  <2>1. T \subseteq Nat
    OBVIOUS
  <2>2. PICK t \in T : \A d \in T : t <= d
    <3> HIDE DEF T
    <3> QED
      BY <2>1, Least
  <2>3. t # 0
    <3>1. \A r \in Ranges : ~ (r[2] - r[1] < 0 - L - 2)
      BY RangeType
    <3>2. \A f : Upto(f, 0 - L - 2)
      BY <3>1
    <3> HIDE DEF Upto
    <3> QED
      BY <3>2
  <2>4. t - 1 \in Nat /\ t - 1 \notin T
    BY <2>2, <2>3
  <2>6. PICK f : Upto(f, (t - 1) - L - 2)
    BY <2>4
  <2> DEFINE m == t - L - 2
             g == Round(f)
  <2>7. m \in Int /\ \A r \in Ranges : r[2] - r[1] < m - 1 => f[r] = Probe(f, x, r)
    BY <2>6
  <2>8. \A r \in Ranges : g[r] = Probe(f, x, r)
    OBVIOUS
  <2> HIDE DEF g, m
  <2>5. \A r \in Ranges : r[2] - r[1] < m - 1 => f[r] = g[r]
    BY <2>7, <2>8
  <2>9. \A r \in Ranges : r[2] - r[1] < m => Probe(f, x, r) = Probe(g, x, r)
    <3> TAKE r \in Ranges
    <3> HAVE r[2] - r[1] < m
    <3>1. ASSUME r[1] <= r[2]
          PROVE  /\ f[<<Mid(r) + 1, r[2]>>] = g[<<Mid(r) + 1, r[2]>>]
                 /\ f[<<r[1], Mid(r) - 1>>] = g[<<r[1], Mid(r) - 1>>]
      <4>1. /\ <<Mid(r) + 1, r[2]>> \in Ranges /\ <<r[1], Mid(r) - 1>> \in Ranges
            /\ r[1] <= Mid(r) /\ Mid(r) <= r[2] /\ Mid(r) \in Nat
        BY <3>1, Middle
      <4>2. r[2] - (Mid(r) + 1) < m - 1 /\ (Mid(r) - 1) - r[1] < m - 1
        <5>1. r[1] \in Int /\ r[2] \in Int
          BY RangeType
        <5>2. m \in Int
          BY <2>7
        <5> HIDE DEF T
        <5> QED
          BY <4>1, <5>1, <5>2
      <4> DEFINE u == <<Mid(r) + 1, r[2]>>
                 v == <<r[1], Mid(r) - 1>>
      <4>3. u[1] = Mid(r) + 1 /\ u[2] = r[2] /\ v[1] = r[1] /\ v[2] = Mid(r) - 1
        OBVIOUS
      <4> HIDE DEF u, v
      <4>4. u \in Ranges /\ v \in Ranges
        BY <4>1 DEF u, v
      <4>5. f[u] = g[u] /\ f[v] = g[v]
        BY <2>5, <4>2, <4>3, <4>4
      <4> QED
        BY <4>5 DEF u, v
    <3>2. r[1] <= r[2] =>
            /\ f[<<Mid(r) + 1, r[2]>>] = g[<<Mid(r) + 1, r[2]>>]
            /\ f[<<r[1], Mid(r) - 1>>] = g[<<r[1], Mid(r) - 1>>]
      BY <3>1
    <3>3. r[1] \in Int /\ r[2] \in Int
      BY RangeType
    <3>4. CASE r[1] <= r[2]
      BY <3>2, <3>3, <3>4 DEF Probe, Mid
    <3>5. CASE r[1] > r[2]
      BY <3>5 DEF Probe
    <3> HIDE DEF T
    <3> QED
      BY <3>3, <3>4, <3>5
  <2>10. \A r \in Ranges : r[2] - r[1] < m => g[r] = Probe(g, x, r)
    BY <2>8, <2>9
  <2>11. Upto(g, t - L - 2)
    BY <2>10 DEF m
  <2> HIDE DEF Upto
  <2> QED
    BY <2>11
<1>2. PICK f : Upto(f, (2 * L + 3) - L - 2)
  <2>1. 2 * L + 3 \in Nat
    OBVIOUS
  <2> QED
    BY <1>1, <2>1
<1>3. \A r \in Ranges : r[2] - r[1] < (2 * L + 3) - L - 2
  BY RangeType
<1>4. \A r \in Ranges : f[r] = Probe(f, x, r)
  BY <1>2, <1>3
<1> DEFINE g == Round(f)
<1>5. \A r \in Ranges : f[r] = g[r]
  BY <1>4
<1>6. g = [r \in Ranges |-> Probe(f, x, r)]
  OBVIOUS
<1> HIDE DEF g
<1>7. \A r \in Ranges : Probe(f, x, r) = Probe(g, x, r)
  <2> TAKE r \in Ranges
  <2>1. ASSUME r[1] <= r[2]
        PROVE  /\ f[<<Mid(r) + 1, r[2]>>] = g[<<Mid(r) + 1, r[2]>>]
               /\ f[<<r[1], Mid(r) - 1>>] = g[<<r[1], Mid(r) - 1>>]
    <3>1. /\ <<Mid(r) + 1, r[2]>> \in Ranges /\ <<r[1], Mid(r) - 1>> \in Ranges
      BY <2>1, Middle
    <3> QED
      BY <1>5, <3>1
  <2>2. r[1] <= r[2] =>
          /\ f[<<Mid(r) + 1, r[2]>>] = g[<<Mid(r) + 1, r[2]>>]
          /\ f[<<r[1], Mid(r) - 1>>] = g[<<r[1], Mid(r) - 1>>]
    BY <2>1
  <2>3. r[1] \in Int /\ r[2] \in Int
    BY RangeType
  <2>4. CASE r[1] <= r[2]
    BY <2>2, <2>3, <2>4 DEF Probe, Mid
  <2>5. CASE r[1] > r[2]
    BY <2>5 DEF Probe
  <2> QED
    BY <2>3, <2>4, <2>5
<1>8. g = Round(g)
  BY <1>6, <1>7
<1> QED
  BY <1>8

\* What the search answers for a sorted array: a place where the name is, or
\* else the place where it belongs.
Answers(a, x) ==
  IF a.found
  THEN a.at \in Nat /\ a.at + 1 \in 1..Len(name) /\ name[a.at + 1].name = x
  ELSE /\ a.at \in 0..Len(name)
       /\ \A k \in 1..Len(name) : IF k <= a.at THEN name[k].name < x
                                               ELSE x < name[k].name

LEMMA SearchAnswers ==
  ASSUME name \in Seq(Entry), NameInv, NEW x \in Name
  PROVE  Search(x).found \in BOOLEAN /\ Answers(Search(x), x)
<1>0. Len(name) \in Nat /\ \A k \in 1..Len(name) : name[k] \in Entry
  OBVIOUS
<1>a. x \in Nat /\ \A k \in 1..Len(name) : name[k].name \in Nat
  BY <1>0, SkynetHandleAssumption DEF Entry
<1>b. \A j, k \in 1..Len(name) : j < k => name[j].name < name[k].name
  BY <1>0 DEF NameInv
<1> DEFINE s == CHOOSE f : f = [r \in Ranges |-> Probe(f, x, r)]
<1>1. s = [r \in Ranges |-> Probe(s, x, r)]
  BY <1>0, SearchExists
<1>2. Search(x) = s[<<0, Len(name) - 1>>]
  BY DEF Search, Probe, Ranges
<1> HIDE DEF s
\* All that is left of r is smaller, all that is right of it greater.
<1> DEFINE Around(r) ==
             /\ r[1] <= r[2] + 1
             /\ \A k \in 1..Len(name) : /\ k <= r[1] => name[k].name < x
                                        /\ k > r[2] + 1 => x < name[k].name
           Good(r) == s[r].found \in BOOLEAN /\ Answers(s[r], x)
           T == {d \in Nat : \E r \in Ranges : d = r[2] - r[1] + 1 /\ Around(r) /\ ~ Good(r)}
<1>3. T = {}
  <2> SUFFICES ASSUME T # {} PROVE FALSE
    OBVIOUS
  <2>1. T \subseteq Nat
    OBVIOUS
  <2>2. PICK t \in T : \A d \in T : t <= d
    <3> HIDE DEF T
    <3> QED
      BY <2>1, Least
  <2>3. PICK r \in Ranges : t = r[2] - r[1] + 1 /\ Around(r) /\ ~ Good(r)
    OBVIOUS
  <2>4. r[1] \in 0..Len(name) /\ r[2] \in -1..(Len(name) - 1)
    BY DEF Ranges
  <2>5. t \in Nat /\ t = r[2] - r[1] + 1
    BY <2>3
  <2>6. s[r] = Probe(s, x, r)
    BY <1>1
  <2>7. CASE r[1] > r[2]
    <3>1. s[r] = [found |-> FALSE, at |-> r[1]]
      BY <2>6, <2>7 DEF Probe
    <3>2. r[1] = r[2] + 1
      BY <2>3, <2>4, <2>7
    <3>3. Answers(s[r], x)
      BY <2>3, <2>4, <3>1, <3>2 DEF Answers
    <3> QED
      BY <2>3, <3>1, <3>3
  <2>8. CASE r[1] <= r[2]
    <3> DEFINE mid == Mid(r)
               y   == name[mid + 1].name
               up  == <<mid + 1, r[2]>>
               low == <<r[1], mid - 1>>
    <3>1. /\ r[1] <= mid /\ mid <= r[2] /\ mid \in Nat /\ mid + 1 \in 1..Len(name)
          /\ up \in Ranges /\ low \in Ranges
      BY <1>0, <2>8, Middle
    <3>2. s[r] = IF y = x THEN [found |-> TRUE, at |-> mid]
                 ELSE IF y < x THEN s[up] ELSE s[low]
      BY <2>4, <2>6, <2>8 DEF Probe, Mid
    <3> HIDE DEF mid
    <3>3. y \in Nat
      BY <1>a, <3>1
    <3>4. CASE y = x
      <4>1. s[r] = [found |-> TRUE, at |-> mid]
        BY <3>2, <3>4
      <4>2. Answers(s[r], x)
        BY <3>1, <3>4, <4>1 DEF Answers
      <4> QED
        BY <2>3, <4>1, <4>2
    <3>5. CASE y < x
      <4>1. s[r] = s[up]
        BY <1>a, <3>2, <3>3, <3>5
      <4>2. \A k \in 1..Len(name) : k <= mid + 1 => name[k].name < x
        <5> TAKE k \in 1..Len(name)
        <5> HAVE k <= mid + 1
        <5>1. k < mid + 1 => name[k].name < y
          BY <1>b, <3>1
        <5> QED
          BY <1>a, <3>1, <3>3, <3>5, <5>1
      <4>3. up[1] = mid + 1 /\ up[2] = r[2]
        OBVIOUS
      <4>4. Around(up)
        BY <2>3, <2>4, <3>1, <4>2, <4>3
      <4>5. r[2] - (mid + 1) + 1 \in Nat /\ r[2] - (mid + 1) + 1 < t
        <5>1. r[1] \in Int /\ r[2] \in Int /\ mid \in Int /\ r[1] <= mid /\ mid <= r[2]
          BY <2>4, <3>1
        <5> HIDE DEF Good, Around, T, y, up, low
        <5> QED
          BY <2>5, <5>1
      <4>6. Good(up)
        <5>1. r[2] - (mid + 1) + 1 \notin T
          BY <2>2, <4>5
        <5> HIDE DEF Good, Around
        <5> QED
          BY <3>1, <4>3, <4>4, <4>5, <5>1
      <4> QED
        BY <2>3, <4>1, <4>6
    <3>6. CASE y > x
      <4>1. s[r] = s[low]
        BY <1>a, <3>2, <3>3, <3>6
      <4>2. \A k \in 1..Len(name) : k > mid => x < name[k].name
        <5> TAKE k \in 1..Len(name)
        <5> HAVE k > mid
        <5>1. k > mid + 1 => y < name[k].name
          BY <1>b, <3>1
        <5> QED
          BY <1>a, <3>1, <3>3, <3>6, <5>1
      <4>3. low[1] = r[1] /\ low[2] = mid - 1
        OBVIOUS
      <4>4. Around(low)
        BY <2>3, <2>4, <3>1, <4>2, <4>3
      <4>5. (mid - 1) - r[1] + 1 \in Nat /\ (mid - 1) - r[1] + 1 < t
        <5>1. r[1] \in Int /\ r[2] \in Int /\ mid \in Int /\ r[1] <= mid /\ mid <= r[2]
          BY <2>4, <3>1
        <5> HIDE DEF Good, Around, T, y, up, low
        <5> QED
          BY <2>5, <5>1
      <4>6. Good(low)
        <5>1. (mid - 1) - r[1] + 1 \notin T
          BY <2>2, <4>5
        <5> HIDE DEF Good, Around
        <5> QED
          BY <3>1, <4>3, <4>4, <4>5, <5>1
      <4> QED
        BY <2>3, <4>1, <4>6
    <3> QED
      BY <1>a, <3>3, <3>4, <3>5, <3>6
  <2> QED
    BY <2>4, <2>7, <2>8
<1> DEFINE all == <<0, Len(name) - 1>>
<1>4. all \in Ranges /\ all[1] = 0 /\ all[2] = Len(name) - 1
  BY <1>0 DEF Ranges
<1>5. Around(all)
  BY <1>0, <1>4
<1>6. Good(all)
  <2>1. all[2] - all[1] + 1 \in Nat
    BY <1>0, <1>4
  <2> HIDE DEF Good, Around, all
  <2> QED
    BY <1>3, <1>4, <1>5, <2>1
<1> QED
  BY <1>2, <1>6

\* A name that is not there is put where the search has ended.
LEMMA InsertKeeps ==
  ASSUME name \in Seq(Entry), NameInv, NEW x \in Name, NEW y \in Handle,
         ~ Search(x).found,
         NEW r, r = InsertAt(name, Search(x).at + 1, [name |-> x, handle |-> y])
  PROVE  /\ r \in Seq(Entry)
         /\ \A p, q \in DOMAIN r : p < q => r[p].name < r[q].name
<1> DEFINE a == Search(x).at
           e == [name |-> x, handle |-> y]
           left == SubSeq(name, 1, a)
           right == SubSeq(name, a + 1, Len(name))
<1>0. Len(name) \in Nat /\ \A k \in 1..Len(name) : name[k] \in Entry
  OBVIOUS
<1>1. /\ a \in 0..Len(name)
      /\ \A k \in 1..Len(name) : IF k <= a THEN name[k].name < x
                                           ELSE x < name[k].name
  BY SearchAnswers DEF Answers
<1>2. e \in Entry /\ e.name = x
  BY DEF Entry
<1>3. r = left \o <<e>> \o right
  <2>1. (a + 1) - 1 = a
    BY <1>1
  <2> QED
    BY <2>1 DEF InsertAt
<1> HIDE DEF a, e
<1>4. /\ left \in Seq(Entry) /\ Len(left) = a
      /\ \A k \in 1..a : left[k] = name[k]
  <2>1. a \in Int /\ 1 \in Int /\ \A k \in 1..a : name[k] \in Entry
    BY <1>0, <1>1
  <2>2. /\ SubSeq(name, 1, a) \in Seq(Entry)
        /\ Len(SubSeq(name, 1, a)) = IF 1 <= a THEN a - 1 + 1 ELSE 0
        /\ \A k \in 1..(a - 1 + 1) : SubSeq(name, 1, a)[k] = name[1 + k - 1]
    BY <2>1, SubSeqProperties
  <2> HIDE DEF left
  <2>3. Len(left) = a
    BY <1>1, <2>2 DEF left
  <2>4. \A k \in 1..a : left[k] = name[k]
    BY <1>1, <2>2 DEF left
  <2> QED
    BY <2>2, <2>3, <2>4 DEF left
<1>5. /\ right \in Seq(Entry) /\ Len(right) = Len(name) - a
      /\ \A k \in 1..(Len(name) - a) : right[k] = name[a + k]
  <2>1. a + 1 \in Int /\ Len(name) \in Int /\ \A k \in (a + 1)..Len(name) : name[k] \in Entry
    BY <1>0, <1>1
  <2>2. /\ SubSeq(name, a + 1, Len(name)) \in Seq(Entry)
        /\ Len(SubSeq(name, a + 1, Len(name))) =
             IF a + 1 <= Len(name) THEN Len(name) - (a + 1) + 1 ELSE 0
        /\ \A k \in 1..(Len(name) - (a + 1) + 1) :
             SubSeq(name, a + 1, Len(name))[k] = name[(a + 1) + k - 1]
    BY <2>1, SubSeqProperties
  <2> HIDE DEF right
  <2>3. Len(right) = Len(name) - a
    BY <1>0, <1>1, <2>2 DEF right
  <2>4. \A k \in 1..(Len(name) - a) : right[k] = name[a + k]
    BY <1>0, <1>1, <2>2 DEF right
  <2> QED
    BY <2>2, <2>3, <2>4 DEF right
<1> HIDE DEF left, right
<1> DEFINE two == left \o <<e>>
<1>6. /\ two \in Seq(Entry) /\ Len(two) = a + 1
      /\ \A k \in 1..a : two[k] = name[k]
      /\ two[a + 1] = e
  <2>1. <<e>> \in Seq(Entry) /\ Len(<<e>>) = 1 /\ <<e>>[1] = e
    BY <1>2
  <2>2. /\ two \in Seq(Entry) /\ Len(two) = Len(left) + 1
        /\ \A k \in 1..(Len(left) + 1) :
             two[k] = IF k <= Len(left) THEN left[k] ELSE <<e>>[k - Len(left)]
    BY <1>4, <2>1, ConcatProperties
  <2> HIDE DEF two
  <2> QED
    BY <1>1, <1>4, <2>1, <2>2
<1> HIDE DEF two
<1>7. /\ r \in Seq(Entry) /\ Len(r) = Len(name) + 1
      /\ \A k \in 1..(Len(name) + 1) :
           r[k] = IF k <= a + 1 THEN two[k] ELSE right[k - (a + 1)]
  <2>1. r = two \o right
    BY <1>3 DEF two
  <2>2. /\ two \o right \in Seq(Entry)
        /\ Len(two \o right) = Len(two) + Len(right)
        /\ \A k \in 1..(Len(two) + Len(right)) :
             (two \o right)[k] = IF k <= Len(two) THEN two[k] ELSE right[k - Len(two)]
    BY <1>5, <1>6, ConcatProperties
  <2>3. Len(two) = a + 1 /\ Len(two) + Len(right) = Len(name) + 1
    BY <1>0, <1>1, <1>5, <1>6
  <2> QED
    BY <2>1, <2>2, <2>3
<1>8. \A k \in 1..Len(r) : r[k] = IF k <= a THEN name[k]
                                  ELSE IF k = a + 1 THEN e ELSE name[k - 1]
  <2> TAKE k \in 1..Len(r)
  <2>1. CASE k <= a + 1
    BY <1>0, <1>1, <1>6, <1>7, <2>1
  <2>2. CASE k > a + 1
    <3>1. k - (a + 1) \in 1..(Len(name) - a) /\ a + (k - (a + 1)) = k - 1
      <4>1. k \in 1..(Len(name) + 1) /\ a \in Nat
        BY <1>1, <1>7
      <4> QED
        BY <1>0, <2>2, <4>1
    <3>2. r[k] = right[k - (a + 1)]
      <4>1. ~ (k <= a + 1)
        BY <1>1, <2>2
      <4> QED
        BY <1>7, <4>1
    <3>3. right[k - (a + 1)] = name[a + (k - (a + 1))]
      BY <1>5, <3>1
    <3> QED
      BY <1>0, <1>1, <2>2, <3>1, <3>2, <3>3
  <2> QED
    BY <1>0, <1>1, <1>7, <2>1, <2>2
<1>9. ASSUME NEW p \in 1..Len(r), NEW q \in 1..Len(r), p < q
      PROVE  r[p].name < r[q].name
  <2>0. Len(r) = Len(name) + 1 /\ x \in Nat /\ \A k \in 1..Len(name) : name[k].name \in Nat
    BY <1>0, <1>7, SkynetHandleAssumption DEF Entry
  <2>1. CASE p <= a
    <3>1. r[p] = name[p] /\ p \in 1..Len(name) /\ name[p].name < x
      BY <1>0, <1>1, <1>8, <2>0, <2>1
    <3>2. CASE q <= a
      <4>1. r[q] = name[q] /\ q \in 1..Len(name)
        BY <1>0, <1>1, <1>8, <2>0, <3>2
      <4> QED
        BY <1>0, <1>9, <3>1, <4>1 DEF NameInv
    <3>3. CASE q = a + 1
      BY <1>1, <1>2, <1>8, <3>1, <3>3
    <3>4. CASE q > a + 1
      <4>1. r[q] = name[q - 1] /\ q - 1 \in 1..Len(name) /\ p < q - 1
        BY <1>0, <1>1, <1>8, <2>0, <2>1, <3>4
      <4> QED
        BY <1>0, <3>1, <4>1 DEF NameInv
    <3> QED
      BY <1>1, <3>2, <3>3, <3>4
  <2>2. CASE p = a + 1
    <3>1. r[p].name = x
      BY <1>1, <1>2, <1>8, <2>2
    <3>2. r[q] = name[q - 1] /\ q - 1 \in 1..Len(name) /\ ~ (q - 1 <= a)
      BY <1>0, <1>1, <1>8, <1>9, <2>0, <2>2
    <3> QED
      BY <1>1, <3>1, <3>2
  <2>3. CASE p > a + 1
    <3>1. r[p] = name[p - 1] /\ p - 1 \in 1..Len(name)
      BY <1>0, <1>1, <1>8, <2>0, <2>3
    <3>2. r[q] = name[q - 1] /\ q - 1 \in 1..Len(name) /\ p - 1 < q - 1
      BY <1>0, <1>1, <1>8, <1>9, <2>0, <2>3
    <3> QED
      BY <1>0, <3>1, <3>2 DEF NameInv
  <2> QED
    BY <1>1, <2>1, <2>2, <2>3
<1> QED
  BY <1>7, <1>9

-----------------------------------------------------------------------------
(* The names, at any time.                                                 *)

\* The array of names is sorted, whoever is in the table.
NamesInv == name \in Seq(Entry) /\ NameInv

LEMMA NamesStep == NamesInv /\ [Next]_vars => NamesInv'
<1> SUFFICES ASSUME NamesInv, [Next]_vars PROVE NamesInv'
  OBVIOUS
<1>1. CASE UNCHANGED name
  BY <1>1 DEF NamesInv, NameInv
<1>2. ASSUME NEW x, name' = NamesWithout(x) PROVE NamesInv'
  BY <1>2, WithoutKeeps DEF NamesInv, NameInv
<1>3. ASSUME NEW x, RetireHandle(x) PROVE NamesInv'
  BY <1>1, <1>2, <1>3 DEF RetireHandle
<1>4. ASSUME NEW c \in Context, Register(c) \/ RegisterExpand(c) \/ Launched(c)
      PROVE  NamesInv'
  BY <1>1, <1>4 DEF Register, RegisterExpand, Launched
<1>5. ASSUME NEW x \in Handle, Retire(x) PROVE NamesInv'
  BY <1>3, <1>5 DEF Retire
<1>6. ASSUME NEW x \in Name, NEW y \in Handle, NameHandle(x, y) PROVE NamesInv'
  <2>1. CASE Search(x).found
    BY <1>1, <1>6, <2>1 DEF NameHandle
  <2>2. CASE ~ Search(x).found
    <3>1. name' = InsertAt(name, Search(x).at + 1, [name |-> x, handle |-> y])
      BY <1>6, <2>2 DEF NameHandle
    <3> QED
      BY <2>2, <3>1, InsertKeeps DEF NamesInv, NameInv
  <2> QED
    BY <2>1, <2>2
<1>7. CASE RetireAll
  BY <1>1, <1>7 DEF RetireAll
<1>8. CASE ReadSlot
  BY <1>1, <1>8 DEF ReadSlot
<1>9. CASE RetireSlot
  BY <1>3, <1>9 DEF RetireSlot
<1>10. CASE RoundEnd
  BY <1>1, <1>10 DEF RoundEnd
<1>11. CASE UNCHANGED vars
  BY <1>1, <1>11 DEF vars
<1> QED
  BY <1>4, <1>5, <1>6, <1>7, <1>8, <1>9, <1>10, <1>11 DEF Next, Loop

LEMMA NamesFind == NamesInv => FindsName
<1> SUFFICES ASSUME NamesInv, NEW x \in Name
             PROVE  /\ Search(x).found <=> \E k \in DOMAIN name : name[k].name = x
                    /\ \A k \in DOMAIN name :
                         name[k].name = x => FindName(x) = name[k].handle
  BY DEF FindsName
<1>1. name \in Seq(Entry) /\ NameInv
  BY DEF NamesInv
<1>2. /\ DOMAIN name = 1..Len(name) /\ Len(name) \in Nat
      /\ x \in Nat /\ \A k \in 1..Len(name) : name[k].name \in Nat
  <2>1. Name \subseteq Nat
    BY SkynetHandleAssumption
  <2>2. /\ DOMAIN name = 1..Len(name) /\ Len(name) \in Nat
        /\ \A k \in 1..Len(name) : name[k] \in Entry
    BY <1>1
  <2> QED
    BY <2>1, <2>2 DEF Entry
<1>3. Search(x).found \in BOOLEAN /\ Answers(Search(x), x)
  BY <1>1, SearchAnswers
<1>4. CASE Search(x).found
  <2> DEFINE at == Search(x).at + 1
  <2>1. at \in 1..Len(name) /\ name[at].name = x
    BY <1>3, <1>4 DEF Answers
  <2>2. FindName(x) = name[at].handle
    BY <1>4 DEF FindName
  <2> HIDE DEF at
  <2>3. ASSUME NEW k \in DOMAIN name, name[k].name = x PROVE k = at
    <3>1. ~ (k < at) /\ ~ (at < k)
      BY <1>1, <1>2, <2>1, <2>3 DEF NameInv
    <3> QED
      BY <1>2, <2>1, <3>1
  <2> QED
    BY <1>2, <1>4, <2>1, <2>2, <2>3
<1>5. CASE ~ Search(x).found
  <2>1. \A k \in 1..Len(name) : name[k].name # x
    BY <1>2, <1>3, <1>5 DEF Answers
  <2> QED
    BY <1>2, <1>5, <2>1
<1> QED
  BY <1>3, <1>4, <1>5

\* The binary search of findname and _insert_name (skynet_handle.c:157 and 213)
\* finds exactly the names in the array, each with its own handle, in every
\* state, however names are given and services retired.
THEOREM NamesFound == Spec => []FindsName
<1>1. Init => NamesInv
  BY DEF Init, NamesInv, NameInv
<1> QED
  BY <1>1, NamesStep, NamesFind, PTL DEF Spec

-----------------------------------------------------------------------------
(* The table, while services are made one at a time.                       *)

\* What makes a table right for the services it is to hold.
Holds(sz, tb) ==
  /\ sz \in Sizes
  /\ tb \in [0..(sz - 1) -> Context \cup {None}]
  /\ \A d \in Context : state[d] # "free" => tb[SlotOf(HandleOf(d), sz)] = d
  /\ \A y \in 0..(sz - 1) : tb[y] # None =>
       state[tb[y]] # "free" /\ SlotOf(HandleOf(tb[y]), sz) = y

\* A table is right after a step.
LEMMA TableFrom ==
  ASSUME \A d \in Context :
           /\ state'[d] # "free" => /\ HandleOf(d)' \in Handle
                                    /\ slot'[SlotOf(HandleOf(d)', size')] = d
           /\ state'[d] # "live" => handle'[d] = 0,
         \A y \in 0..(size' - 1) : slot'[y] # None =>
           \E d \in Context :
             slot'[y] = d /\ state'[d] # "free" /\ SlotOf(HandleOf(d)', size') = y
  PROVE  TableInv'
BY DEF TableInv, SlotOf, HandleOf, Handle

\* A service is put in a free slot of such a table.
LEMMA Placed ==
  ASSUME TypeOK, TableInv, NEW c \in Context, state[c] = "free",
         NEW sz, NEW tb, Holds(sz, tb), NEW x \in Handle,
         tb[SlotOf(x, sz)] = None, Place(c, sz, tb, x),
         UNCHANGED <<name, failed, loopVars>>
  PROVE  TypeOK' /\ TableInv'
<1> DEFINE w == SlotOf(x, sz)
<1>0. HandleMask \in Nat /\ x \in 1..HandleMask
  BY MaskType DEF Handle
<1>1. w \in 0..(sz - 1)
  BY <1>0, SlotType DEF Holds
<1>2. /\ size' = sz /\ index' = x + 1
      /\ slot' = [tb EXCEPT ![w] = c]
      /\ result' = [result EXCEPT ![c] = x]
      /\ state' = [state EXCEPT ![c] = "registered"]
      /\ handle' = [handle EXCEPT ![c] = 0]
  BY DEF Place
<1>3. /\ slot'[w] = c
      /\ \A y \in 0..(sz - 1) : y # w => slot'[y] = tb[y]
  BY <1>1, <1>2 DEF Holds
<1>4. /\ state'[c] = "registered" /\ handle'[c] = 0 /\ HandleOf(c)' = x
      /\ \A d \in Context : d # c => /\ state'[d] = state[d]
                                     /\ handle'[d] = handle[d]
                                     /\ HandleOf(d)' = HandleOf(d)
  BY <1>2 DEF TypeOK, HandleOf
<1>5. TypeOK'
  <2>1. slot' \in [0..(sz - 1) -> Context \cup {None}]
    BY <1>2 DEF Holds
  <2>2. index' \in 1..(HandleMask + 1)
    BY <1>0, <1>2
  <2>3. /\ state' \in [Context -> {"free", "registered", "live"}]
        /\ handle' \in [Context -> 0..HandleMask]
        /\ result' \in [Context -> 0..HandleMask]
    BY <1>0, <1>2 DEF TypeOK
  <2> QED
    BY <1>2, <2>1, <2>2, <2>3 DEF TypeOK, Holds, loopVars
<1>6. ASSUME NEW d \in Context
      PROVE  /\ state'[d] # "free" => /\ HandleOf(d)' \in Handle
                                      /\ slot'[SlotOf(HandleOf(d)', sz)] = d
             /\ state'[d] # "live" => handle'[d] = 0
  <2>1. CASE d = c
    BY <1>3, <1>4, <2>1
  <2>2. CASE d # c
    <3>1. state[d] # "live" => handle[d] = 0
      BY DEF TableInv
    <3>2. ASSUME state[d] # "free"
          PROVE  HandleOf(d) \in Handle /\ slot'[SlotOf(HandleOf(d), sz)] = d
      <4>1. HandleOf(d) \in Handle
        BY <3>2 DEF TableInv
      <4>2. tb[SlotOf(HandleOf(d), sz)] = d
        BY <3>2 DEF Holds
      <4>3. d # None
        BY SkynetHandleAssumption
      <4>4. SlotOf(HandleOf(d), sz) # w
        BY <4>2, <4>3
      <4>5. SlotOf(HandleOf(d), sz) \in 0..(sz - 1)
        BY <4>1, SlotType DEF Holds, Handle
      <4> QED
        BY <1>3, <4>1, <4>2, <4>4, <4>5
    <3> QED
      BY <1>4, <2>2, <3>1, <3>2
  <2> QED
    BY <2>1, <2>2
<1>7. ASSUME NEW y \in 0..(sz - 1), slot'[y] # None
      PROVE  \E d \in Context :
               slot'[y] = d /\ state'[d] # "free" /\ SlotOf(HandleOf(d)', sz) = y
  <2>1. CASE y = w
    <3>1. slot'[y] = c
      BY <1>3, <2>1
    <3> QED
      BY <1>4, <2>1, <3>1
  <2>2. CASE y # w
    <3>1. slot'[y] = tb[y]
      BY <1>3, <2>2
    <3>2. /\ tb[y] \in Context /\ state[tb[y]] # "free"
          /\ SlotOf(HandleOf(tb[y]), sz) = y
      BY <1>7, <3>1 DEF Holds
    <3>3. PICK d \in Context : d = tb[y]
      BY <3>2
    <3>4. d # c /\ slot'[y] = d
      BY <3>1, <3>2, <3>3
    <3> QED
      BY <1>4, <3>2, <3>3, <3>4
  <2> QED
    BY <2>1, <2>2
<1>8. TableInv'
  BY <1>2, <1>6, <1>7, TableFrom
<1> QED
  BY <1>5, <1>8

\* The table as it is, and the doubled one.
LEMMA Held == TypeOK /\ TableInv => Holds(size, slot)
BY DEF TypeOK, TableInv, Holds

LEMMA HeldDoubled ==
  ASSUME TypeOK, TableInv, \A c \in Context : state[c] # "registered",
         2 * size \in Sizes
  PROVE  Holds(2 * size, Rehash)
<1>1. DOMAIN Rehash = 0..(2 * size - 1)
  BY DEF Rehash
<1>2. \A x \in 0..(2 * size - 1) : Rehash[x] # None =>
        /\ Rehash[x] \in Context /\ state[Rehash[x]] # "free"
        /\ SlotOf(HandleOf(Rehash[x]), 2 * size) = x
  <2> SUFFICES ASSUME NEW x \in 0..(2 * size - 1), Rehash[x] # None
               PROVE  /\ Rehash[x] \in Context /\ state[Rehash[x]] # "free"
                      /\ SlotOf(HandleOf(Rehash[x]), 2 * size) = x
    OBVIOUS
  <2>1. PICK y \in 0..(size - 1) :
          /\ slot[y] # None /\ Rehash[x] = slot[y]
          /\ SlotOf(handle[slot[y]], 2 * size) = x
    BY Rehashed
  <2>2. slot[y] \in Context /\ state[slot[y]] # "free"
    BY <2>1 DEF TypeOK, TableInv
  <2>3. HandleOf(slot[y]) = handle[slot[y]]
    BY <2>2 DEF HandleOf
  <2> QED
    BY <2>1, <2>2, <2>3
<1>3. Rehash \in [0..(2 * size - 1) -> Context \cup {None}]
  <2>1. Rehash = [x \in 0..(2 * size - 1) |-> Rehash[x]]
    BY DEF Rehash
  <2>2. \A x \in 0..(2 * size - 1) : Rehash[x] \in Context \cup {None}
    BY <1>2
  <2> QED
    BY <2>1, <2>2
<1>4. ASSUME NEW d \in Context, state[d] # "free"
      PROVE  Rehash[SlotOf(HandleOf(d), 2 * size)] = d
  <2>1. HandleOf(d) = handle[d] /\ handle[d] \in Handle
    BY <1>4 DEF HandleOf, TableInv
  <2>2. handle[d] \in Nat
    BY <2>1, MaskType DEF Handle
  <2> DEFINE y == SlotOf(handle[d], size)
             x == SlotOf(handle[d], 2 * size)
  <2>3. y \in 0..(size - 1) /\ slot[y] = d
    BY <1>4, <2>1, <2>2, SlotType DEF TypeOK, TableInv
  <2>4. x \in 0..(2 * size - 1)
    BY <2>2, SlotType
  <2>5. d # None
    BY SkynetHandleAssumption
  <2>6. slot[y] # None /\ SlotOf(handle[slot[y]], 2 * size) = x
    BY <2>3, <2>5
  <2> HIDE DEF x, y
  <2>7. Rehash[x] = slot[y]
    BY <2>3, <2>4, <2>6, Rehashed
  <2> QED
    BY <2>1, <2>3, <2>7 DEF x
<1> QED
  BY <1>2, <1>3, <1>4 DEF Holds

\* skynet_handle_retire, whoever calls it.
LEMMA RetireKeeps ==
  ASSUME TypeOK, TableInv, NamesInv, NEW x \in Handle, RetireHandle(x),
         UNCHANGED <<size, index, result, failed>>
  PROVE  /\ slot' \in [0..(size' - 1) -> Context \cup {None}]
         /\ name' \in Seq([name : Name, handle : Handle])
         /\ state' \in [Context -> {"free", "registered", "live"}]
         /\ handle' \in [Context -> 0..HandleMask]
         /\ TableInv'
<1>0. name' \in Seq(Entry)
  BY WithoutKeeps DEF RetireHandle, NamesInv
<1>1. CASE Grab(x) = None
  <2>1. UNCHANGED <<slot, state, handle, size, result>>
    BY <1>1 DEF RetireHandle
  <2>2. TableInv'
    BY <2>1 DEF TableInv, HandleOf, SlotOf, Handle
  <2> QED
    BY <1>0, <2>1, <2>2 DEF TypeOK, Entry
<1>2. CASE Grab(x) # None
  <2> DEFINE w == SlotOf(x, size)
  <2>0. size \in Sizes /\ HandleMask \in Nat
    BY MaskType DEF TypeOK
  <2>1. w \in 0..(size - 1)
    BY <2>0, SlotType DEF Handle
  <2>2. PICK c \in Context : c = slot[w] /\ handle[c] = x /\ Grab(x) = c
    BY <1>2, <2>1 DEF Grab, TypeOK
  <2>3. state[c] = "live"
    BY <2>2 DEF TableInv, Handle
  <2>4. HandleOf(c) = x
    BY <2>2, <2>3 DEF HandleOf
  <2>5. /\ slot' = [slot EXCEPT ![w] = None]
        /\ state' = [state EXCEPT ![c] = "free"]
        /\ handle' = [handle EXCEPT ![c] = 0]
        /\ UNCHANGED <<size, result>>
    BY <1>2, <2>2 DEF RetireHandle
  <2>6. /\ slot' \in [0..(size' - 1) -> Context \cup {None}]
        /\ state' \in [Context -> {"free", "registered", "live"}]
        /\ handle' \in [Context -> 0..HandleMask]
    <3>1. slot' \in [0..(size' - 1) -> Context \cup {None}]
      BY <2>5 DEF TypeOK
    <3>2. state' \in [Context -> {"free", "registered", "live"}]
      BY <2>5 DEF TypeOK
    <3>3. handle' \in [Context -> 0..HandleMask]
      BY <2>0, <2>5 DEF TypeOK
    <3> QED
      BY <3>1, <3>2, <3>3
  <2>7. /\ slot'[w] = None
        /\ \A y \in 0..(size - 1) : y # w => slot'[y] = slot[y]
    BY <2>1, <2>5 DEF TypeOK
  <2>8. /\ state'[c] = "free" /\ handle'[c] = 0
        /\ \A d \in Context : d # c => /\ state'[d] = state[d]
                                       /\ handle'[d] = handle[d]
                                       /\ HandleOf(d)' = HandleOf(d)
    BY <2>5 DEF TypeOK, HandleOf
  <2>9. ASSUME NEW d \in Context
        PROVE  /\ state'[d] # "free" => /\ HandleOf(d)' \in Handle
                                        /\ slot'[SlotOf(HandleOf(d)', size)] = d
               /\ state'[d] # "live" => handle'[d] = 0
    <3>1. CASE d = c
      BY <2>8, <3>1
    <3>2. CASE d # c
      <4>1. state[d] # "live" => handle[d] = 0
        BY DEF TableInv
      <4>2. ASSUME state[d] # "free"
            PROVE  HandleOf(d) \in Handle /\ slot'[SlotOf(HandleOf(d), size)] = d
        <5>1. HandleOf(d) \in Handle /\ slot[SlotOf(HandleOf(d), size)] = d
          BY <4>2 DEF TableInv
        <5>2. SlotOf(HandleOf(d), size) # w
          BY <2>2, <3>2, <5>1
        <5>3. SlotOf(HandleOf(d), size) \in 0..(size - 1)
          BY <2>0, <5>1, SlotType DEF Handle
        <5> QED
          BY <2>7, <5>1, <5>2, <5>3
      <4> QED
        BY <2>8, <3>2, <4>1, <4>2
    <3> QED
      BY <3>1, <3>2
  <2>10. ASSUME NEW y \in 0..(size - 1), slot'[y] # None
         PROVE  \E d \in Context :
                  slot'[y] = d /\ state'[d] # "free" /\ SlotOf(HandleOf(d)', size) = y
    <3>1. y # w /\ slot'[y] = slot[y]
      BY <2>7, <2>10
    <3>2. /\ slot[y] \in Context /\ state[slot[y]] # "free"
          /\ SlotOf(HandleOf(slot[y]), size) = y
      BY <2>10, <3>1 DEF TypeOK, TableInv
    <3>3. PICK d \in Context : d = slot[y]
      BY <3>2
    <3>4. d # c
      BY <2>4, <3>1, <3>2, <3>3
    <3> QED
      BY <2>8, <3>1, <3>2, <3>3, <3>4
  <2>11. TableInv'
    BY <2>5, <2>9, <2>10, TableFrom
  <2> QED
    BY <1>0, <2>6, <2>11 DEF Entry
<1> QED
  BY <1>1, <1>2

\* The table, the loop and the assertions; the names are another matter.
StoreInv == TypeOK /\ ~failed /\ TableInv /\ LoopInv

LEMMA StoreInit == Init => StoreInv /\ NamesInv
<1> SUFFICES ASSUME Init PROVE StoreInv /\ NamesInv
  OBVIOUS
<1>1. HandleMask \in Nat
  BY MaskType
<1>2. InitSize \in Sizes
  <2>1. PICK k \in 1..24 : InitSize = Pow2(k)
    BY SkynetHandleAssumption
  <2>2. InitSize \in Nat \ {0}
    BY <2>1, PowerType
  <2>3. InitSize \in 1..(HandleMask + 1)
    BY <1>1, <2>2, SkynetHandleAssumption
  <2> QED
    BY <2>1, <2>3 DEF Sizes
<1>3. TypeOK
  <2>1. slot \in [0..(size - 1) -> Context \cup {None}]
    BY DEF Init
  <2>2. /\ index \in 1..(HandleMask + 1) /\ i \in 0..(HandleMask + 1)
        /\ h \in 0..HandleMask /\ n \in Nat
    BY <1>1 DEF Init
  <2>3. /\ handle \in [Context -> 0..HandleMask]
        /\ result \in [Context -> 0..HandleMask]
        /\ state \in [Context -> {"free", "registered", "live"}]
    BY <1>1 DEF Init
  <2>4. name \in Seq([name : Name, handle : Handle])
    BY DEF Init
  <2>5. /\ size \in Sizes /\ failed \in BOOLEAN
        /\ pc \in {"idle", "read", "retire", "done"}
    BY <1>2 DEF Init
  <2> QED
    BY <2>1, <2>2, <2>3, <2>4, <2>5 DEF TypeOK
<1>4. TableInv
  BY <1>2, SizeProperties DEF Init, TableInv
<1> QED
  BY <1>3, <1>4 DEF Init, StoreInv, LoopInv, NamesInv, NameInv

LEMMA StoreStep ==
  ASSUME SerialLaunch, Enough, StoreInv, NamesInv, [Next]_vars
  PROVE  StoreInv'
<1> USE DEF StoreInv
<1>0. HandleMask \in Nat /\ size \in Sizes /\ size \in Nat
  BY MaskType, SizeProperties DEF TypeOK
<1>1. ASSUME NEW c \in Context, Register(c) PROVE StoreInv'
  <2> DEFINE x == FreeHandle(size, slot)
  <2>1. /\ state[c] = "free" /\ x # 0 /\ Place(c, size, slot, x)
        /\ UNCHANGED <<name, failed, loopVars>>
    BY <1>1 DEF Register
  <2>2. index \in 1..(HandleMask + 1)
    BY DEF TypeOK
  <2>3. x \in Handle /\ slot[SlotOf(x, size)] = None
    BY <1>0, <2>1, <2>2, FreeHandleFound
  <2>4. TypeOK' /\ TableInv'
    <3> HIDE DEF x
    <3> QED
      BY <2>1, <2>3, Held, Placed
  <2>5. size' = size
    BY <2>1 DEF Place
  <2> QED
    BY <2>1, <2>4, <2>5 DEF LoopInv, loopVars
<1>2. ASSUME NEW c \in Context, RegisterExpand(c) PROVE StoreInv'
  <2>1. /\ state[c] = "free" /\ FreeHandle(size, slot) = 0
        /\ \A d \in Context : state[d] # "registered"
        /\ UNCHANGED <<name, loopVars>>
    BY <1>2 DEF RegisterExpand, MayLaunch
  <2>2. size # HandleMask + 1
    BY <2>1, NotLargest
  <2>3. 2 * size \in Sizes /\ 2 * size - 1 <= HandleMask
    BY <1>0, <2>2, SizeProperties
  <2>4. ~ Collides
    BY <2>1, NoCollision
  <2> DEFINE x == FreeHandle(2 * size, Rehash)
             sz == 2 * size
             tb == Rehash
  <2>5. Place(c, sz, tb, x) /\ UNCHANGED failed
    <3>1. ~ (size * 2 - 1 > HandleMask)
      BY <1>0, <2>3
    <3> QED
      BY <1>2, <2>4, <3>1 DEF RegisterExpand
  <2>6. x # 0
    BY <2>1, <2>3, RoomAfter
  <2>7. sz \in Nat /\ index \in 1..(HandleMask + 1)
    BY <1>0 DEF TypeOK
  <2>8. Holds(sz, tb)
    BY <2>1, <2>3, HeldDoubled
  <2>9. x \in Handle /\ tb[SlotOf(x, sz)] = None
    BY <2>6, <2>7, FreeHandleFound
  <2> HIDE DEF x, sz, tb
  <2>10. TypeOK' /\ TableInv'
    BY <2>1, <2>5, <2>8, <2>9, Placed
  <2>11. size' = 2 * size
    BY <2>5 DEF Place, sz
  <2>12. LoopInv'
    <3>1. i \in Nat
      BY <1>0 DEF TypeOK
    <3> QED
      BY <1>0, <2>1, <2>11, <3>1 DEF LoopInv, loopVars
  <2> QED
    BY <2>5, <2>10, <2>12
<1>3. ASSUME NEW c \in Context, Launched(c) PROVE StoreInv'
  <2>1. /\ state[c] = "registered"
        /\ handle' = [handle EXCEPT ![c] = result[c]]
        /\ result' = [result EXCEPT ![c] = 0]
        /\ state' = [state EXCEPT ![c] = "live"]
        /\ UNCHANGED <<tableVars, name, failed, loopVars>>
    BY <1>3 DEF Launched
  <2>2. /\ state'[c] = "live" /\ HandleOf(c)' = HandleOf(c)
        /\ \A d \in Context : d # c => /\ state'[d] = state[d]
                                       /\ handle'[d] = handle[d]
                                       /\ HandleOf(d)' = HandleOf(d)
    BY <2>1 DEF TypeOK, HandleOf
  <2>3. TypeOK'
    <3>1. /\ handle' \in [Context -> 0..HandleMask]
          /\ result' \in [Context -> 0..HandleMask]
      BY <1>0, <2>1 DEF TypeOK
    <3>2. state' \in [Context -> {"free", "registered", "live"}]
      BY <2>1 DEF TypeOK
    <3> QED
      BY <2>1, <3>1, <3>2 DEF TypeOK, tableVars, loopVars
  <2>4. size' = size /\ slot' = slot
    BY <2>1 DEF tableVars
  <2>5. \A d \in Context :
          /\ state'[d] # "free" => /\ HandleOf(d)' \in Handle
                                   /\ slot'[SlotOf(HandleOf(d)', size')] = d
          /\ state'[d] # "live" => handle'[d] = 0
    BY <2>1, <2>2, <2>4 DEF TableInv
  <2>6. ASSUME NEW y \in 0..(size' - 1), slot'[y] # None
        PROVE  \E d \in Context : /\ slot'[y] = d /\ state'[d] # "free"
                                  /\ SlotOf(HandleOf(d)', size') = y
    <3>1. PICK d \in Context : d = slot[y]
      BY <2>4, <2>6 DEF TypeOK
    <3>2. state[d] # "free" /\ SlotOf(HandleOf(d), size) = y
      BY <2>4, <2>6, <3>1 DEF TableInv
    <3> QED
      BY <2>2, <2>4, <3>1, <3>2
  <2>7. TableInv'
    BY <2>5, <2>6, TableFrom
  <2> QED
    BY <2>1, <2>3, <2>4, <2>7 DEF LoopInv, loopVars
<1>4. ASSUME NEW x \in Handle, Retire(x) PROVE StoreInv'
  <2>1. RetireHandle(x) /\ UNCHANGED <<size, index, result, failed, loopVars>>
    BY <1>4 DEF Retire
  <2>2. /\ slot' \in [0..(size' - 1) -> Context \cup {None}]
        /\ name' \in Seq([name : Name, handle : Handle])
        /\ state' \in [Context -> {"free", "registered", "live"}]
        /\ handle' \in [Context -> 0..HandleMask]
        /\ TableInv'
    BY <2>1, RetireKeeps
  <2>3. TypeOK' /\ LoopInv'
    BY <2>1, <2>2 DEF TypeOK, LoopInv, loopVars
  <2> QED
    BY <2>1, <2>2, <2>3
<1>5. ASSUME NEW x \in Name, NEW y \in Handle, NameHandle(x, y) PROVE StoreInv'
  <2>1. UNCHANGED <<tableVars, ctxVars, failed, loopVars>>
    BY <1>5 DEF NameHandle
  <2>2. name' \in Seq([name : Name, handle : Handle])
    <3>1. NamesInv'
      BY NamesStep
    <3> QED
      BY <3>1 DEF NamesInv, Entry
  <2> QED
    BY <2>1, <2>2 DEF TypeOK, TableInv, LoopInv, HandleOf, SlotOf, Handle,
                      tableVars, ctxVars, loopVars
<1>6. CASE RetireAll
  BY <1>0, <1>6 DEF RetireAll, TypeOK, TableInv, LoopInv, HandleOf, SlotOf, Handle,
                    tableVars, ctxVars
<1>7. CASE ReadSlot
  <2>1. /\ pc = "read" /\ i < size
        /\ h' = IF slot[i] = None THEN 0 ELSE handle[slot[i]]
        /\ n' = IF slot[i] = None THEN n ELSE n + 1
        /\ IF h' # 0
           THEN pc' = "retire" /\ UNCHANGED i
           ELSE i' = i + 1 /\ UNCHANGED pc
        /\ UNCHANGED <<tableVars, name, ctxVars, failed>>
    BY <1>7 DEF ReadSlot
  <2>2. i \in 0..(HandleMask + 1) /\ i \in 0..(size - 1)
    BY <1>0, <2>1 DEF TypeOK
  <2>3. h' \in 0..HandleMask /\ n' \in Nat
    BY <1>0, <2>1, <2>2 DEF TypeOK
  <2>4. /\ i' \in 0..(HandleMask + 1)
        /\ pc' \in {"idle", "read", "retire", "done"}
    <3>1. pc' \in {"idle", "read", "retire", "done"}
      BY <2>1
    <3>2. size <= HandleMask + 1
      BY <1>0 DEF Sizes
    <3>3. i' = i \/ i' = i + 1
      BY <2>1
    <3> QED
      BY <1>0, <2>1, <2>2, <3>1, <3>2, <3>3
  <2>5. TypeOK'
    BY <2>1, <2>3, <2>4 DEF TypeOK, tableVars, ctxVars
  <2>6. LoopInv'
    BY <2>1 DEF LoopInv, tableVars
  <2>7. TableInv'
    BY <2>1 DEF TableInv, HandleOf, SlotOf, Handle, tableVars, ctxVars
  <2> QED
    BY <2>1, <2>5, <2>6, <2>7
<1>8. CASE RetireSlot
  <2>1. /\ pc = "retire" /\ RetireHandle(h)
        /\ i' = i + 1 /\ h' = 0 /\ pc' = "read"
        /\ UNCHANGED <<size, index, result, failed, n>>
    BY <1>8 DEF RetireSlot
  <2>2. h \in Handle /\ i < size /\ i \in Nat
    BY <1>0, <2>1 DEF TypeOK, LoopInv, Handle
  <2>3. PICK x \in Handle : x = h
    BY <2>2
  <2>4. RetireHandle(x)
    BY <2>1, <2>3
  <2>5. /\ slot' \in [0..(size' - 1) -> Context \cup {None}]
        /\ name' \in Seq([name : Name, handle : Handle])
        /\ state' \in [Context -> {"free", "registered", "live"}]
        /\ handle' \in [Context -> 0..HandleMask]
        /\ TableInv'
    BY <2>1, <2>4, RetireKeeps
  <2>6. i' \in 0..(HandleMask + 1) /\ h' \in 0..HandleMask
    BY <1>0, <2>1, <2>2 DEF Sizes
  <2>7. TypeOK' /\ LoopInv'
    BY <2>1, <2>5, <2>6 DEF TypeOK, LoopInv
  <2> QED
    BY <2>1, <2>5, <2>7
<1>9. CASE RoundEnd
  BY <1>0, <1>9 DEF RoundEnd, TypeOK, TableInv, LoopInv, HandleOf, SlotOf, Handle,
                    tableVars, ctxVars
<1>10. CASE UNCHANGED vars
  BY <1>10 DEF vars, TypeOK, TableInv, LoopInv, HandleOf, SlotOf, Handle,
               tableVars, ctxVars, loopVars
<1> QED
  BY <1>1, <1>2, <1>3, <1>4, <1>5, <1>6, <1>7, <1>8, <1>9, <1>10 DEF Next, Loop

LEMMA StoreAlways == SerialLaunch /\ Enough => (Spec => []StoreInv)
<1> SUFFICES ASSUME SerialLaunch, Enough PROVE Spec => []StoreInv
  OBVIOUS
<1>1. StoreInv /\ NamesInv /\ [Next]_vars => StoreInv' /\ NamesInv'
  BY StoreStep, NamesStep
<1> QED
  BY <1>1, StoreInit, PTL DEF Spec

\* While services are made one at a time, as the launcher makes them, and there
\* are at most as many as handles, the assertions of skynet_handle_register
\* (skynet_handle.c:59 and 65) never fail, and every variable has its type.
THEOREM NeverAborts == SerialLaunch /\ Enough => (Spec => []NoAbort)
<1> SUFFICES ASSUME SerialLaunch, Enough PROVE Spec => []NoAbort
  OBVIOUS
<1>1. Spec => []StoreInv
  BY StoreAlways
<1>2. StoreInv => NoAbort
  BY DEF StoreInv, NoAbort
<1> QED
  BY <1>1, <1>2, PTL

\* Under the same conditions skynet_handle_grab (skynet_handle.c:138) finds every
\* live service by its handle, through every expansion of the table and every
\* wrap of handle_index, until it is retired.
THEOREM AlwaysReachable == SerialLaunch /\ Enough => (Spec => []Reachable)
<1> SUFFICES ASSUME SerialLaunch, Enough PROVE Spec => []Reachable
  OBVIOUS
<1>1. Spec => []StoreInv
  BY StoreAlways
<1>2. StoreInv => Reachable
  <2> SUFFICES ASSUME StoreInv, NEW c \in Context, state[c] = "live"
               PROVE  Grab(handle[c]) = c
    BY DEF Reachable
  <2>1. HandleOf(c) = handle[c] /\ c # None
    BY SkynetHandleAssumption DEF HandleOf
  <2>2. slot[SlotOf(handle[c], size)] = c
    BY <2>1 DEF StoreInv, TableInv
  <2> QED
    BY <2>1, <2>2 DEF Grab
<1> QED
  BY <1>1, <1>2, PTL
=============================================================================
