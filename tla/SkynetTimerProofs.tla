--------------------------- MODULE SkynetTimerProofs ---------------------------
(***************************************************************************)
(* Theorems about the timer, for wheels of any size and any number of      *)
(* timers.                                                                 *)
(***************************************************************************)
EXTENDS SkynetTimerProps, SequenceTheorems, FiniteSetTheorems,
        WellFoundedInduction, TLAPS

\* A set of numbers has a least one: induction, for what fails somewhere.
LEMMA Least ==
  ASSUME NEW T, T \subseteq Nat, T # {}
  PROVE  \E m \in T : \A n \in T : m <= n
<1> DEFINE R == {ss \in Nat \X Nat : ss[1] < ss[2]}
<1>1. IsWellFoundedOn(R, Nat)
  BY NatLessThanWellFounded DEF OpToRel
<1>2. \A m, n \in Nat : n < m => <<n, m>> \in R
  OBVIOUS
<1> HIDE DEF R
<1>3. PICK m \in T : \A n \in T : ~ (<<n, m>> \in R)
  BY <1>1, WFMin
<1>4. \A n \in T : ~ (n < m)
  BY <1>2, <1>3
<1> QED
  BY <1>4

-----------------------------------------------------------------------------
(* Quotients, remainders and powers of two.                                *)

LEMMA DivHas ==
  ASSUME NEW x \in Nat, NEW n \in Nat, n > 0
  PROVE  /\ x \div n \in Nat /\ x % n \in Nat /\ x % n < n
         /\ x = n * (x \div n) + (x % n)
<1>1. x % n \in 0..(n - 1)
  OBVIOUS
<1>2. x \div n \in Nat
  OBVIOUS
<1>3. x = n * (x \div n) + (x % n)
  OBVIOUS
<1> QED
  BY <1>1, <1>2, <1>3

LEMMA DivIs ==
  ASSUME NEW n \in Nat, n > 0, NEW q \in Nat, NEW r \in Nat, r < n
  PROVE  /\ (n * q + r) \div n = q /\ (n * q + r) % n = r
<1> DEFINE x == n * q + r
           a == x \div n
           b == x % n
<1>1. n * q \in Nat
  OBVIOUS
<1>2. x \in Nat
  BY <1>1
<1>3. a \in Nat /\ b \in Nat /\ b < n /\ x = n * a + b
  BY <1>2, DivHas
<1>4. n * q + r = n * a + b
  BY <1>3
<1> HIDE DEF a, b, x
<1>5. ~ (a < q)
  <2> SUFFICES ASSUME a < q PROVE FALSE
    OBVIOUS
  <2>1. PICK k \in Nat : q = a + 1 + k
    <3>1. q - a - 1 \in Nat /\ q = a + 1 + (q - a - 1)
      BY <1>3
    <3> QED
      BY <3>1
  <2>2. n * q = n * a + n + n * k
    BY <1>3, <2>1
  <2>3. n * a \in Nat /\ n * k \in Nat
    BY <1>3, <2>1
  <2> QED
    BY <1>3, <1>4, <2>2, <2>3
<1>6. ~ (q < a)
  <2> SUFFICES ASSUME q < a PROVE FALSE
    OBVIOUS
  <2>1. PICK k \in Nat : a = q + 1 + k
    <3>1. a - q - 1 \in Nat /\ a = q + 1 + (a - q - 1)
      BY <1>3
    <3> QED
      BY <3>1
  <2>2. n * a = n * q + n + n * k
    BY <1>3, <2>1
  <2>3. n * q \in Nat /\ n * k \in Nat
    BY <1>3, <2>1
  <2> QED
    BY <1>3, <1>4, <2>2, <2>3
<1>7. a = q
  BY <1>3, <1>5, <1>6
<1>8. b = r
  BY <1>1, <1>3, <1>4, <1>7
<1> QED
  BY <1>7, <1>8 DEF a, b, x

LEMMA DivNest ==
  ASSUME NEW x \in Nat, NEW n \in Nat, n > 0, NEW m \in Nat, m > 0
  PROVE  x \div (m * n) = (x \div n) \div m
<1> DEFINE a == x \div n
           r == x % n
           b == a \div m
           s == a % m
<1>1. a \in Nat /\ r \in Nat /\ r < n /\ x = n * a + r
  BY DivHas
<1> HIDE DEF a, r
<1>2. b \in Nat /\ s \in Nat /\ s < m /\ a = m * b + s
  BY <1>1, DivHas
<1> HIDE DEF b, s
<1>3. m * n \in Nat /\ m * n > 0
  OBVIOUS
<1>4. x = (m * n) * b + (n * s + r)
  <2>1. n * a = n * (m * b) + n * s
    BY <1>2
  <2>2. n * (m * b) = (m * n) * b
    BY <1>2
  <2>3. n * s \in Nat /\ (m * n) * b \in Nat
    BY <1>2, <1>3
  <2> QED
    BY <1>1, <2>1, <2>2, <2>3
<1>5. n * s + r \in Nat /\ n * s + r < m * n
  <2>1. PICK k \in Nat : m = s + 1 + k
    <3>1. m - s - 1 \in Nat /\ m = s + 1 + (m - s - 1)
      BY <1>2
    <3> QED
      BY <3>1
  <2>2. m * n = n * s + n + n * k
    BY <1>2, <2>1
  <2>3. n * s \in Nat /\ n * k \in Nat
    BY <1>2, <2>1
  <2> QED
    BY <1>1, <2>2, <2>3
<1>6. x \div (m * n) = b
  <2> DEFINE c == m * n
             d == n * s + r
  <2>1. c \in Nat /\ c > 0 /\ d \in Nat /\ d < c /\ x = c * b + d
    BY <1>3, <1>4, <1>5
  <2> HIDE DEF c, d
  <2>2. (c * b + d) \div c = b
    BY <1>2, <2>1, DivIs
  <2>3. x \div c = b
    BY <2>1, <2>2
  <2> QED
    BY <2>3 DEF c
<1> QED
  BY <1>6 DEF a, b

LEMMA DivMono ==
  ASSUME NEW n \in Nat, n > 0, NEW x \in Nat, NEW y \in Nat, x <= y
  PROVE  x \div n <= y \div n
<1> DEFINE a == x \div n
           b == y \div n
           r == x % n
           s == y % n
<1>1. /\ a \in Nat /\ r \in Nat /\ r < n /\ x = n * a + r
      /\ b \in Nat /\ s \in Nat /\ s < n /\ y = n * b + s
  BY DivHas
<1> HIDE DEF a, b, r, s
<1> SUFFICES ASSUME b < a PROVE FALSE
  BY <1>1 DEF a, b
<1>2. PICK k \in Nat : a = b + 1 + k
  <2>1. a - b - 1 \in Nat /\ a = b + 1 + (a - b - 1)
    BY <1>1
  <2> QED
    BY <2>1
<1>3. n * a = n * b + n + n * k
  BY <1>1, <1>2
<1>4. n * b \in Nat /\ n * k \in Nat
  BY <1>1, <1>2
<1>5. y < n * b + n
  BY <1>1, <1>4
<1>6. n * a \in Nat
  BY <1>1
<1>7. n * a <= x
  BY <1>1, <1>6
<1>8. n * b + n <= n * a
  BY <1>3, <1>4
<1> QED
  BY <1>4, <1>5, <1>6, <1>7, <1>8

Shift == 0..(NearShift + 4 * LevelShift)

LEMMA PowType == \A k \in Shift : Pow2(k) \in Nat /\ Pow2(k) > 0
<1> DEFINE T == {k \in Shift : ~ (Pow2(k) \in Nat /\ Pow2(k) > 0)}
<1> SUFFICES ASSUME T # {} PROVE FALSE
  OBVIOUS
<1>0. NearShift \in Nat /\ LevelShift \in Nat
  BY SkynetTimerAssumption
<1>1. T \subseteq Nat
  BY <1>0 DEF Shift
<1>2. PICK k \in T : \A n \in T : k <= n
  <2> HIDE DEF T
  <2> QED
    BY <1>1, Least
<1>3. k # 0
  BY PowersOfTwo
<1>4. k - 1 \in 0..(NearShift + 4 * LevelShift - 1) /\ k - 1 \in Shift /\ k - 1 \notin T
  BY <1>0, <1>2, <1>3 DEF Shift
<1>5. Pow2((k - 1) + 1) = 2 * Pow2(k - 1)
  BY <1>4, PowersOfTwo
<1>6. Pow2(k - 1) \in Nat /\ Pow2(k - 1) > 0
  BY <1>4
<1>7. (k - 1) + 1 = k
  BY <1>1
<1> QED
  BY <1>2, <1>5, <1>6, <1>7

LEMMA PowSum ==
  ASSUME NEW a \in Nat, NEW b \in Nat, a + b \in Shift
  PROVE  Pow2(a + b) = Pow2(b) * Pow2(a)
<1> DEFINE T == {k \in Nat : a + k \in Shift /\ Pow2(a + k) # Pow2(k) * Pow2(a)}
<1> SUFFICES ASSUME T # {} PROVE FALSE
  OBVIOUS
<1>0. NearShift \in Nat /\ LevelShift \in Nat
  BY SkynetTimerAssumption
<1>1. T \subseteq Nat
  OBVIOUS
<1>2. PICK k \in T : \A n \in T : k <= n
  <2> HIDE DEF T
  <2> QED
    BY <1>1, Least
<1>3. k \in Nat /\ a + k \in Shift
  BY <1>2
<1>4. k # 0
  <2>1. a \in Shift
    BY <1>0, <1>3 DEF Shift
  <2>2. Pow2(a + 0) = Pow2(0) * Pow2(a)
    BY <2>1, PowType, PowersOfTwo
  <2> QED
    BY <1>2, <2>2
<1>5. /\ k - 1 \in 0..(NearShift + 4 * LevelShift - 1) /\ k - 1 \in Shift
      /\ a + (k - 1) \in 0..(NearShift + 4 * LevelShift - 1) /\ a + (k - 1) \in Shift
      /\ k - 1 \in Nat /\ k - 1 \notin T /\ a \in Shift
  BY <1>0, <1>2, <1>3, <1>4 DEF Shift
<1>6. Pow2((k - 1) + 1) = 2 * Pow2(k - 1) /\ Pow2((a + (k - 1)) + 1) = 2 * Pow2(a + (k - 1))
  BY <1>5, PowersOfTwo
<1>7. (k - 1) + 1 = k /\ (a + (k - 1)) + 1 = a + k
  BY <1>3
<1>8. Pow2(a + (k - 1)) = Pow2(k - 1) * Pow2(a)
  BY <1>5
<1>9. Pow2(a + k) = Pow2(k) * Pow2(a)
  <2> DEFINE c == Pow2(k - 1)
             d == Pow2(a)
  <2>1. c \in Nat /\ d \in Nat
    BY <1>5, PowType
  <2>2. Pow2(k) = 2 * c /\ Pow2(a + k) = 2 * (c * d)
    BY <1>6, <1>7, <1>8
  <2> HIDE DEF c
  <2>3. 2 * (c * d) = (2 * c) * d
    BY <2>1
  <2> QED
    BY <2>2, <2>3
<1> QED
  BY <1>2, <1>9

\* The blocks nest: a level turns once while the next goes on by one slot.
LEMMA Blocks ==
  /\ NEAR \in Nat /\ NEAR > 0 /\ LEVEL \in Nat /\ LEVEL >= 2
  /\ \A l \in 0..4 : Block[l] \in Nat /\ Block[l] > 0
  /\ Block[0] = NEAR /\ Block[1] = LEVEL * Block[0] /\ Block[2] = LEVEL * Block[1]
  /\ Block[3] = LEVEL * Block[2] /\ Block[4] = LEVEL * Block[3]
  /\ Range32 = Block[4]
<1>0. NearShift \in Nat /\ LevelShift \in Nat /\ LevelShift # 0
  BY SkynetTimerAssumption
<1>1. /\ NearShift \in Shift /\ LevelShift \in Shift
      /\ LevelShift - 1 \in Shift /\ LevelShift - 1 \in 0..(NearShift + 4 * LevelShift - 1)
  BY <1>0 DEF Shift
<1>2. NEAR \in Nat /\ NEAR > 0 /\ LEVEL \in Nat
  BY <1>1, PowType DEF NEAR, LEVEL
<1>3. LEVEL >= 2
  <2>1. Pow2(LevelShift - 1) \in Nat /\ Pow2(LevelShift - 1) > 0
    BY <1>1, PowType
  <2>2. Pow2((LevelShift - 1) + 1) = 2 * Pow2(LevelShift - 1)
    BY <1>1, PowersOfTwo
  <2>3. (LevelShift - 1) + 1 = LevelShift
    BY <1>0
  <2> QED
    BY <2>1, <2>2, <2>3 DEF LEVEL
<1>4. \A l \in 0..4 : Block[l] = Pow2(NearShift + l * LevelShift) /\ NearShift + l * LevelShift \in Shift
  <2>1. \A l \in 0..4 : Block[l] = Pow2(NearShift + l * LevelShift)
    BY DEF Block
  <2>2. \A l \in 0..4 : NearShift + l * LevelShift \in Shift
    <3> TAKE l \in 0..4
    <3>1. l = 0 \/ l = 1 \/ l = 2 \/ l = 3 \/ l = 4
      OBVIOUS
    <3> QED
      BY <1>0, <3>1 DEF Shift
  <2> QED
    BY <2>1, <2>2
<1>5. \A l \in 0..4 : Block[l] \in Nat /\ Block[l] > 0
  BY <1>4, PowType
<1>6. ASSUME NEW l \in 0..3 PROVE Block[l + 1] = LEVEL * Block[l]
  <2> DEFINE a == NearShift + l * LevelShift
  <2>1. l \in 0..4 /\ l + 1 \in 0..4
    OBVIOUS
  <2>2. a \in Nat /\ a + LevelShift = NearShift + (l + 1) * LevelShift
    BY <1>0
  <2>3. a + LevelShift \in Shift
    BY <1>4, <2>1, <2>2
  <2>4. Block[l] = Pow2(a) /\ Block[l + 1] = Pow2(a + LevelShift)
    BY <1>4, <2>1, <2>2
  <2> HIDE DEF a
  <2>5. Pow2(a + LevelShift) = Pow2(LevelShift) * Pow2(a)
    BY <1>0, <2>2, <2>3, PowSum
  <2> QED
    BY <2>4, <2>5 DEF LEVEL
<1>7. /\ Block[0 + 1] = LEVEL * Block[0] /\ Block[1 + 1] = LEVEL * Block[1]
      /\ Block[2 + 1] = LEVEL * Block[2] /\ Block[3 + 1] = LEVEL * Block[3]
  BY <1>6
<1>8. Block[0] = NEAR
  <2>1. NearShift + 0 * LevelShift = NearShift
    BY <1>0
  <2> QED
    BY <1>4, <2>1 DEF NEAR
<1>9. Range32 = Block[4]
  BY <1>4 DEF Range32
<1> QED
  BY <1>2, <1>3, <1>5, <1>7, <1>8, <1>9

-----------------------------------------------------------------------------
(* The block of a time at a level, and its slot there.                     *)

Q(x, l) == x \div Block[l]

LEMMA BlockAt ==
  ASSUME NEW l \in 0..3
  PROVE  /\ l \in 0..4 /\ l + 1 \in 0..4 /\ Block[l + 1] = LEVEL * Block[l]
         /\ Block[l] \in Nat /\ Block[l] > 0 /\ LEVEL \in Nat /\ LEVEL >= 2
<1>1. l = 0 \/ l = 1 \/ l = 2 \/ l = 3
  OBVIOUS
<1>2. 0 + 1 = 1 /\ 1 + 1 = 2 /\ 2 + 1 = 3 /\ 3 + 1 = 4
  OBVIOUS
<1>3. Block[l + 1] = LEVEL * Block[l]
  BY <1>1, <1>2, Blocks
<1>4. l \in 0..4 /\ l + 1 \in 0..4
  OBVIOUS
<1> QED
  BY <1>3, <1>4, Blocks

LEMMA QHas ==
  ASSUME NEW x \in Nat, NEW l \in 0..4
  PROVE  /\ Q(x, l) \in Nat /\ x % Block[l] \in Nat /\ x % Block[l] < Block[l]
         /\ x = Block[l] * Q(x, l) + (x % Block[l])
         /\ Block[l] * Q(x, l) \in Nat
<1>1. Block[l] \in Nat /\ Block[l] > 0
  BY Blocks
<1> DEFINE n == Block[l]
<1> HIDE DEF n
<1>2. n \in Nat /\ n > 0
  BY <1>1 DEF n
<1>3. /\ x \div n \in Nat /\ x % n \in Nat /\ x % n < n
      /\ x = n * (x \div n) + (x % n)
  BY <1>2, DivHas
<1>4. n * (x \div n) \in Nat
  BY <1>2, <1>3
<1> QED
  BY <1>3, <1>4 DEF n, Q

LEMMA QNest ==
  ASSUME NEW x \in Nat, NEW l \in 0..3
  PROVE  /\ Q(x, l + 1) = Q(x, l) \div LEVEL
         /\ IndexOf(x, l) \in 0..(LEVEL - 1)
         /\ Q(x, l) = LEVEL * Q(x, l + 1) + IndexOf(x, l)
<1> DEFINE n == Block[l]
<1>1. /\ n \in Nat /\ n > 0 /\ LEVEL \in Nat /\ LEVEL > 0 /\ Block[l + 1] = LEVEL * n
  BY BlockAt
<1> HIDE DEF n
<1>2. x \div (LEVEL * n) = (x \div n) \div LEVEL
  BY <1>1, DivNest
<1>3. Q(x, l) = x \div n /\ Q(x, l + 1) = x \div (LEVEL * n)
  BY <1>1 DEF Q, n
<1>4. Q(x, l) \in Nat
  BY QHas, BlockAt
<1>5. IndexOf(x, l) = Q(x, l) % LEVEL
  BY DEF IndexOf, Q
<1> DEFINE q == Q(x, l)
<1> HIDE DEF q
<1>6. q \in Nat
  BY <1>4 DEF q
<1>7. q % LEVEL \in Nat /\ q % LEVEL < LEVEL /\ q = LEVEL * (q \div LEVEL) + (q % LEVEL)
  BY <1>1, <1>6, DivHas
<1>8. q % LEVEL \in 0..(LEVEL - 1)
  BY <1>1, <1>7
<1> QED
  BY <1>2, <1>3, <1>5, <1>7, <1>8 DEF q

LEMMA QUp ==
  ASSUME NEW x \in Nat, NEW y \in Nat, NEW l \in 0..3, Q(x, l) = Q(y, l)
  PROVE  Q(x, l + 1) = Q(y, l + 1) /\ IndexOf(x, l) = IndexOf(y, l)
<1>1. Q(x, l + 1) = Q(x, l) \div LEVEL /\ Q(y, l + 1) = Q(y, l) \div LEVEL
  BY QNest
<1>2. IndexOf(x, l) = Q(x, l) % LEVEL /\ IndexOf(y, l) = Q(y, l) % LEVEL
  BY DEF IndexOf, Q
<1> QED
  BY <1>1, <1>2

\* Two times of one block that have the same slot are in one block below.
LEMMA QDown ==
  ASSUME NEW x \in Nat, NEW y \in Nat, NEW l \in 0..3, Q(x, l + 1) = Q(y, l + 1),
         IndexOf(x, l) = IndexOf(y, l)
  PROVE  Q(x, l) = Q(y, l)
<1>1. /\ Q(x, l) = LEVEL * Q(x, l + 1) + IndexOf(x, l)
      /\ Q(y, l) = LEVEL * Q(y, l + 1) + IndexOf(y, l)
  BY QNest
<1> QED
  BY <1>1

LEMMA QMono ==
  ASSUME NEW x \in Nat, NEW y \in Nat, x <= y, NEW l \in 0..4
  PROVE  Q(x, l) <= Q(y, l)
<1> DEFINE n == Block[l]
<1>1. n \in Nat /\ n > 0
  BY Blocks
<1> HIDE DEF n
<1>2. x \div n <= y \div n
  BY <1>1, DivMono
<1> QED
  BY <1>2 DEF n, Q

\* What is between two times of one block is in it.
LEMMA QBetween ==
  ASSUME NEW x \in Nat, NEW y \in Nat, NEW z \in Nat, x <= y, y <= z,
         NEW l \in 0..4, Q(x, l) = Q(z, l)
  PROVE  Q(y, l) = Q(z, l)
<1>1. Q(x, l) <= Q(y, l) /\ Q(y, l) <= Q(z, l)
  BY QMono
<1>2. Q(y, l) \in Nat /\ Q(z, l) \in Nat
  BY QHas
<1> QED
  BY <1>1, <1>2

LEMMA QIs ==
  ASSUME NEW l \in 0..4, NEW q \in Nat, NEW r \in Nat, r < Block[l],
         NEW x, x = Block[l] * q + r
  PROVE  Q(x, l) = q /\ x % Block[l] = r
<1> DEFINE n == Block[l]
<1>1. n \in Nat /\ n > 0 /\ r < n /\ x = n * q + r
  BY Blocks
<1> HIDE DEF n
<1>2. (n * q + r) \div n = q /\ (n * q + r) % n = r
  BY <1>1, DivIs
<1> QED
  BY <1>1, <1>2 DEF n, Q

\* All times are in one block of the highest level.
LEMMA QTop ==
  ASSUME NEW x \in Time
  PROVE  x \in Nat /\ Q(x, 4) = 0 /\ IndexOf(x, 3) = Q(x, 3)
<1>1. x \in Nat /\ x < Block[4] /\ Block[4] \in Nat
  BY Blocks DEF Time
<1>2. x = Block[4] * 0 + x
  BY <1>1
<1>3. Q(x, 4) = 0
  BY <1>1, <1>2, QIs
<1>4. Q(x, 3) = LEVEL * Q(x, 3 + 1) + IndexOf(x, 3) /\ IndexOf(x, 3) \in 0..(LEVEL - 1)
  BY <1>1, QNest
<1>5. 3 + 1 = 4 /\ LEVEL \in Nat
  BY Blocks
<1>6. LEVEL * 0 = 0
  BY <1>5
<1> QED
  BY <1>1, <1>3, <1>4, <1>5, <1>6

\* The next time is in the same block, or begins the next one.
LEMMA QStep ==
  ASSUME NEW x \in Nat, NEW l \in 0..4
  PROVE  \/ (x + 1) % Block[l] = 0 /\ Q(x + 1, l) = Q(x, l) + 1
         \/ (x + 1) % Block[l] # 0 /\ Q(x + 1, l) = Q(x, l)
<1> DEFINE n == Block[l]
           q == Q(x, l)
           r == x % n
<1>1. n \in Nat /\ n > 0 /\ q \in Nat /\ r \in Nat /\ r < n /\ x = n * q + r
  <2>1. n \in Nat /\ n > 0
    BY Blocks
  <2>2. q \in Nat /\ r \in Nat /\ r < n /\ x = n * q + r
    BY QHas
  <2> HIDE DEF n, q, r
  <2> QED
    BY <2>1, <2>2
<1> DEFINE y == x + 1
<1> HIDE DEF q, r, n, y
<1>0. \A p, z \in Nat : z < n /\ y = n * p + z => Q(y, l) = p /\ y % n = z
  BY QIs DEF n
<1>2. CASE r + 1 < n
  <2>1. r + 1 \in Nat /\ y = n * q + (r + 1)
    BY <1>1 DEF y
  <2>2. Q(y, l) = q /\ y % n = r + 1
    BY <1>0, <1>1, <1>2, <2>1
  <2> QED
    BY <1>1, <2>2 DEF q, n, y
<1>3. CASE r + 1 = n
  <2>1. n * (q + 1) = n * q + n
    BY <1>1
  <2>2. q + 1 \in Nat /\ y = n * (q + 1) + 0
    BY <1>1, <1>3, <2>1 DEF y
  <2>3. Q(y, l) = q + 1 /\ y % n = 0
    BY <1>0, <1>1, <2>2
  <2> QED
    BY <2>3 DEF q, n, y
<1> QED
  BY <1>1, <1>2, <1>3

\* A time that begins a block begins its first slot, at every level below.
LEMMA QZero ==
  ASSUME NEW x \in Nat, NEW l \in 0..3, x % Block[l + 1] = 0
  PROVE  x % Block[l] = 0 /\ IndexOf(x, l) = 0
<1> DEFINE n == Block[l]
           m == Block[l + 1]
           q == Q(x, l + 1)
<1>1. n \in Nat /\ n > 0 /\ LEVEL \in Nat /\ LEVEL >= 2 /\ m = LEVEL * n
  BY BlockAt
<1>2. q \in Nat /\ x = m * q + 0
  <2>1. l + 1 \in 0..4
    BY BlockAt
  <2> QED
    BY <2>1, QHas
<1> HIDE DEF q, m
<1>3. LEVEL * q \in Nat /\ m * q = n * (LEVEL * q)
  <2>1. (LEVEL * n) * q = n * (LEVEL * q)
    BY <1>1, <1>2
  <2> QED
    BY <1>1, <1>2, <2>1
<1>4. x = n * (LEVEL * q) + 0
  BY <1>2, <1>3
<1>5. Q(x, l) = LEVEL * q /\ x % n = 0
  <2> DEFINE p == LEVEL * q
  <2>1. l \in 0..4 /\ p \in Nat /\ 0 \in Nat /\ 0 < Block[l] /\ x = Block[l] * p + 0
    BY <1>1, <1>3, <1>4
  <2> HIDE DEF p, n
  <2>2. Q(x, l) = p /\ x % Block[l] = 0
    BY <2>1, QIs
  <2> QED
    BY <2>2 DEF p, n
<1>6. (LEVEL * q + 0) % LEVEL = 0
  BY <1>1, <1>2, DivIs
<1>7. LEVEL * q + 0 = LEVEL * q
  BY <1>3
<1> QED
  BY <1>5, <1>6, <1>7 DEF IndexOf, Q

-----------------------------------------------------------------------------
(* The place of a node.                                                    *)

LEMMA QUps ==
  ASSUME NEW x \in Nat, NEW y \in Nat
  PROVE  /\ Q(x, 0) = Q(y, 0) => Q(x, 1) = Q(y, 1)
         /\ Q(x, 1) = Q(y, 1) => Q(x, 2) = Q(y, 2)
         /\ Q(x, 2) = Q(y, 2) => Q(x, 3) = Q(y, 3)
<1>1. \A l \in 0..3 : Q(x, l) = Q(y, l) => Q(x, l + 1) = Q(y, l + 1)
  BY QUp
<1>2. 0 \in 0..3 /\ 1 \in 0..3 /\ 2 \in 0..3 /\ 0 + 1 = 1 /\ 1 + 1 = 2 /\ 2 + 1 = 3
  OBVIOUS
<1> QED
  BY <1>1, <1>2

\* The level of a node is the one where the blocks of the two times part.
Part(x, y, l) ==
  /\ l \in Level /\ Q(x, l) # Q(y, l)
  /\ l # 3 => l + 1 \in 0..3 /\ Q(x, l + 1) = Q(y, l + 1)

LEMMA LevelIs ==
  ASSUME NEW x \in Nat, NEW y \in Nat, NEW l, Part(x, y, l)
  PROVE  LevelOf(x, y) = l
<1> DEFINE fits == {k \in 0..2 : Q(x, k + 1) = Q(y, k + 1)}
<1>1. LevelOf(x, y) = IF fits = {} THEN 3 ELSE CHOOSE k \in fits : \A m \in fits : k <= m
  BY DEF LevelOf, Q
<1>2. l = 0 \/ l = 1 \/ l = 2 \/ l = 3
  BY DEF Part, Level
<1>3. \A k \in 0..2 : k < l => k \notin fits
  <2> SUFFICES ASSUME NEW k \in 0..2, k < l, k \in fits PROVE FALSE
    OBVIOUS
  <2>1. Q(x, k + 1) = Q(y, k + 1) /\ Q(x, l) # Q(y, l)
    BY DEF Part
  <2>2. k = 0 \/ k = 1 \/ k = 2
    OBVIOUS
  <2>3. 0 + 1 = 1 /\ 1 + 1 = 2 /\ 2 + 1 = 3
    OBVIOUS
  <2> HIDE DEF fits
  <2> QED
    BY <1>2, <2>1, <2>2, <2>3, QUps
<1>4. CASE l = 3
  <2>1. fits = {}
    BY <1>3, <1>4
  <2> QED
    BY <1>1, <1>4, <2>1
<1>5. CASE l # 3
  <2>1. l \in 0..2 /\ Q(x, l + 1) = Q(y, l + 1)
    BY <1>2, <1>5 DEF Part
  <2>2. l \in fits
    BY <2>1
  <2>3. \A m \in fits : m \in 0..2 /\ l <= m
    BY <1>3, <2>1
  <2> DEFINE c == CHOOSE k \in fits : \A m \in fits : k <= m
  <2>4. LevelOf(x, y) = c
    BY <1>1, <2>2
  <2> HIDE DEF fits
  <2>5. c \in fits /\ \A m \in fits : c <= m
    BY <2>2, <2>3
  <2>6. c \in 0..2 /\ l <= c /\ c <= l
    BY <2>2, <2>3, <2>5
  <2> HIDE DEF c
  <2> QED
    BY <2>1, <2>4, <2>6
<1> QED
  BY <1>4, <1>5

LEMMA LevelHas ==
  ASSUME NEW x \in Nat, NEW y \in Nat, Q(x, 0) # Q(y, 0)
  PROVE  Part(x, y, LevelOf(x, y))
<1>1. 0 + 1 = 1 /\ 1 + 1 = 2 /\ 2 + 1 = 3
  OBVIOUS
<1>2. \E l \in Level : Part(x, y, l)
  <2>1. CASE Q(x, 3) # Q(y, 3)
    BY <2>1 DEF Part, Level
  <2>2. CASE Q(x, 3) = Q(y, 3) /\ Q(x, 2) # Q(y, 2)
    <3>1. Part(x, y, 2)
      BY <1>1, <2>2 DEF Part, Level
    <3> QED
      BY <3>1 DEF Level
  <2>3. CASE Q(x, 2) = Q(y, 2) /\ Q(x, 1) # Q(y, 1)
    <3>1. Part(x, y, 1)
      BY <1>1, <2>3 DEF Part, Level
    <3> QED
      BY <3>1 DEF Level
  <2>4. CASE Q(x, 1) = Q(y, 1)
    <3>1. Part(x, y, 0)
      BY <1>1, <2>4 DEF Part, Level
    <3> QED
      BY <3>1 DEF Level
  <2> QED
    BY <2>1, <2>2, <2>3, <2>4
<1> QED
  BY <1>2, LevelIs

LEMMA PlaceNear ==
  ASSUME NEW e \in Nat, NEW now \in Nat, Q(e, 0) = Q(now, 0)
  PROVE  Place(e, now) = <<-1, e % NEAR>>
BY Blocks DEF Place, Q

LEMMA PlaceLevel ==
  ASSUME NEW e \in Nat, NEW now \in Nat, NEW l, Part(e, now, l)
  PROVE  Place(e, now) = <<l, IndexOf(e, l)>> /\ Q(e, 0) # Q(now, 0)
<1>1. LevelOf(e, now) = l
  BY LevelIs
<1>2. l = 0 \/ l = 1 \/ l = 2 \/ l = 3
  BY DEF Part, Level
<1>3. Q(e, l) # Q(now, l)
  BY DEF Part
<1>4. Q(e, 0) # Q(now, 0)
  BY <1>2, <1>3, QUps
<1> QED
  BY <1>1, <1>4, Blocks DEF Place, Q

\* Which of the two a place is.
LEMMA PlaceCases ==
  ASSUME NEW e \in Nat, NEW now \in Nat
  PROVE  /\ Place(e, now) \in Places
         /\ \/ Q(e, 0) = Q(now, 0) /\ Place(e, now) = <<-1, e % NEAR>>
            \/ \E l \in Level :
                 Part(e, now, l) /\ Place(e, now) = <<l, IndexOf(e, l)>>
<1>1. CASE Q(e, 0) = Q(now, 0)
  <2>1. Place(e, now) = <<-1, e % NEAR>>
    BY <1>1, PlaceNear
  <2>2. NEAR \in Nat /\ NEAR > 0
    BY Blocks
  <2>3. e % NEAR \in 0..(NEAR - 1)
    BY <2>2
  <2> QED
    BY <1>1, <2>1, <2>3 DEF Places
<1>2. CASE Q(e, 0) # Q(now, 0)
  <2> DEFINE l == LevelOf(e, now)
  <2>1. Part(e, now, l)
    BY <1>2, LevelHas
  <2> HIDE DEF l
  <2>2. Place(e, now) = <<l, IndexOf(e, l)>>
    BY <2>1, PlaceLevel
  <2>3. l \in Level /\ l \in 0..3
    BY <2>1 DEF Part, Level
  <2>4. IndexOf(e, l) \in 0..(LEVEL - 1)
    BY <2>3, QNest
  <2> QED
    BY <2>1, <2>2, <2>3, <2>4 DEF Places
<1> QED
  BY <1>1, <1>2

-----------------------------------------------------------------------------
(* The next tick: which list is moved, and why no other has to be.         *)

Ends(ct) == {l \in Level : ct % Block[l] = 0 /\ IndexOf(ct, l) # 0}

\* The list that timer_shift moves.
Moved(ct) ==
  IF ct = 0 THEN <<3, 0>>
  ELSE LET l == CHOOSE x \in Ends(ct) : \A y \in Ends(ct) : x <= y
       IN  <<l, IndexOf(ct, l)>>

LEMMA EndIs ==
  ASSUME NEW ct \in Nat, ct # 0, NEW l \in Level, ct % Block[l] = 0,
         IndexOf(ct, l) # 0
  PROVE  l \in Ends(ct) /\ Moved(ct) = <<l, IndexOf(ct, l)>>
<1>1. l \in Ends(ct)
  BY DEF Ends
<1>2. /\ ct % Block[3] = 0 => ct % Block[2] = 0 /\ IndexOf(ct, 2) = 0
      /\ ct % Block[2] = 0 => ct % Block[1] = 0 /\ IndexOf(ct, 1) = 0
      /\ ct % Block[1] = 0 => ct % Block[0] = 0 /\ IndexOf(ct, 0) = 0
  <2>1. \A k \in 0..3 :
          ct % Block[k + 1] = 0 => ct % Block[k] = 0 /\ IndexOf(ct, k) = 0
    BY QZero
  <2>2. /\ 0 \in 0..3 /\ 1 \in 0..3 /\ 2 \in 0..3
        /\ 0 + 1 = 1 /\ 1 + 1 = 2 /\ 2 + 1 = 3
    OBVIOUS
  <2> QED
    BY <2>1, <2>2
<1>3. ASSUME NEW k \in Ends(ct) PROVE l <= k
  <2>1. k \in Level /\ IndexOf(ct, k) # 0
    BY DEF Ends
  <2>2. k = 0 \/ k = 1 \/ k = 2 \/ k = 3
    BY <2>1 DEF Level
  <2>3. l = 0 \/ l = 1 \/ l = 2 \/ l = 3
    BY DEF Level
  <2> QED
    BY <1>2, <2>1, <2>2, <2>3
<1> DEFINE c == CHOOSE x \in Ends(ct) : \A y \in Ends(ct) : x <= y
<1>4. c \in Ends(ct) /\ \A y \in Ends(ct) : c <= y
  BY <1>1, <1>3
<1>5. c <= l /\ l <= c /\ c \in Level
  BY <1>1, <1>3, <1>4 DEF Ends
<1>6. Moved(ct) = <<c, IndexOf(ct, c)>>
  BY DEF Moved
<1> HIDE DEF c
<1>7. c = l
  BY <1>5 DEF Level
<1> QED
  BY <1>1, <1>6, <1>7

LEMMA AheadIs ==
  ASSUME NEW e, NEW now
  PROVE  Ahead(e, now) <=> (Q(e, 3) = Q(now, 3) => e >= now)
BY DEF Ahead, Q

\* A node stays in its place, or it is in the list that is moved.
LEMMA TickOn ==
  ASSUME NEW e \in Time, NEW now \in Time, now + 1 \in Time, e # now, Ahead(e, now)
  PROVE  /\ Ahead(e, now + 1)
         /\ \/ Place(e, now + 1) = Place(e, now)
            \/ Ends(now + 1) # {} /\ Place(e, now) = Moved(now + 1)
<1> DEFINE ct == now + 1
<1>1. /\ e \in Nat /\ now \in Nat /\ ct \in Nat /\ ct # 0
      /\ IndexOf(e, 3) = Q(e, 3) /\ IndexOf(ct, 3) = Q(ct, 3)
      /\ 3 \in 0..4 /\ 3 \in Level
  BY QTop DEF Level
<1>2. \A l \in 0..4 : \/ ct % Block[l] = 0 /\ Q(ct, l) = Q(now, l) + 1
                      \/ ct % Block[l] # 0 /\ Q(ct, l) = Q(now, l)
  BY <1>1, QStep
<1>a. now < ct /\ (e > now => ct <= e)
  BY <1>1
<1> HIDE DEF ct
<1>3. CASE Q(e, 3) # Q(now, 3)
  <2>1. Place(e, now) = <<3, Q(e, 3)>>
    BY <1>1, <1>3, PlaceLevel DEF Part
  <2>2. CASE Q(e, 3) # Q(ct, 3)
    <3>1. Place(e, ct) = <<3, Q(e, 3)>>
      BY <1>1, <2>2, PlaceLevel DEF Part
    <3> QED
      BY <2>1, <2>2, <3>1, AheadIs DEF ct
  <2>3. CASE Q(e, 3) = Q(ct, 3)
    <3>1. ct % Block[3] = 0 /\ Q(ct, 3) = Q(now, 3) + 1
      BY <1>1, <1>2, <1>3, <2>3
    <3>2. Q(now, 3) \in Nat
      BY <1>1, QHas
    <3>3. IndexOf(ct, 3) # 0
      BY <1>1, <3>1, <3>2
    <3>4. 3 \in Ends(ct) /\ Moved(ct) = <<3, Q(e, 3)>>
      BY <1>1, <2>3, <3>1, <3>3, EndIs
    <3>5. e >= ct
      <4>1. /\ ct = Block[3] * Q(ct, 3) + (ct % Block[3])
            /\ Block[3] * Q(ct, 3) \in Nat
        BY <1>1, QHas
      <4>2. /\ e = Block[3] * Q(e, 3) + (e % Block[3])
            /\ e % Block[3] \in Nat
        BY <1>1, QHas
      <4> DEFINE b == Block[3] * Q(ct, 3)
                 r == e % Block[3]
      <4>3. ct = b + 0 /\ b \in Nat /\ e = b + r /\ r \in Nat
        BY <2>3, <3>1, <4>1, <4>2
      <4> HIDE DEF b, r
      <4> QED
        BY <4>3
    <3> QED
      BY <2>1, <3>4, <3>5, AheadIs DEF ct
  <2> QED
    BY <2>2, <2>3
<1>4. CASE Q(e, 3) = Q(now, 3)
  <2>1. e > now /\ ct <= e
    BY <1>1, <1>4, <1>a, AheadIs
  <2>2. Ahead(e, ct)
    BY <2>1, AheadIs
  <2>3. \A l \in 0..4 : Q(now, l) = Q(e, l) => Q(ct, l) = Q(e, l)
    BY <1>1, <1>a, <2>1, QBetween
  <2>4. CASE Q(e, 0) = Q(now, 0)
    <3>1. Q(e, 0) = Q(ct, 0)
      BY <2>3, <2>4
    <3> QED
      BY <1>1, <2>2, <2>4, <3>1, PlaceNear DEF ct
  <2>5. CASE Q(e, 0) # Q(now, 0)
    <3>1. PICK l : Part(e, now, l)
      BY <1>1, <2>5, LevelHas
    <3>2. l \in 0..2 /\ l \in Level /\ l # 3 /\ Q(e, l) # Q(now, l)
      BY <1>4, <3>1 DEF Part, Level
    <3>3. l + 1 \in 0..3 /\ Q(e, l + 1) = Q(now, l + 1) /\ l \in 0..3 /\ l + 1 \in 0..4 /\ l \in 0..4
      BY <3>1, <3>2 DEF Part
    <3>4. Q(e, l + 1) = Q(ct, l + 1)
      BY <2>3, <3>3
    <3>5. Place(e, now) = <<l, IndexOf(e, l)>>
      BY <1>1, <3>1, PlaceLevel
    <3>6. CASE Q(e, l) # Q(ct, l)
      <4>1. Part(e, ct, l)
        BY <3>2, <3>3, <3>4, <3>6 DEF Part
      <4>2. Place(e, ct) = <<l, IndexOf(e, l)>>
        BY <1>1, <4>1, PlaceLevel
      <4> QED
        BY <2>2, <3>5, <4>2 DEF ct
    <3>7. CASE Q(e, l) = Q(ct, l)
      <4>1. ct % Block[l] = 0 /\ Q(ct, l) = Q(now, l) + 1
        BY <1>2, <3>2, <3>3, <3>7
      <4>2. IndexOf(e, l) = IndexOf(ct, l)
        BY <1>1, <3>3, <3>7, QUp
      <4>3. IndexOf(ct, l) # 0
        <5>1. /\ Q(ct, l) = LEVEL * Q(ct, l + 1) + IndexOf(ct, l)
              /\ Q(now, l) = LEVEL * Q(now, l + 1) + IndexOf(now, l)
              /\ IndexOf(ct, l) \in 0..(LEVEL - 1) /\ IndexOf(now, l) \in 0..(LEVEL - 1)
          BY <1>1, <3>3, QNest
        <5>2. Q(ct, l + 1) = Q(now, l + 1) /\ Q(now, l + 1) \in Nat
          BY <1>1, <3>3, <3>4, QHas
        <5>3. LEVEL \in Nat
          BY Blocks
        <5> DEFINE c == LEVEL * Q(now, l + 1)
        <5>4. c \in Nat
          BY <5>2, <5>3
        <5>5. Q(ct, l) = c + IndexOf(ct, l) /\ Q(now, l) = c + IndexOf(now, l)
          BY <5>1, <5>2
        <5> HIDE DEF c
        <5> QED
          BY <4>1, <5>1, <5>3, <5>4, <5>5
      <4>4. l \in Ends(ct) /\ Moved(ct) = <<l, IndexOf(e, l)>>
        BY <1>1, <3>2, <4>1, <4>2, <4>3, EndIs
      <4> QED
        BY <2>2, <3>5, <4>4 DEF ct
    <3> QED
      BY <3>6, <3>7
  <2> QED
    BY <2>4, <2>5
<1> QED
  BY <1>3, <1>4

LEMMA TickWrap ==
  ASSUME NEW e \in Time, NEW now \in Time, now + 1 = Range32, e # now, Ahead(e, now)
  PROVE  /\ Ahead(e, 0)
         /\ Place(e, 0) = Place(e, now) \/ Place(e, now) = Moved(0)
<1>1. /\ e \in Nat /\ now \in Nat /\ IndexOf(e, 3) = Q(e, 3)
      /\ 3 \in 0..4 /\ 3 \in Level /\ e <= now
  BY QTop, Blocks DEF Level, Time
<1>2. Q(e, 3) # Q(now, 3)
  BY <1>1, AheadIs
<1>3. Place(e, now) = <<3, Q(e, 3)>>
  BY <1>1, <1>2, PlaceLevel DEF Part
<1>4. Q(0, 3) = 0
  <2>1. 0 \in Nat /\ 0 < Block[3] /\ 0 = Block[3] * 0 + 0
    BY Blocks
  <2> QED
    BY <2>1, QIs
<1>5. Ahead(e, 0)
  BY <1>1, AheadIs
<1>6. CASE Q(e, 3) # 0
  <2>1. Part(e, 0, 3)
    BY <1>1, <1>4, <1>6 DEF Part
  <2>2. Place(e, 0) = <<3, Q(e, 3)>>
    BY <1>1, <2>1, PlaceLevel
  <2> QED
    BY <1>3, <1>5, <2>2
<1>7. CASE Q(e, 3) = 0
  BY <1>3, <1>5, <1>7 DEF Moved
<1> QED
  BY <1>6, <1>7

\* Times are numbers below Range32, and % takes them there.
LEMMA Wraps ==
  ASSUME NEW x \in Int, -Range32 <= x, x < 2 * Range32
  PROVE  /\ Range32 \in Nat /\ Range32 > 0
         /\ 0 <= x /\ x < Range32 => x % Range32 = x
         /\ Range32 <= x => x % Range32 = x - Range32
         /\ x < 0 => x % Range32 = x + Range32
<1> DEFINE R == Range32
<1>1. R \in Nat /\ R > 0
  BY Blocks
<1> HIDE DEF R
<1>2. ASSUME NEW y \in Nat, y < R, NEW q \in Int, x = R * q + y
      PROVE  x % R = y
  BY <1>1, <1>2
<1>3. -R <= x /\ x < 2 * R
  BY DEF R
<1>4. CASE 0 <= x /\ x < R
  <2>1. x \in Nat /\ x = R * 0 + x
    BY <1>1, <1>4
  <2>2. x % R = x
    BY <1>2, <1>4, <2>1
  <2> QED
    BY <1>1, <1>4, <2>2 DEF R
<1>5. CASE R <= x
  <2>1. x - R \in Nat /\ x - R < R /\ x = R * 1 + (x - R)
    BY <1>1, <1>3, <1>5
  <2>2. x % R = x - R
    BY <1>2, <2>1
  <2> QED
    BY <1>1, <1>5, <2>2 DEF R
<1>6. CASE x < 0
  <2>1. x + R \in Nat /\ x + R < R /\ x = R * (-1) + (x + R)
    BY <1>1, <1>3, <1>6
  <2>2. x % R = x + R
    BY <1>2, <2>1
  <2> QED
    BY <1>1, <1>6, <2>2 DEF R
<1> QED
  BY <1>1, <1>4, <1>5, <1>6 DEF R

\* The next time, and what the list to move is.
LEMMA TickPlace ==
  ASSUME NEW e \in Time, NEW now \in Time, e # now, Ahead(e, now),
         NEW ct, ct = (now + 1) % Range32
  PROVE  /\ ct \in Time /\ Ahead(e, ct)
         /\ \/ Place(e, ct) = Place(e, now)
            \/ (ct = 0 \/ Ends(ct) # {}) /\ Place(e, now) = Moved(ct)
<1>1. Range32 \in Nat /\ Range32 > 0 /\ now \in Nat /\ now + 1 <= Range32
  BY Blocks DEF Time
<1>2. CASE now + 1 = Range32
  <2>1. ct = 0
    BY <1>1, <1>2, Wraps
  <2> QED
    BY <1>1, <1>2, <2>1, TickWrap DEF Time
<1>3. CASE now + 1 # Range32
  <2>1. ct = now + 1 /\ ct \in Time
    BY <1>1, <1>3, Wraps DEF Time
  <2> QED
    BY <2>1, TickOn
<1> QED
  BY <1>2, <1>3

\* The countdown of a node, one tick later.
LEMMA TickLeft ==
  ASSUME NEW e \in Time, NEW now \in Time, e # now,
         NEW ct, ct = (now + 1) % Range32
  PROVE  (e - ct) % Range32 = ((e - now) % Range32) - 1 /\ (e - now) % Range32 # 0
<1>1. /\ Range32 \in Nat /\ Range32 > 0 /\ now \in Nat /\ e \in Nat
      /\ now < Range32 /\ e < Range32
  BY Blocks DEF Time
<1>2. ct = IF now + 1 = Range32 THEN 0 ELSE now + 1
  BY <1>1, Wraps
<1>3. (e - now) % Range32 = IF now < e THEN e - now ELSE e - now + Range32
  BY <1>1, Wraps
<1>4. (e - ct) % Range32 = IF ct <= e THEN e - ct ELSE e - ct + Range32
  BY <1>1, <1>2, Wraps
<1> QED
  BY <1>1, <1>2, <1>3, <1>4

\* What is set is ahead of the clock, by its delay.
LEMMA SetAhead ==
  ASSUME NEW now \in Time, NEW d \in 1..MaxDelay,
         NEW e, e = (now + d) % Range32
  PROVE  /\ e \in Time /\ e # now /\ Ahead(e, now)
         /\ (e - now) % Range32 = d
<1>0. /\ Range32 = LEVEL * Block[3] /\ LEVEL \in Nat /\ LEVEL >= 2
      /\ Block[3] \in Nat
  BY Blocks
<1>1. Range32 \in Nat /\ Range32 > 0 /\ now \in Nat /\ now < Range32
  BY Blocks DEF Time
<1>2. d \in Nat /\ d > 0 /\ 2 * d < Range32
  BY <1>1 DEF MaxDelay
<1>3. e = IF now + d < Range32 THEN now + d ELSE now + d - Range32
  BY <1>1, <1>2, Wraps
<1>4. e \in Nat /\ e < Range32 /\ e # now /\ e \in Time
  BY <1>1, <1>2, <1>3 DEF Time
<1>5. (e - now) % Range32 = IF now <= e THEN e - now ELSE e - now + Range32
  BY <1>1, <1>4, Wraps
<1>6. (e - now) % Range32 = d
  BY <1>1, <1>2, <1>3, <1>5
<1>7. Ahead(e, now)
  <2> SUFFICES ASSUME Q(e, 3) = Q(now, 3), e < now PROVE FALSE
    BY <1>1, <1>4, AheadIs
  <2>1. now - e = Range32 - d
    BY <1>1, <1>2, <1>3
  <2> DEFINE b == Block[3] * Q(e, 3)
             r == e % Block[3]
             s == now % Block[3]
             B == Block[3]
  <2>2. e = b + r /\ now = b + s /\ r \in Nat /\ s \in Nat /\ r < B /\ s < B /\ b \in Nat
    <3>1. 3 \in 0..4
      OBVIOUS
    <3> QED
      BY <1>1, <1>4, <3>1, QHas
  <2> HIDE DEF b, r, s
  <2>3. now - e < B
    BY <1>0, <2>2
  <2>4. 2 * B <= Range32
    <3>1. PICK k \in Nat : LEVEL = 2 + k
      <4>1. LEVEL - 2 \in Nat /\ LEVEL = 2 + (LEVEL - 2)
        BY <1>0
      <4> QED
        BY <4>1
    <3>2. Range32 = 2 * B + k * B
      BY <1>0, <3>1
    <3>3. k * B \in Nat
      BY <1>0, <3>1
    <3> QED
      BY <1>0, <3>2, <3>3
  <2> HIDE DEF B
  <2>5. B \in Nat
    BY <1>0 DEF B
  <2> QED
    BY <1>1, <1>2, <1>4, <2>1, <2>3, <2>4, <2>5
<1> QED
  BY <1>4, <1>6, <1>7

-----------------------------------------------------------------------------
(* add_node and move_list.                                                 *)

WheelType ==
  [near : [0..(NEAR - 1) -> Seq(Timer)], t : [Level -> [0..(LEVEL - 1) -> Seq(Timer)]]]

LEMMA AtType ==
  ASSUME NEW w \in WheelType, NEW p \in Places
  PROVE  At(w, p) \in Seq(Timer)
<1>1. CASE p \in {-1} \X (0..(NEAR - 1))
  BY <1>1 DEF At, WheelType
<1>2. CASE p \in Level \X (0..(LEVEL - 1))
  <2>1. p[1] \in Level /\ p[1] # -1 /\ p[2] \in 0..(LEVEL - 1)
    BY <1>2 DEF Level
  <2> QED
    BY <2>1 DEF At, WheelType
<1> QED
  BY <1>1, <1>2 DEF Places

LEMMA PutNear ==
  ASSUME NEW k \in 0..(NEAR - 1), NEW q, q = <<-1, k>>,
         NEW s, NEW w, NEW v, v.near[k] = s, v.t = w.t,
         \A i \in 0..(NEAR - 1) : i # k => v.near[i] = w.near[i]
  PROVE  /\ At(v, q) = s
         /\ \A p \in Places : p # q => At(v, p) = At(w, p)
<1>1. v.t = w.t
  OBVIOUS
<1>3. At(v, q) = s
  BY <1>1 DEF At
<1>4. ASSUME NEW p \in Places, p # q PROVE At(v, p) = At(w, p)
  <2>1. CASE p \in {-1} \X (0..(NEAR - 1))
    <3>1. p = <<p[1], p[2]>> /\ p[1] = -1 /\ p[2] \in 0..(NEAR - 1)
      BY <2>1
    <3>2. p[2] # k
      BY <1>4, <3>1
    <3>3. v.near[p[2]] = w.near[p[2]]
      BY <3>1, <3>2
    <3> QED
      BY <3>1, <3>3 DEF At
  <2>2. CASE p \in Level \X (0..(LEVEL - 1))
    BY <1>1, <2>2 DEF At, Level
  <2> QED
    BY <1>4, <2>1, <2>2 DEF Places
<1> QED
  BY <1>3, <1>4

LEMMA PutLevel ==
  ASSUME NEW l \in Level, NEW k \in 0..(LEVEL - 1), NEW s, NEW w, NEW v,
         v.t[l][k] = s, v.near = w.near,
         \A h \in Level : \A i \in 0..(LEVEL - 1) :
           h # l \/ i # k => v.t[h][i] = w.t[h][i]
  PROVE  /\ At(v, <<l, k>>) = s
         /\ \A p \in Places : p # <<l, k>> => At(v, p) = At(w, p)
<1>1. v.near = w.near
  OBVIOUS
<1>3. At(v, <<l, k>>) = s
  BY DEF At, Level
<1>4. ASSUME NEW p \in Places, p # <<l, k>> PROVE At(v, p) = At(w, p)
  <2>1. CASE p \in {-1} \X (0..(NEAR - 1))
    BY <1>1, <2>1 DEF At
  <2>2. CASE p \in Level \X (0..(LEVEL - 1))
    <3>1. p = <<p[1], p[2]>> /\ p[1] \in Level /\ p[1] # -1 /\ p[2] \in 0..(LEVEL - 1)
      BY <2>2 DEF Level
    <3>2. p[1] # l \/ p[2] # k
      BY <1>4, <3>1
    <3>3. v.t[p[1]][p[2]] = w.t[p[1]][p[2]]
      BY <3>1, <3>2
    <3> QED
      BY <3>1, <3>3 DEF At
  <2> QED
    BY <1>4, <2>1, <2>2 DEF Places
<1> QED
  BY <1>3, <1>4

LEMMA AddAt ==
  ASSUME NEW w \in WheelType, NEW e \in Time, NEW now \in Time, NEW x \in Timer
  PROVE  LET v == AddNode(w, e, x, now)
             q == Place(e, now)
         IN  /\ v \in WheelType /\ q \in Places
             /\ At(v, q) = Append(At(w, q), x)
             /\ \A p \in Places : p # q => At(v, p) = At(w, p)
<1> DEFINE v == AddNode(w, e, x, now)
           q == Place(e, now)
<1>1. e \in Nat /\ now \in Nat
  BY QTop
<1>2. q \in Places
  BY <1>1, PlaceCases
<1>3. At(w, q) \in Seq(Timer)
  BY <1>2, AtType
<1> DEFINE s == Append(At(w, q), x)
<1>4. s \in Seq(Timer)
  BY <1>3
<1> DEFINE Goal == /\ v \in WheelType /\ At(v, q) = s
                   /\ \A p \in Places : p # q => At(v, p) = At(w, p)
<1>5. CASE e \div NEAR = now \div NEAR
  <2> SUFFICES Goal
    BY <1>2
  <2> DEFINE k == e % NEAR
  <2>1. q = <<-1, k>>
    BY <1>5 DEF Place
  <2>2. k \in 0..(NEAR - 1)
    BY <1>1, Blocks
  <2> HIDE DEF k
  <2>3. At(w, q) = w.near[k]
    BY <2>1 DEF At
  <2>4. v = [w EXCEPT !.near[k] = s]
    BY <1>5, <2>3 DEF AddNode, k
  <2> HIDE DEF q, v, s
  <2>5. v \in WheelType
    BY <1>4, <2>2, <2>4 DEF WheelType
  <2>6. /\ v.near[k] = s /\ v.t = w.t
        /\ \A i \in 0..(NEAR - 1) : i # k => v.near[i] = w.near[i]
    BY <2>2, <2>4 DEF WheelType
  <2>7. /\ At(v, q) = s
        /\ \A p \in Places : p # q => At(v, p) = At(w, p)
    BY <2>1, <2>2, <2>6, PutNear
  <2> QED
    BY <2>5, <2>7
<1>6. CASE e \div NEAR # now \div NEAR
  <2> SUFFICES Goal
    BY <1>2
  <2> DEFINE l == LevelOf(e, now)
             k == IndexOf(e, l)
  <2>1. q = <<l, k>>
    BY <1>6 DEF Place
  <2>2. l \in Level /\ k \in 0..(LEVEL - 1)
    <3>1. Q(e, 0) # Q(now, 0)
      BY <1>6, Blocks DEF Q
    <3>2. Part(e, now, l)
      BY <1>1, <3>1, LevelHas
    <3>3. l \in 0..3 /\ l \in Level
      BY <3>2 DEF Part, Level
    <3> QED
      BY <1>1, <3>3, QNest
  <2>3. v = [w EXCEPT !.t[l][k] = Append(@, x)]
    BY <1>6 DEF AddNode
  <2> HIDE DEF l, k
  <2>4. At(w, q) = w.t[l][k]
    BY <2>1, <2>2 DEF At, Level
  <2>5. v = [w EXCEPT !.t[l][k] = s]
    BY <2>3, <2>4
  <2> HIDE DEF q, v, s
  <2>6. v \in WheelType
    BY <1>4, <2>2, <2>5 DEF WheelType
  <2>7. /\ v.t[l][k] = s /\ v.near = w.near
        /\ \A h \in Level : \A i \in 0..(LEVEL - 1) :
             h # l \/ i # k => v.t[h][i] = w.t[h][i]
    BY <2>2, <2>5 DEF WheelType
  <2>8. /\ At(v, <<l, k>>) = s
        /\ \A p \in Places : p # <<l, k>> => At(v, p) = At(w, p)
    BY <2>2, <2>7, PutLevel
  <2> QED
    BY <2>1, <2>6, <2>8
<1> QED
  BY <1>5, <1>6

-----------------------------------------------------------------------------
(* move_list: what the fold over the list computes.                        *)

Relink(u, x, now) == AddNode(u, expire[x], x, now)

\* The function by which FoldLeft adds the nodes of s at the places D.
IsFold(f, s, b, now, D) ==
  f = [c \in SUBSET D |->
         IF c = {} THEN b ELSE Relink(f[c \ {Max(c)}], s[Max(c)], now)]

\* There is such a function, by induction on the number of nodes.
LEMMA FoldExists ==
  ASSUME NEW s, NEW b, NEW now, NEW n \in Nat
  PROVE  \E f : IsFold(f, s, b, now, 1..n)
<1> DEFINE T == {k \in Nat : ~ \E f : IsFold(f, s, b, now, 1..k)}
<1> SUFFICES T = {}
  OBVIOUS
<1>1. 0 \notin T
  <2> DEFINE f == [c \in SUBSET (1..0) |-> b]
  <2>1. SUBSET (1..0) = {{}}
    OBVIOUS
  <2>2. IsFold(f, s, b, now, 1..0)
    BY <2>1 DEF IsFold
  <2> QED
    BY <2>2
<1>2. ASSUME NEW k \in Nat, k \notin T PROVE k + 1 \notin T
  <2>1. PICK f : IsFold(f, s, b, now, 1..k)
    BY <1>2
  <2> DEFINE g == [c \in SUBSET (1..(k+1)) |->
                     IF k + 1 \in c THEN Relink(f[c \ {k+1}], s[k+1], now) ELSE f[c]]
  <2>2. ASSUME NEW c \in SUBSET (1..(k+1)), k + 1 \in c PROVE Max(c) = k + 1
    <3>1. \A y \in c : k + 1 >= y /\ y \in Int
      OBVIOUS
    <3>2. \A x \in c : (\A y \in c : x >= y) => x = k + 1
      BY <2>2, <3>1
    <3> QED
      BY <2>2, <3>1, <3>2 DEF Max
  <2>3. ASSUME NEW c \in SUBSET (1..(k+1)), k + 1 \notin c
        PROVE  c \in SUBSET (1..k)
    BY <2>3
  <2>4. ASSUME NEW c \in SUBSET (1..k)
        PROVE  /\ c \in SUBSET (1..(k+1)) /\ k + 1 \notin c
               /\ c \ {Max(c)} \in SUBSET (1..k)
    <3>1. \A x \in 1..k : x \in 1..(k + 1) /\ x # k + 1
      OBVIOUS
    <3>2. \A x \in c \ {Max(c)} : x \in 1..k
      OBVIOUS
    <3> QED
      BY <3>1, <3>2
  <2>5. ASSUME NEW c \in SUBSET (1..k) PROVE g[c] = f[c]
    BY <2>4
  <2>6. ASSUME NEW c \in SUBSET (1..(k+1))
        PROVE  g[c] = IF c = {} THEN b ELSE Relink(g[c \ {Max(c)}], s[Max(c)], now)
    <3>1. CASE k + 1 \in c
      <4>1. c \ {k+1} \in SUBSET (1..k)
        OBVIOUS
      <4> QED
        BY <2>2, <2>5, <3>1, <4>1
    <3>2. CASE k + 1 \notin c
      <4>1. c \in SUBSET (1..k) /\ c \ {Max(c)} \in SUBSET (1..k)
        BY <2>3, <2>4, <3>2
      <4>2. f[c] = IF c = {} THEN b ELSE Relink(f[c \ {Max(c)}], s[Max(c)], now)
        BY <2>1, <4>1 DEF IsFold
      <4> QED
        BY <2>5, <4>1, <4>2
    <3> QED
      BY <3>1, <3>2
  <2>7. IsFold(g, s, b, now, 1..(k + 1))
    BY <2>6 DEF IsFold
  <2> QED
    BY <2>7
<1>3. T \subseteq Nat
  OBVIOUS
<1> HIDE DEF T
<1>4. ASSUME T # {} PROVE FALSE
  <2>1. PICK m \in T : \A j \in T : m <= j
    BY <1>3, <1>4, Least
  <2>2. m # 0 /\ m \in Nat
    BY <1>1, <1>3
  <2>3. m - 1 \in Nat /\ m - 1 \notin T
    BY <2>1, <2>2
  <2>4. (m - 1) + 1 \notin T
    BY <1>2, <2>3
  <2> QED
    BY <2>2, <2>4
<1> QED
  BY <1>4

\* One more node.
LEMMA FoldStep ==
  ASSUME NEW s, NEW b, NEW now, NEW n \in Nat, NEW iter, IsFold(iter, s, b, now, 1..n),
         NEW k \in 1..n
  PROVE  iter[1..k] = Relink(iter[1..(k - 1)], s[k], now)
<1>1. iter = [c \in SUBSET (1..n) |->
             IF c = {} THEN b ELSE Relink(iter[c \ {Max(c)}], s[Max(c)], now)]
  BY DEF IsFold
<1>2. Max(1..k) = k
  <2>1. \A x \in 1..k : (\A y \in 1..k : x >= y) => x = k
    OBVIOUS
  <2>2. k \in 1..k /\ \A y \in 1..k : k >= y
    OBVIOUS
  <2> QED
    BY <2>1, <2>2 DEF Max
<1>3. \A x : x \in 1..k => x \in 1..n
  OBVIOUS
<1>4. k \in 1..k
  OBVIOUS
<1>5. (1..k) \ {k} = 1..(k - 1)
  OBVIOUS
<1>6. 1..k \in SUBSET (1..n) /\ 1..k # {}
  BY <1>3, <1>4
<1> QED
  BY <1>1, <1>2, <1>5, <1>6

\* The wheel before, between and after the nodes of the list that is moved.
LEMMA FoldHasRun ==
  ASSUME NEW s \in Seq(Timer), NEW b, NEW now,
         NEW iter, IsFold(iter, s, b, now, DOMAIN s)
  PROVE  \E g : /\ g[0] = b
                /\ \A n \in 1..Len(s) : g[n] = Relink(g[n - 1], s[n], now)
                /\ iter[DOMAIN s] = g[Len(s)]
<1>1. DOMAIN s = 1..Len(s) /\ Len(s) \in Nat
  OBVIOUS
<1>4. iter[{}] = b
  BY <1>1 DEF IsFold
<1>5. ASSUME NEW n \in 1..Len(s) PROVE iter[1..n] = Relink(iter[1..(n - 1)], s[n], now)
  BY <1>1, FoldStep
<1> DEFINE g == [n \in 0..Len(s) |-> iter[1..n]]
<1>6. g[0] = b
  <2>1. 1..0 = {}
    OBVIOUS
  <2> QED
    BY <1>1, <1>4, <2>1
<1>7. ASSUME NEW n \in 1..Len(s) PROVE g[n] = Relink(g[n - 1], s[n], now)
  <2>1. n - 1 \in 0..Len(s) /\ n \in 0..Len(s)
    BY <1>1
  <2> QED
    BY <1>5, <2>1
<1>8. iter[DOMAIN s] = g[Len(s)]
  BY <1>1
<1> HIDE DEF g
<1> QED
  BY <1>6, <1>7, <1>8

-----------------------------------------------------------------------------
(* A wheel that holds a set of nodes.                                      *)

LEMMA Appended ==
  ASSUME NEW s \in Seq(Timer), NEW x \in Timer, NEW f
  PROVE  /\ ToSet(Append(s, x)) = ToSet(s) \cup {x}
         /\ Sorted(s, f) /\ (\A y \in ToSet(s) : f[y] = f[x] => y < x)
              => Sorted(Append(s, x), f)
<1> DEFINE r == Append(s, x)
<1>1. /\ r \in Seq(Timer) /\ Len(r) = Len(s) + 1 /\ Len(s) \in Nat
      /\ DOMAIN s = 1..Len(s) /\ DOMAIN r = 1..Len(r)
  OBVIOUS
<1>2. r[Len(s) + 1] = x /\ \A i \in 1..Len(s) : r[i] = s[i]
  OBVIOUS
<1> HIDE DEF r
<1>3. \A y : y \in ToSet(r) <=> y \in ToSet(s) \/ y = x
  BY <1>1, <1>2 DEF ToSet
<1>4. ASSUME Sorted(s, f), \A y \in ToSet(s) : f[y] = f[x] => y < x
      PROVE  Sorted(r, f)
  <2> SUFFICES ASSUME NEW i \in 1..(Len(s) + 1), NEW j \in 1..(Len(s) + 1), i < j,
                      f[r[i]] = f[r[j]]
               PROVE  r[i] < r[j]
    BY <1>1 DEF Sorted
  <2>1. i \in 1..Len(s) /\ r[i] = s[i]
    BY <1>1, <1>2
  <2>2. CASE j = Len(s) + 1
    <3>1. s[i] \in ToSet(s)
      BY <1>1, <2>1 DEF ToSet
    <3> QED
      BY <1>2, <1>4, <2>1, <2>2, <3>1
  <2>3. CASE j # Len(s) + 1
    <3>1. j \in 1..Len(s) /\ r[j] = s[j]
      BY <1>1, <1>2, <2>3
    <3> QED
      BY <1>1, <1>4, <2>1, <3>1 DEF Sorted
  <2> QED
    BY <2>2, <2>3
<1> QED
  BY <1>3, <1>4 DEF r

LEMMA NoneIn == \A f : ToSet(<<>>) = {} /\ Sorted(<<>>, f)
BY DEF ToSet, Sorted

\* add_node keeps it, for a node set last of those that expire with it.
LEMMA HoldsAdd ==
  ASSUME NEW w \in WheelType, NEW f, NEW W, NEW now \in Time, Holds(w, f, W, now),
         NEW x \in Timer, f[x] \in Time, Ahead(f[x], now),
         \A y \in W : f[y] = f[x] => y < x
  PROVE  /\ AddNode(w, f[x], x, now) \in WheelType
         /\ Holds(AddNode(w, f[x], x, now), f, W \cup {x}, now)
<1> DEFINE v == AddNode(w, f[x], x, now)
           q == Place(f[x], now)
<1>1. /\ v \in WheelType /\ q \in Places
      /\ At(v, q) = Append(At(w, q), x)
      /\ \A p \in Places : p # q => At(v, p) = At(w, p)
  BY AddAt
<1>2. At(w, q) \in Seq(Timer)
  BY <1>1, AtType
<1> HIDE DEF v
<1>3. ToSet(At(v, q)) = ToSet(At(w, q)) \cup {x}
  BY <1>1, <1>2, Appended
<1>4. Sorted(At(v, q), f)
  <2>1. \A y \in ToSet(At(w, q)) : f[y] = f[x] => y < x
    BY <1>1 DEF Holds
  <2>2. Sorted(At(w, q), f)
    BY <1>1 DEF Holds
  <2> QED
    BY <1>1, <1>2, <2>1, <2>2, Appended
<1>5. ASSUME NEW p \in Places
      PROVE  /\ Sorted(At(v, p), f)
             /\ \A y \in ToSet(At(v, p)) : y \in W \cup {x} /\ Place(f[y], now) = p
  <2>1. CASE p = q
    BY <1>3, <1>4, <2>1 DEF Holds
  <2>2. CASE p # q
    BY <1>1, <2>2 DEF Holds
  <2> QED
    BY <2>1, <2>2
<1>6. ASSUME NEW y \in W \cup {x}
      PROVE  /\ f[y] \in Time /\ Ahead(f[y], now)
             /\ y \in ToSet(At(v, Place(f[y], now)))
  <2>1. CASE y = x
    BY <1>3, <2>1
  <2>2. CASE y \in W
    <3>1. f[y] \in Time /\ Ahead(f[y], now) /\ y \in ToSet(At(w, Place(f[y], now)))
      BY <2>2 DEF Holds
    <3>2. Place(f[y], now) \in Places
      BY <3>1, PlaceCases, QTop
    <3> QED
      BY <1>1, <1>3, <3>1, <3>2
  <2> QED
    BY <2>1, <2>2
<1> QED
  BY <1>1, <1>5, <1>6 DEF Holds, v

LEMMA HoldsSame ==
  ASSUME NEW w, NEW f, NEW g, NEW W, NEW now, Holds(w, f, W, now),
         w \in WheelType, \A x \in W : g[x] = f[x]
  PROVE  Holds(w, g, W, now)
<1>1. ASSUME NEW p \in Places PROVE Sorted(At(w, p), g)
  <2>1. \A i \in DOMAIN At(w, p) : At(w, p)[i] \in W
    BY DEF Holds, ToSet
  <2>2. \A i \in DOMAIN At(w, p) : g[At(w, p)[i]] = f[At(w, p)[i]]
    BY <2>1
  <2>3. Sorted(At(w, p), f)
    BY DEF Holds
  <2> QED
    BY <2>2, <2>3 DEF Sorted
<1> QED
  BY <1>1 DEF Holds


\* v is the wheel w after s, its list of the present, was taken.
TakenOff(w, v, s, now) ==
  /\ v \in WheelType /\ v.t = w.t
  /\ v.near = [w.near EXCEPT ![now % NEAR] = <<>>]
  /\ s = w.near[now % NEAR]

\* timer_execute takes the nodes that expire now.
LEMMA HoldsTake ==
  ASSUME NEW w \in WheelType, NEW f, NEW W, NEW now \in Time, Holds(w, f, W, now),
         NEW v, NEW s, TakenOff(w, v, s, now)
  PROVE  /\ s \in Seq(Timer)
         /\ Holds(v, f, Rest(W, s), now)
         /\ Sorted(s, f)
         /\ \A x \in ToSet(s) : x \in W /\ f[x] = now
         /\ \A x \in W : f[x] = now => x \in ToSet(s)
<1> DEFINE k == now % NEAR
           q == <<-1, k>>
<1>1. /\ now \in Nat /\ k \in 0..(NEAR - 1)
  <2>1. now \in Nat /\ NEAR \in Nat /\ NEAR > 0
    BY QTop, Blocks
  <2> QED
    BY <2>1
<1>0. s = w.near[k]
  BY DEF TakenOff
<1>2. q \in Places /\ At(w, q) = w.near[k]
  BY <1>1 DEF Places, At
<1>3. /\ v.near[k] = <<>> /\ v.t = w.t
      /\ \A i \in 0..(NEAR - 1) : i # k => v.near[i] = w.near[i]
  BY <1>1 DEF TakenOff, WheelType
<1> HIDE DEF q
<1>4. /\ At(v, q) = <<>>
      /\ \A p \in Places : p # q => At(v, p) = At(w, p)
  <2>1. q = <<-1, k>>
    BY DEF q
  <2>2. ASSUME NEW p \in Places, p # q PROVE At(v, p) = At(w, p)
    <3>1. CASE p \in {-1} \X (0..(NEAR - 1))
      <4>1. p = <<p[1], p[2]>> /\ p[1] = -1 /\ p[2] \in 0..(NEAR - 1)
        BY <3>1
      <4>2. p[2] # k
        BY <2>1, <2>2, <4>1
      <4>3. v.near[p[2]] = w.near[p[2]]
        BY <1>3, <4>1, <4>2
      <4> QED
        BY <4>1, <4>3 DEF At
    <3>2. CASE p \in Level \X (0..(LEVEL - 1))
      BY <1>3, <3>2 DEF At, Level
    <3> QED
      BY <2>2, <3>1, <3>2 DEF Places
  <2>3. At(v, q) = <<>>
    BY <1>3, <2>1 DEF At
  <2> QED
    BY <2>2, <2>3
<1>5. s \in Seq(Timer) /\ At(w, q) = s
  BY <1>0, <1>1, <1>2 DEF WheelType
<1>6. Place(now, now) = q
  BY <1>1 DEF Place, q
<1>7. \A x \in ToSet(s) : x \in W /\ f[x] \in Time /\ Place(f[x], now) = q
  BY <1>2, <1>5 DEF Holds
<1>8. ASSUME NEW x \in ToSet(s) PROVE f[x] = now
  <2>1. f[x] \in Nat /\ Place(f[x], now) = q
    BY <1>7, QTop
  <2>2. Q(f[x], 0) = Q(now, 0) /\ f[x] % NEAR = k
    <3>1. ASSUME NEW l \in Level PROVE <<l, IndexOf(f[x], l)>> # q
      BY DEF Level, q
    <3> QED
      BY <1>1, <2>1, <3>1, PlaceCases DEF q
  <2>3. /\ f[x] = NEAR * (f[x] \div NEAR) + k
        /\ now = NEAR * (now \div NEAR) + k
    <3>1. /\ f[x] = NEAR * (f[x] \div NEAR) + (f[x] % NEAR)
          /\ now = NEAR * (now \div NEAR) + (now % NEAR)
      BY <1>1, <2>1, Blocks, DivHas
    <3> QED
      BY <2>2, <3>1
  <2>4. f[x] \div NEAR = now \div NEAR
    BY <2>2, Blocks DEF Q
  <2> QED
    BY <2>3, <2>4
<1>9. \A x \in W : f[x] = now => x \in ToSet(s)
  BY <1>5, <1>6 DEF Holds
<1>10. ASSUME NEW p \in Places
       PROVE  /\ Sorted(At(v, p), f)
              /\ \A x \in ToSet(At(v, p)) : x \in W \ ToSet(s) /\ Place(f[x], now) = p
  <2>1. CASE p = q
    BY <1>4, <2>1, NoneIn
  <2>2. CASE p # q
    BY <1>4, <1>7, <2>2 DEF Holds
  <2> QED
    BY <2>1, <2>2
<1>11. ASSUME NEW x \in W \ ToSet(s)
       PROVE  /\ f[x] \in Time /\ Ahead(f[x], now)
              /\ x \in ToSet(At(v, Place(f[x], now)))
  <2>1. /\ f[x] \in Time /\ Ahead(f[x], now) /\ x \in ToSet(At(w, Place(f[x], now)))
    BY DEF Holds
  <2>2. Place(f[x], now) \in Places /\ Place(f[x], now) # q
    BY <1>1, <1>5, <2>1, PlaceCases, QTop
  <2> QED
    BY <1>4, <2>1, <2>2
<1>12. Holds(v, f, Rest(W, s), now)
  BY <1>10, <1>11 DEF Holds, Rest
<1>13. Sorted(s, f)
  BY <1>2, <1>5 DEF Holds
<1> QED
  BY <1>3, <1>5, <1>7, <1>8, <1>9, <1>12, <1>13


\* move_list keeps the nodes, when all others stay where they are.
LEMMA HoldsMove ==
  ASSUME expire \in [Timer -> Time],
         NEW w \in WheelType, NEW W, W \subseteq Timer,
         NEW now \in Time, NEW ct \in Time, Holds(w, expire, W, now),
         NEW l \in Level, NEW k \in 0..(LEVEL - 1),
         \A x \in W :
           /\ Ahead(expire[x], ct)
           /\ \/ Place(expire[x], ct) = Place(expire[x], now)
              \/ Place(expire[x], now) = <<l, k>>
  PROVE  /\ MoveList(w, l, k, ct) \in WheelType
         /\ Holds(MoveList(w, l, k, ct), expire, W, ct)
<1> DEFINE s == w.t[l][k]
           b == [w EXCEPT !.t[l][k] = <<>>]
           q == <<l, k>>
           none == <<>>
           In(n) == (W \ ToSet(s)) \cup {s[m] : m \in 1..n}
<1>1. q \in Places /\ At(w, q) = s /\ s \in Seq(Timer)
  <2>1. w.t[l][k] \in Seq(Timer)
    BY DEF WheelType
  <2>2. q \in Places
    BY DEF Places
  <2>3. At(w, q) = w.t[l][k]
    BY DEF At, Level
  <2> QED
    BY <2>1, <2>2, <2>3
<1>2. PICK g : /\ g[0] = b
               /\ \A n \in 1..Len(s) : g[n] = Relink(g[n - 1], s[n], ct)
               /\ MoveList(w, l, k, ct) = g[Len(s)]
  <2> DEFINE iter == CHOOSE f : IsFold(f, s, b, ct, DOMAIN s)
  <2>1. MoveList(w, l, k, ct) = iter[DOMAIN s]
    BY DEF MoveList, FoldLeft, MapThenFoldSet, IsFold, Relink
  <2>2. s \in Seq(Timer)
    BY <1>1
  <2> HIDE DEF b, s
  <2>3. IsFold(iter, s, b, ct, DOMAIN s)
    <3>1. DOMAIN s = 1..Len(s) /\ Len(s) \in Nat
      BY <2>2
    <3>2. \E f : IsFold(f, s, b, ct, 1..Len(s))
      BY <3>1, FoldExists
    <3> QED
      BY <3>1, <3>2
  <2> HIDE DEF iter
  <2>4. \E g : /\ g[0] = b
               /\ \A n \in 1..Len(s) : g[n] = Relink(g[n - 1], s[n], ct)
               /\ iter[DOMAIN s] = g[Len(s)]
    BY <2>2, <2>3, FoldHasRun
  <2> QED
    BY <2>1, <2>4
<1>3. b \in WheelType
  <2>1. none \in Seq(Timer) /\ b = [w EXCEPT !.t[l][k] = none]
    OBVIOUS
  <2> HIDE DEF none, b
  <2> QED
    BY <2>1 DEF WheelType
<1>4. /\ b.t[l][k] = none /\ b.near = w.near
      /\ \A h \in Level : \A i \in 0..(LEVEL - 1) :
           h # l \/ i # k => b.t[h][i] = w.t[h][i]
  BY DEF WheelType
<1>5. q = <<l, k>>
  OBVIOUS
<1> HIDE DEF b, s, q, none
<1>6. /\ At(b, <<l, k>>) = none
      /\ \A p \in Places : p # <<l, k>> => At(b, p) = At(w, p)
  BY <1>4, PutLevel
<1>7. /\ At(b, q) = none
      /\ \A p \in Places : p # q => At(b, p) = At(w, p)
  BY <1>5, <1>6
<1>8. ToSet(s) \subseteq W /\ Sorted(s, expire)
  BY <1>1 DEF Holds
<1>9. \A x \in W : Place(expire[x], now) = q <=> x \in ToSet(s)
  BY <1>1 DEF Holds
<1>10. \A x \in W : Place(expire[x], now) \in Places /\ expire[x] \in Time
  BY PlaceCases, QTop
<1>11. Holds(b, expire, W \ ToSet(s), ct)
  <2>1. ASSUME NEW p \in Places
        PROVE  /\ Sorted(At(b, p), expire)
               /\ \A x \in ToSet(At(b, p)) : x \in W \ ToSet(s) /\ Place(expire[x], ct) = p
    <3>1. CASE p = q
      BY <1>7, <3>1, NoneIn DEF none
    <3>2. CASE p # q
      <4>1. /\ Sorted(At(b, p), expire)
            /\ \A x \in ToSet(At(b, p)) : x \in W /\ Place(expire[x], now) = p
        BY <1>7, <3>2 DEF Holds
      <4> QED
        BY <1>5, <1>9, <3>2, <4>1
    <3> QED
      BY <3>1, <3>2
  <2>2. ASSUME NEW x \in W \ ToSet(s)
        PROVE  /\ expire[x] \in Time /\ Ahead(expire[x], ct)
               /\ x \in ToSet(At(b, Place(expire[x], ct)))
    <3>1. x \in ToSet(At(w, Place(expire[x], now)))
      BY DEF Holds
    <3> QED
      BY <1>5, <1>7, <1>9, <1>10, <3>1
  <2> QED
    BY <2>1, <2>2 DEF Holds
<1>12. Len(s) \in Nat /\ DOMAIN s = 1..Len(s) /\ \A n \in 1..Len(s) : s[n] \in ToSet(s) /\ s[n] \in Timer
  BY <1>1 DEF ToSet
<1> DEFINE Good(n) == g[n] \in WheelType /\ Holds(g[n], expire, In(n), ct)
<1>13. Good(0)
  <2>1. In(0) = W \ ToSet(s)
    OBVIOUS
  <2> QED
    BY <1>2, <1>3, <1>11, <2>1
<1>14. ASSUME NEW n \in 1..Len(s), Good(n - 1) PROVE Good(n)
  <2> DEFINE x == s[n]
             u == g[n - 1]
             V == In(n - 1)
  <2>1. In(n) = V \cup {x}
    <3>1. 1..n = (1..(n - 1)) \cup {n}
      BY <1>12
    <3> QED
      BY <3>1
  <2>2. ASSUME NEW y \in V, expire[y] = expire[x] PROVE y < x
    <3>1. x \in W /\ Place(expire[x], now) = q
      BY <1>8, <1>9, <1>12
    <3>2. CASE y \in W \ ToSet(s)
      BY <1>9, <2>2, <3>1, <3>2
    <3>3. CASE y \in {s[m] : m \in 1..(n - 1)}
      <4>1. PICK m \in 1..(n - 1) : y = s[m]
        BY <3>3
      <4>2. m \in 1..Len(s) /\ m < n
        BY <1>12
      <4> QED
        BY <1>8, <1>12, <2>2, <4>1, <4>2 DEF Sorted
    <3> QED
      BY <3>2, <3>3
  <2>3. x \in Timer /\ x \in W /\ expire[x] \in Time /\ Ahead(expire[x], ct)
    BY <1>8, <1>10, <1>12
  <2>4. u \in WheelType /\ Holds(u, expire, V, ct)
    BY <1>14
  <2>5. g[n] = AddNode(u, expire[x], x, ct)
    BY <1>2 DEF Relink
  <2> HIDE DEF u, x, V, In
  <2>6. g[n] \in WheelType /\ Holds(g[n], expire, V \cup {x}, ct)
    <3>1. /\ AddNode(u, expire[x], x, ct) \in WheelType
          /\ Holds(AddNode(u, expire[x], x, ct), expire, V \cup {x}, ct)
      BY <2>2, <2>3, <2>4, HoldsAdd
    <3> QED
      BY <2>5, <3>1
  <2> QED
    BY <2>1, <2>6
<1> HIDE DEF Good
<1>15. Good(Len(s))
  <2> DEFINE T == {n \in 0..Len(s) : ~ Good(n)}
  <2> SUFFICES ASSUME T # {} PROVE FALSE
    BY <1>12
  <2>1. T \subseteq Nat
    BY <1>12
  <2>2. PICK n \in T : \A m \in T : n <= m
    <3> HIDE DEF T
    <3> QED
      BY <2>1, Least
  <2>3. n # 0 /\ n \in 0..Len(s) /\ ~ Good(n)
    BY <1>13
  <2>4. n \in 1..Len(s) /\ n - 1 \in 0..Len(s) /\ n - 1 \notin T
    BY <1>12, <2>2, <2>3
  <2>5. Good(n - 1)
    BY <2>4
  <2> QED
    BY <1>14, <2>3, <2>4, <2>5
<1>16. In(Len(s)) = W
  <2>1. ToSet(s) = {s[m] : m \in 1..Len(s)}
    BY <1>12 DEF ToSet
  <2> QED
    BY <1>8, <2>1
<1> QED
  BY <1>2, <1>15, <1>16 DEF Good


\* timer_shift keeps the nodes, when none of them expires at the old time.
LEMMA HoldsShift ==
  ASSUME TypeOK, NEW W, W \subseteq Timer,
         Holds(Wheel, expire, W, time), \A x \in W : expire[x] # time,
         NEW ct, ct = (time + 1) % Range32
  PROVE  /\ ct \in Time /\ Shifted(ct) \in WheelType
         /\ Holds(Shifted(ct), expire, W, ct)
<1>1. expire \in [Timer -> Time] /\ time \in Time /\ Wheel \in WheelType
  BY DEF TypeOK, Wheel, WheelType
<1>2. ct \in Time
  <2>1. Range32 \in Nat /\ Range32 > 0 /\ time \in Nat
    BY <1>1, QTop, Blocks
  <2>2. (time + 1) % Range32 \in 0..(Range32 - 1)
    BY <2>1
  <2> QED
    BY <2>2 DEF Time
<1>3. ASSUME NEW x \in W
      PROVE  /\ Ahead(expire[x], ct)
             /\ \/ Place(expire[x], ct) = Place(expire[x], time)
                \/ (ct = 0 \/ Ends(ct) # {}) /\ Place(expire[x], time) = Moved(ct)
  <2>1. expire[x] \in Time /\ expire[x] # time /\ Ahead(expire[x], time)
    BY DEF Holds
  <2> QED
    BY <1>1, <2>1, TickPlace
<1>4. CASE ct = 0 \/ Ends(ct) # {}
  <2>1. PICK l \in Level, k \in 0..(LEVEL - 1) :
          Moved(ct) = <<l, k>> /\ Shifted(ct) = MoveList(Wheel, l, k, ct)
    <3>1. CASE ct = 0
      <4>1. 3 \in Level /\ 0 \in 0..(LEVEL - 1)
        BY Blocks DEF Level
      <4>2. Moved(ct) = <<3, 0>> /\ Shifted(ct) = MoveList(Wheel, 3, 0, ct)
        BY <3>1 DEF Moved, Shifted
      <4> QED
        BY <4>1, <4>2
    <3>2. CASE ct # 0
      <4> DEFINE l == CHOOSE x \in Ends(ct) : \A y \in Ends(ct) : x <= y
      <4>1. Moved(ct) = <<l, IndexOf(ct, l)>>
        BY <3>2 DEF Moved
      <4>2. Shifted(ct) = MoveList(Wheel, l, IndexOf(ct, l), ct)
        BY <1>4, <3>2 DEF Shifted, Ends
      <4>3. l \in Level
        <5>1. Ends(ct) \subseteq Nat
          BY DEF Ends, Level
        <5>2. \E x \in Ends(ct) : \A y \in Ends(ct) : x <= y
          BY <1>4, <3>2, <5>1, Least
        <5> QED
          BY <5>2 DEF Ends
      <4>4. IndexOf(ct, l) \in 0..(LEVEL - 1)
        BY <1>2, <4>3, QNest, QTop DEF Level
      <4> HIDE DEF l
      <4> QED
        BY <4>1, <4>2, <4>3, <4>4
    <3> QED
      BY <3>1, <3>2
  <2>2. \A x \in W :
          /\ Ahead(expire[x], ct)
          /\ \/ Place(expire[x], ct) = Place(expire[x], time)
             \/ Place(expire[x], time) = <<l, k>>
    BY <1>3, <2>1
  <2>3. /\ MoveList(Wheel, l, k, ct) \in WheelType
        /\ Holds(MoveList(Wheel, l, k, ct), expire, W, ct)
    BY <1>1, <1>2, <2>2, HoldsMove
  <2> QED
    BY <1>2, <2>1, <2>3
<1>5. CASE ct # 0 /\ Ends(ct) = {}
  <2>1. Shifted(ct) = Wheel
    BY <1>5 DEF Shifted, Ends
  <2>2. \A x \in W : Ahead(expire[x], ct) /\ Place(expire[x], ct) = Place(expire[x], time)
    BY <1>3, <1>5
  <2>3. Holds(Wheel, expire, W, ct)
    BY <2>2 DEF Holds
  <2> QED
    BY <1>1, <1>2, <2>1, <2>3
<1> QED
  BY <1>4, <1>5

-----------------------------------------------------------------------------
(* The invariant, over the whole state.                                    *)

\* A wheel without its list of the present.
LEMMA Opened ==
  ASSUME NEW w \in WheelType, NEW now \in Time
  PROVE  TakenOff(w, [near |-> [w.near EXCEPT ![now % NEAR] = <<>>], t |-> w.t],
                  w.near[now % NEAR], now)
<1> DEFINE v == [near |-> [w.near EXCEPT ![now % NEAR] = <<>>], t |-> w.t]
<1>1. /\ w.near \in [0..(NEAR - 1) -> Seq(Timer)]
      /\ w.t \in [Level -> [0..(LEVEL - 1) -> Seq(Timer)]]
  BY DEF WheelType
<1> DEFINE none == <<>>
<1>2. none \in Seq(Timer)
  OBVIOUS
<1>3. v.near = [w.near EXCEPT ![now % NEAR] = none] /\ v.t = w.t
  OBVIOUS
<1> HIDE DEF none
<1>4. v.near \in [0..(NEAR - 1) -> Seq(Timer)]
  BY <1>1, <1>2, <1>3
<1>5. v \in WheelType
  BY <1>1, <1>4 DEF WheelType
<1> QED
  BY <1>3, <1>5 DEF none, TakenOff

LEMMA NearNow ==
  ASSUME NEW w \in WheelType, NEW f, NEW W, NEW now \in Time, Holds(w, f, W, now)
  PROVE  w.near[now % NEAR] = <<>> <=> \A x \in W : f[x] # now
<1> DEFINE v == [near |-> [w.near EXCEPT ![now % NEAR] = <<>>], t |-> w.t]
           s == w.near[now % NEAR]
<1>1. TakenOff(w, v, s, now)
  BY Opened
<1> HIDE DEF v, s
<1>3. /\ s \in Seq(Timer)
      /\ \A x \in ToSet(s) : x \in W /\ f[x] = now
      /\ \A x \in W : f[x] = now => x \in ToSet(s)
  BY <1>1, HoldsTake
<1>4. s = <<>> <=> ToSet(s) = {}
  <2>1. CASE s = <<>>
    BY <2>1, NoneIn
  <2>2. CASE s # <<>>
    <3>1. 1 \in DOMAIN s
      BY <1>3, <2>2
    <3> QED
      BY <2>2, <3>1 DEF ToSet
  <2> QED
    BY <2>1, <2>2
<1> QED
  BY <1>3, <1>4 DEF s

LEMMA InType ==
  ASSUME TypeOK
  PROVE  /\ Wheel \in WheelType /\ Wheel.near = near /\ Wheel.t = t
         /\ Waiting \subseteq Timer /\ time \in Time /\ time % NEAR \in 0..(NEAR - 1)
         /\ expire \in [Timer -> Time] /\ list \in Seq(Timer)
         /\ near[time % NEAR] \in Seq(Timer)
<1>1. /\ Wheel \in WheelType /\ Wheel.near = near /\ Wheel.t = t
      /\ time \in Time /\ expire \in [Timer -> Time] /\ list \in Seq(Timer)
  BY DEF TypeOK, Wheel, WheelType
<1>2. Waiting \subseteq Timer
  BY SkynetTimerAssumption DEF TypeOK, Waiting, Timer
<1>3. time % NEAR \in 0..(NEAR - 1)
  <2>1. time \in Nat /\ NEAR \in Nat /\ NEAR > 0
    BY <1>1, QTop, Blocks
  <2> QED
    BY <2>1
<1> QED
  BY <1>1, <1>2, <1>3 DEF TypeOK

LEMMA TimedEmpty ==
  \A w, f, S, now : Timed(w, f, S, <<>>, now) <=> Holds(w, f, S, now)
<1> TAKE w, f, S, now
<1>1. Rest(S, <<>>) = S
  BY NoneIn DEF Rest
<1> QED
  BY <1>1, NoneIn DEF Timed

\* skynet_timeout.
LEMMA TimedSet ==
  ASSUME NEW w \in WheelType, NEW f, NEW S, NEW li, NEW now \in Time,
         Timed(w, f, S, li, now),
         NEW x \in Timer, \A y \in S : y < x /\ y # x,
         NEW g, \A y \in S : g[y] = f[y],
         g[x] \in Time, g[x] # now, Ahead(g[x], now),
         NEW R, \A y : y \in R <=> y \in S \/ y = x
  PROVE  /\ AddNode(w, g[x], x, now) \in WheelType
         /\ Timed(AddNode(w, g[x], x, now), g, R, li, now)
<1>1. Holds(w, g, Rest(S, li), now)
  BY HoldsSame DEF Timed, Rest
<1>2. \A y \in Rest(S, li) : g[y] = g[x] => y < x
  BY DEF Rest
<1>3. Rest(R, li) = Rest(S, li) \cup {x}
  BY DEF Timed, Rest
<1> DEFINE v == AddNode(w, g[x], x, now)
<1>4. v \in WheelType /\ Holds(v, g, Rest(S, li) \cup {x}, now)
  BY <1>1, <1>2, HoldsAdd
<1> HIDE DEF v
<1>5. Sorted(li, g) /\ \A y \in ToSet(li) : y \in R /\ g[y] = now
  <2>1. \A i \in DOMAIN li : g[li[i]] = f[li[i]]
    BY DEF Timed, ToSet
  <2> QED
    BY <2>1 DEF Timed, Sorted
<1>6. li # <<>> => \A y \in Rest(R, li) : g[y] # now
  BY <1>3 DEF Timed, Rest
<1> QED
  BY <1>3, <1>4, <1>5, <1>6 DEF Timed, v

\* timer_execute, with an empty list before.
LEMMA TimedTake ==
  ASSUME NEW w \in WheelType, NEW f, NEW S, NEW now \in Time, Holds(w, f, S, now),
         NEW v, NEW s, TakenOff(w, v, s, now)
  PROVE  s \in Seq(Timer) /\ v \in WheelType /\ Timed(v, f, S, s, now)
<1>1. /\ s \in Seq(Timer)
      /\ Holds(v, f, Rest(S, s), now)
      /\ Sorted(s, f)
      /\ \A x \in ToSet(s) : x \in S /\ f[x] = now
      /\ \A x \in S : f[x] = now => x \in ToSet(s)
  BY HoldsTake
<1>2. v \in WheelType
  BY DEF TakenOff
<1> QED
  BY <1>1, <1>2 DEF Timed, Rest

\* dispatch_list: the first node of the list is gone.
LEMMA TimedSend ==
  ASSUME NEW w \in WheelType, NEW f, NEW S, NEW li \in Seq(Timer), li # <<>>,
         NEW now, Timed(w, f, S, li, now),
         NEW g, \A y \in S : y # Head(li) => g[y] = f[y],
         NEW R, \A y : y \in R <=> y \in S /\ y # Head(li)
  PROVE  /\ Timed(w, g, R, Tail(li), now)
         /\ \A y \in S : f[y] = now => Head(li) <= y
<1> DEFINE x == Head(li)
           r == Tail(li)
<1>1. /\ Len(li) \in Nat /\ Len(li) > 0 /\ DOMAIN li = 1..Len(li) /\ x = li[1]
      /\ r \in Seq(Timer) /\ DOMAIN r = 1..(Len(li) - 1)
      /\ \A i \in 1..(Len(li) - 1) : r[i] = li[i + 1] /\ i + 1 \in 1..Len(li)
  OBVIOUS
<1>2. \A i \in 1..Len(li) : i # 1 => i - 1 \in 1..(Len(li) - 1) /\ li[i] = r[i - 1]
  BY <1>1
<1> HIDE DEF x, r
<1>3. \A i \in 1..Len(li) : li[i] \in ToSet(li) /\ li[i] \in S /\ f[li[i]] = now /\ li[i] \in Timer
  BY <1>1 DEF Timed, ToSet
<1>4. ASSUME NEW i \in 1..Len(li), i # 1 PROVE x < li[i] /\ li[i] # x
  <2>1. 1 \in 1..Len(li) /\ 1 < i /\ f[li[1]] = f[li[i]]
    BY <1>1, <1>3, <1>4
  <2>2. li[1] < li[i]
    BY <1>1, <2>1 DEF Timed, Sorted
  <2>3. li[1] \in Nat /\ li[i] \in Nat
    BY <1>3, <2>1 DEF Timer
  <2> QED
    BY <1>1, <2>2, <2>3
<1>5. \A y : y \in ToSet(r) <=> y \in ToSet(li) /\ y # x
  <2>1. ASSUME NEW y \in ToSet(r) PROVE y \in ToSet(li) /\ y # x
    <3>1. PICK i \in 1..(Len(li) - 1) : y = r[i]
      BY <1>1 DEF ToSet
    <3>2. i + 1 \in 1..Len(li) /\ i + 1 # 1 /\ y = li[i + 1]
      BY <1>1, <3>1
    <3> QED
      BY <1>3, <1>4, <3>2
  <2>2. ASSUME NEW y \in ToSet(li), y # x PROVE y \in ToSet(r)
    <3>1. PICK i \in 1..Len(li) : y = li[i]
      BY <1>1 DEF ToSet
    <3>2. i - 1 \in 1..(Len(li) - 1) /\ y = r[i - 1]
      BY <1>1, <1>2, <2>2, <3>1
    <3> QED
      BY <1>1, <3>2 DEF ToSet
  <2> QED
    BY <2>1, <2>2
<1>6. x \in ToSet(li)
  BY <1>1, <1>3
<1>7. Rest(R, r) = Rest(S, li)
  BY <1>5, <1>6 DEF Rest, x
<1>8. \A y \in Rest(S, li) : y \in S /\ y # x /\ g[y] = f[y]
  BY <1>6 DEF Rest, x
<1>9. Holds(w, g, Rest(R, r), now)
  BY <1>7, <1>8, HoldsSame DEF Timed
<1>10. \A y \in ToSet(r) : y \in R /\ g[y] = now /\ g[y] = f[y]
  BY <1>5 DEF Timed, x
<1>11. Sorted(r, g)
  <2> SUFFICES ASSUME NEW i \in 1..(Len(li) - 1), NEW j \in 1..(Len(li) - 1), i < j
               PROVE  r[i] < r[j]
    BY <1>1 DEF Sorted
  <2>1. /\ r[i] = li[i + 1] /\ i + 1 \in 1..Len(li)
        /\ r[j] = li[j + 1] /\ j + 1 \in 1..Len(li) /\ i + 1 < j + 1
    BY <1>1
  <2>2. f[li[i + 1]] = f[li[j + 1]]
    BY <1>3, <2>1
  <2> QED
    BY <1>1, <2>1, <2>2 DEF Timed, Sorted
<1>12. r # <<>> => \A y \in Rest(R, r) : g[y] # now
  BY <1>7, <1>8 DEF Timed
<1>13. ASSUME NEW y \in S, f[y] = now PROVE x <= y
  <2>1. y \in ToSet(li)
    BY <1>13 DEF Timed, Rest
  <2>2. PICK i \in 1..Len(li) : y = li[i]
    BY <1>1, <2>1 DEF ToSet
  <2>3. x \in Nat /\ y \in Nat
    BY <1>1, <1>3, <2>2 DEF Timer
  <2> QED
    BY <1>1, <1>4, <2>2, <2>3
<1> QED
  BY <1>9, <1>10, <1>11, <1>12, <1>13 DEF Timed, x, r


-----------------------------------------------------------------------------
(* Every step keeps the invariant.                                         *)

LEMMA WheelIs ==
  ASSUME NEW w \in WheelType
  PROVE  w = [near |-> w.near, t |-> w.t]
BY DEF WheelType

\* The wheel after a step, as one value.
LEMMA WheelNext ==
  ASSUME NEW w \in WheelType, near' = w.near, t' = w.t
  PROVE  /\ Wheel' = w
         /\ near' \in [0..(NEAR - 1) -> Seq(Timer)]
         /\ t' \in [Level -> [0..(LEVEL - 1) -> Seq(Timer)]]
<1>1. w = [near |-> w.near, t |-> w.t]
  BY WheelIs
<1> QED
  BY <1>1 DEF Wheel, WheelType

LEMMA InvInit == Init => TimerInv
<1> SUFFICES ASSUME Init PROVE TimerInv
  OBVIOUS
<1>1. 0 \in Time /\ Range32 \in Nat /\ Range32 > 0
  <2>1. Range32 \in Nat /\ Range32 > 0
    BY Blocks
  <2> QED
    BY <2>1 DEF Time
<1> DEFINE none == <<>>
<1>2. none \in Seq(Timer)
  OBVIOUS
<1>3. /\ near = [k \in 0..(NEAR - 1) |-> none]
      /\ t = [l \in Level |-> [k \in 0..(LEVEL - 1) |-> none]]
      /\ list = none
  BY DEF Init
<1>4. TypeOK
  <2>1. near \in [0..(NEAR - 1) -> Seq(Timer)] /\ list \in Seq(Timer)
    <3> HIDE DEF none
    <3> QED
      BY <1>2, <1>3
  <2>2. t \in [Level -> [0..(LEVEL - 1) -> Seq(Timer)]]
    <3> HIDE DEF none
    <3> QED
      BY <1>2, <1>3
  <2>3. time \in Time /\ expire \in [Timer -> Time]
    BY <1>1 DEF Init
  <2>4. set \in 0..Bound /\ sent \subseteq 1..set /\ todo \in 0..MaxDiff
    BY SkynetTimerAssumption DEF Init
  <2> QED
    BY <2>1, <2>2, <2>3, <2>4 DEF Init, TypeOK
<1>5. Waiting = {}
  BY DEF Init, Waiting
<1>6. ASSUME NEW p \in Places PROVE At(Wheel, p) = none
  <2> HIDE DEF none
  <2>1. CASE p \in {-1} \X (0..(NEAR - 1))
    BY <1>3, <2>1 DEF At, Wheel
  <2>2. CASE p \in Level \X (0..(LEVEL - 1))
    <3>1. p[1] \in Level /\ p[1] # -1 /\ p[2] \in 0..(LEVEL - 1)
      BY <2>2 DEF Level
    <3> QED
      BY <1>3, <3>1 DEF At, Wheel
  <2> QED
    BY <2>1, <2>2 DEF Places
<1>7. Holds(Wheel, expire, Waiting, time)
  BY <1>5, <1>6, NoneIn DEF Holds
<1>8. Timed(Wheel, expire, Waiting, none, time)
  BY <1>7, TimedEmpty
<1> QED
  BY <1>3, <1>4, <1>8 DEF TimerInv, Init

LEMMA TimeoutStep ==
  ASSUME TimerInv, NEW d \in 1..MaxDelay, Timeout(d)
  PROVE  TimerInv'
<1> DEFINE x == set + 1
           e == Expire(d)
           v == AddNode(Wheel, e, x, time)
<1>1. /\ set < Bound /\ set' = x /\ expire' = [expire EXCEPT ![x] = e]
      /\ near' = v.near /\ t' = v.t
      /\ time' = time /\ sent' = sent /\ pc' = pc /\ list' = list /\ todo' = todo
  BY DEF Timeout, threadVars
<1>2. TypeOK /\ Timed(Wheel, expire, Waiting, list, time)
  BY DEF TimerInv
<1>0. pc # "idle" => todo > 0
  BY DEF TimerInv
<1>3. /\ Wheel \in WheelType /\ Waiting \subseteq Timer /\ time \in Time
      /\ expire \in [Timer -> Time]
  BY <1>2, InType
<1>4. /\ set \in 0..Bound /\ sent \subseteq 1..set /\ Bound \in Nat /\ pc \in {"idle", "first", "second"}
      /\ list \in Seq(Timer) /\ todo \in 0..MaxDiff
  BY <1>2, SkynetTimerAssumption DEF TypeOK
<1>5. x \in Timer /\ x \in 0..Bound /\ sent \subseteq 1..x
  <2>1. set \in Nat /\ x \in 1..Bound
    BY <1>1, <1>4
  <2>2. \A y \in 1..set : y \in 1..x
    BY <2>1
  <2> QED
    BY <1>4, <2>1, <2>2 DEF Timer
<1>6. e \in Time /\ e # time /\ Ahead(e, time)
  BY <1>3, SetAhead DEF Expire
<1>7. \A y \in Waiting : y < x /\ y # x
  BY <1>4 DEF Waiting
<1>8. /\ \A y : y \in Waiting' <=> y \in Waiting \/ y = x
  <2>1. \A y : y \in 1..x <=> y \in 1..set \/ y = x
    BY <1>4
  <2>2. x \notin sent
    BY <1>4
  <2> HIDE DEF x
  <2> QED
    BY <1>1, <2>1, <2>2 DEF Waiting
<1>9. expire' \in [Timer -> Time] /\ expire'[x] = e /\ \A y \in Waiting : expire'[y] = expire[y]
  <2> HIDE DEF x, e
  <2> QED
    BY <1>1, <1>3, <1>5, <1>6, <1>7
<1>10. v = AddNode(Wheel, expire'[x], x, time)
  BY <1>9
<1> HIDE DEF v, e, x
<1>11. v \in WheelType /\ Timed(v, expire', Waiting', list, time)
  <2> DEFINE g == expire'
             R == Waiting'
             w == Wheel
             S == Waiting
  <2>1. g[x] \in Time /\ g[x] # time /\ Ahead(g[x], time)
    BY <1>6, <1>9
  <2>2. \A y : y \in R <=> y \in S \/ y = x
    BY <1>8
  <2>3. \A y \in S : g[y] = expire[y]
    BY <1>9
  <2>4. w \in WheelType /\ Timed(w, expire, S, list, time) /\ \A y \in S : y < x /\ y # x
    BY <1>2, <1>3, <1>7
  <2>5. v = AddNode(w, g[x], x, time)
    BY <1>10
  <2> HIDE DEF g, R, w, S
  <2>6. AddNode(w, g[x], x, time) \in WheelType /\ Timed(AddNode(w, g[x], x, time), g, R, list, time)
    BY <1>3, <1>5, <2>1, <2>2, <2>3, <2>4, TimedSet
  <2> QED
    BY <2>5, <2>6 DEF g, R
<1>12. /\ Wheel' = v /\ near' \in [0..(NEAR - 1) -> Seq(Timer)]
       /\ t' \in [Level -> [0..(LEVEL - 1) -> Seq(Timer)]]
  BY <1>1, <1>11, WheelNext
<1>13. Timed(Wheel, expire, Waiting, list, time)'
  BY <1>1, <1>11, <1>12
<1>14. TypeOK'
  BY <1>1, <1>3, <1>4, <1>5, <1>9, <1>12 DEF TypeOK
<1> QED
  BY <1>0, <1>1, <1>13, <1>14 DEF TimerInv

LEMMA NowStep ==
  ASSUME TimerInv, TimeoutNow
  PROVE  TimerInv' /\ Waiting' = Waiting
<1>1. TypeOK /\ (pc # "idle" => todo > 0) /\ Timed(Wheel, expire, Waiting, list, time)
  BY DEF TimerInv
<1>2. /\ set < Bound /\ set' = set + 1 /\ sent' = sent \cup {set + 1}
      /\ near' = near /\ t' = t /\ time' = time /\ expire' = expire
      /\ pc' = pc /\ list' = list /\ todo' = todo
  BY DEF TimeoutNow, wheelVars, threadVars
<1>3. set \in 0..Bound /\ sent \subseteq 1..set /\ Bound \in Nat
  BY <1>1, SkynetTimerAssumption DEF TypeOK
<1>4. set' \in 0..Bound /\ sent' \subseteq 1..set' /\ Waiting' = Waiting
  <2>1. \A y : y \in 1..(set + 1) <=> y \in 1..set \/ y = set + 1
    BY <1>3
  <2>2. set + 1 \notin 1..set /\ set + 1 \in 0..Bound
    BY <1>2, <1>3
  <2> QED
    BY <1>2, <1>3, <2>1, <2>2 DEF Waiting
<1>5. TypeOK'
  BY <1>1, <1>2, <1>4 DEF TypeOK
<1>6. Wheel' = Wheel
  BY <1>2 DEF Wheel
<1>7. Timed(Wheel, expire, Waiting, list, time)'
  BY <1>1, <1>2, <1>4, <1>6
<1> QED
  BY <1>1, <1>2, <1>4, <1>5, <1>7 DEF TimerInv

LEMMA UpdateStep ==
  ASSUME TimerInv, NEW diff \in 1..MaxDiff, UpdateTime(diff)
  PROVE  TimerInv'
<1>1. TypeOK /\ Timed(Wheel, expire, Waiting, list, time)
  BY DEF TimerInv
<1>2. /\ near' = near /\ t' = t /\ time' = time /\ expire' = expire
      /\ set' = set /\ sent' = sent /\ pc' = pc /\ list' = list /\ todo' = diff
  BY DEF UpdateTime, wheelVars
<1>3. todo' \in 0..MaxDiff /\ todo' > 0
  BY <1>2
<1>4. TypeOK'
  BY <1>1, <1>2, <1>3 DEF TypeOK
<1>5. Wheel' = Wheel /\ Waiting' = Waiting
  BY <1>2 DEF Wheel, Waiting
<1>6. Timed(Wheel, expire, Waiting, list, time)'
  BY <1>1, <1>2, <1>5
<1> QED
  BY <1>3, <1>4, <1>6 DEF TimerInv


LEMMA TakenStep ==
  ASSUME NEW w \in WheelType, NEW now \in Time, NEW next,
         Holds(w, expire, Waiting, now), Taken(w, now, next)
  PROVE  /\ near' \in [0..(NEAR - 1) -> Seq(Timer)]
         /\ t' \in [Level -> [0..(LEVEL - 1) -> Seq(Timer)]]
         /\ list' \in Seq(Timer) /\ pc' = next
         /\ Timed(Wheel', expire, Waiting, list', now)
<1> DEFINE v == [near |-> [w.near EXCEPT ![now % NEAR] = <<>>], t |-> w.t]
           s == w.near[now % NEAR]
<1>1. near' = v.near /\ t' = v.t /\ list' = s /\ pc' = next
  BY DEF Taken
<1>2. TakenOff(w, v, s, now)
  BY Opened
<1> HIDE DEF v, s
<1>3. s \in Seq(Timer) /\ v \in WheelType /\ Timed(v, expire, Waiting, s, now)
  BY <1>2, TimedTake
<1>4. /\ Wheel' = v
      /\ near' \in [0..(NEAR - 1) -> Seq(Timer)]
      /\ t' \in [Level -> [0..(LEVEL - 1) -> Seq(Timer)]]
  BY <1>1, <1>3, WheelNext
<1> QED
  BY <1>1, <1>3, <1>4

\* What a tick does: it takes what expires, or nothing does and the clock goes on.
LEMMA TickCases ==
  ASSUME TimerInv, Tick, NEW ct, ct = (time + 1) % Range32
  PROVE  /\ list = <<>> /\ pc \in {"idle", "first"} /\ todo > 0
         /\ \/ /\ time' = time /\ todo' = todo /\ pc' = "first"
               /\ Taken(Wheel, time, "first")
               /\ Holds(Wheel, expire, Waiting, time)
            \/ /\ time' = ct /\ ct \in Time
               /\ \/ pc' = "idle" /\ todo' = todo - 1
                  \/ pc' = "second" /\ todo' = todo
               /\ Shifted(ct) \in WheelType
               /\ Taken(Shifted(ct), ct, pc')
               /\ Holds(Shifted(ct), expire, Waiting, ct)
               /\ \A x \in Waiting : expire[x] # time
         /\ expire' = expire /\ set' = set /\ sent' = sent
<1>1. TypeOK /\ Timed(Wheel, expire, Waiting, list, time)
  BY DEF TimerInv
<1>2. /\ list = <<>> /\ pc \in {"idle", "first"} /\ todo > 0
      /\ expire' = expire /\ set' = set /\ sent' = sent
  BY DEF Tick
<1>3. Holds(Wheel, expire, Waiting, time)
  BY <1>1, <1>2, TimedEmpty
<1>4. CASE near[time % NEAR] # <<>>
  <2>1. Taken(Wheel, time, "first") /\ time' = time /\ todo' = todo
    BY <1>4 DEF Tick
  <2> QED
    BY <1>2, <1>3, <2>1 DEF Taken
<1>5. CASE near[time % NEAR] = <<>>
  <2> DEFINE w == Shifted(ct)
             next == IF w.near[ct % NEAR] = <<>> THEN "idle" ELSE "second"
  <2>1. /\ time' = ct /\ Taken(w, ct, next)
        /\ todo' = IF w.near[ct % NEAR] = <<>> THEN todo - 1 ELSE todo
    BY <1>5 DEF Tick
  <2>2. (next = "idle" /\ todo' = todo - 1) \/ (next = "second" /\ todo' = todo)
    BY <2>1
  <2> HIDE DEF next, w
  <2>3. pc' = next
    BY <2>1 DEF Taken
  <2>4. /\ Waiting \subseteq Timer /\ Wheel \in WheelType /\ time \in Time
        /\ Wheel.near = near
    BY <1>1, InType
  <2>5. \A x \in Waiting : expire[x] # time
    BY <1>3, <1>5, <2>4, NearNow
  <2>6. ct \in Time /\ w \in WheelType /\ Holds(w, expire, Waiting, ct)
    BY <1>1, <1>3, <2>4, <2>5, HoldsShift DEF w
  <2> QED
    BY <1>2, <2>1, <2>2, <2>3, <2>5, <2>6 DEF w
<1> QED
  BY <1>4, <1>5

LEMMA TickStep ==
  ASSUME TimerInv, Tick
  PROVE  TimerInv'
<1>1. TypeOK
  BY DEF TimerInv
<1>2. /\ expire \in [Timer -> Time] /\ set \in 0..Bound /\ sent \subseteq 1..set
      /\ todo \in 0..MaxDiff /\ time \in Time
  BY <1>1 DEF TypeOK
<1>3. PICK ct : ct = (time + 1) % Range32
  OBVIOUS
<1>4. /\ list = <<>> /\ pc \in {"idle", "first"} /\ todo > 0
      /\ \/ /\ time' = time /\ todo' = todo /\ pc' = "first"
            /\ Taken(Wheel, time, "first")
            /\ Holds(Wheel, expire, Waiting, time)
         \/ /\ time' = ct /\ ct \in Time
            /\ \/ pc' = "idle" /\ todo' = todo - 1
               \/ pc' = "second" /\ todo' = todo
            /\ Shifted(ct) \in WheelType
            /\ Taken(Shifted(ct), ct, pc')
            /\ Holds(Shifted(ct), expire, Waiting, ct)
            /\ \A x \in Waiting : expire[x] # time
      /\ expire' = expire /\ set' = set /\ sent' = sent
  BY <1>3, TickCases
<1>5. PICK w \in WheelType, now \in Time, next \in {"idle", "first", "second"} :
        time' = now /\ Taken(w, now, next) /\ Holds(w, expire, Waiting, now)
  <2>1. CASE Taken(Wheel, time, "first") /\ Holds(Wheel, expire, Waiting, time) /\ time' = time
    BY <1>1, <1>2, <2>1, InType
  <2>2. CASE /\ time' = ct /\ ct \in Time /\ pc' \in {"idle", "second"}
             /\ Shifted(ct) \in WheelType /\ Taken(Shifted(ct), ct, pc')
             /\ Holds(Shifted(ct), expire, Waiting, ct)
    BY <2>2
  <2> QED
    BY <1>4, <2>1, <2>2
<1>6. /\ near' \in [0..(NEAR - 1) -> Seq(Timer)]
      /\ t' \in [Level -> [0..(LEVEL - 1) -> Seq(Timer)]]
      /\ list' \in Seq(Timer) /\ pc' = next
      /\ Timed(Wheel', expire, Waiting, list', now)
  BY <1>5, TakenStep
<1>7. todo' \in 0..MaxDiff /\ (pc' # "idle" => todo' > 0)
  BY <1>2, <1>4, SkynetTimerAssumption
<1>8. TypeOK'
  BY <1>2, <1>4, <1>5, <1>6, <1>7 DEF TypeOK
<1>9. Waiting' = Waiting
  BY <1>4 DEF Waiting
<1>10. Timed(Wheel, expire, Waiting, list, time)'
  BY <1>4, <1>5, <1>6, <1>9
<1> QED
  BY <1>7, <1>8, <1>10 DEF TimerInv

LEMMA AgainStep ==
  ASSUME TimerInv, Again
  PROVE  TimerInv' /\ time' = time /\ expire' = expire /\ set' = set /\ sent' = sent
<1>1. TypeOK /\ (pc # "idle" => todo > 0) /\ Timed(Wheel, expire, Waiting, list, time)
  BY DEF TimerInv
<1>2. /\ expire \in [Timer -> Time] /\ set \in 0..Bound /\ sent \subseteq 1..set
      /\ todo \in 0..MaxDiff /\ time \in Time
  BY <1>1 DEF TypeOK
<1>3. /\ list = <<>> /\ time' = time /\ expire' = expire /\ set' = set /\ sent' = sent
  BY DEF Again
<1>4. Waiting' = Waiting
  BY <1>3 DEF Waiting
<1>5. CASE near[time % NEAR] # <<>>
  <2>1. Taken(Wheel, time, "second") /\ todo' = todo
    BY <1>5 DEF Again
  <2>2. Holds(Wheel, expire, Waiting, time) /\ Wheel \in WheelType
    BY <1>1, <1>3, TimedEmpty, InType
  <2>3. /\ near' \in [0..(NEAR - 1) -> Seq(Timer)]
        /\ t' \in [Level -> [0..(LEVEL - 1) -> Seq(Timer)]]
        /\ list' \in Seq(Timer) /\ pc' = "second"
        /\ Timed(Wheel', expire, Waiting, list', time)
    BY <1>2, <2>1, <2>2, TakenStep
  <2>4. TypeOK'
    BY <1>2, <1>3, <2>1, <2>3 DEF TypeOK
  <2>5. Timed(Wheel, expire, Waiting, list, time)'
    BY <1>3, <1>4, <2>3
  <2> QED
    BY <1>1, <1>3, <2>1, <2>3, <2>4, <2>5 DEF TimerInv, Again
<1>6. CASE near[time % NEAR] = <<>>
  <2>1. near' = near /\ t' = t /\ list' = list /\ pc' = "idle" /\ todo' = todo - 1
    BY <1>6 DEF Again
  <2>2. todo > 0
    BY <1>1 DEF Again
  <2>3. todo' \in 0..MaxDiff
    BY <1>2, <2>1, <2>2, SkynetTimerAssumption
  <2>4. TypeOK'
    BY <1>1, <1>3, <2>1, <2>3 DEF TypeOK
  <2>5. Wheel' = Wheel
    BY <2>1 DEF Wheel
  <2>6. Timed(Wheel, expire, Waiting, list, time)'
    BY <1>1, <1>3, <1>4, <2>1, <2>5
  <2> QED
    BY <1>3, <2>1, <2>4, <2>6 DEF TimerInv
<1> QED
  BY <1>5, <1>6

LEMMA DispatchStep ==
  ASSUME TimerInv, Dispatch
  PROVE  /\ TimerInv'
         /\ Head(list) \in Waiting /\ expire[Head(list)] = time
         /\ \A y \in Waiting : expire[y] = time => Head(list) <= y
         /\ time' = time /\ sent' = sent \cup {Head(list)}
         /\ \A y : y \in Waiting' <=> y \in Waiting /\ y # Head(list)
         /\ \A y \in Waiting : y # Head(list) => expire'[y] = expire[y]
<1>1. TypeOK /\ (pc # "idle" => todo > 0) /\ Timed(Wheel, expire, Waiting, list, time)
  BY DEF TimerInv
<1> DEFINE x == Head(list)
           r == Tail(list)
<1>2. /\ list # <<>> /\ sent' = sent \cup {x} /\ list' = r
      /\ expire' = [expire EXCEPT ![x] = 0]
      /\ near' = near /\ t' = t /\ time' = time /\ set' = set /\ pc' = pc /\ todo' = todo
  BY DEF Dispatch, wheelVars
<1>3. /\ Wheel \in WheelType /\ Waiting \subseteq Timer /\ time \in Time
      /\ expire \in [Timer -> Time] /\ list \in Seq(Timer)
  BY <1>1, InType
<1>4. r \in Seq(Timer) /\ x \in ToSet(list)
  <2>1. 1 \in DOMAIN list /\ x = list[1] /\ r \in Seq(Timer)
    BY <1>2, <1>3
  <2> QED
    BY <2>1 DEF ToSet
<1>5. x \in Waiting /\ expire[x] = time
  BY <1>1, <1>4 DEF Timed
<1> HIDE DEF x, r
<1>6. \A y : y \in Waiting' <=> y \in Waiting /\ y # x
  BY <1>2, <1>5 DEF Waiting
<1>7. \A y \in Waiting : y # x => expire'[y] = expire[y]
  BY <1>2, <1>3
<1>8. /\ Timed(Wheel, expire', Waiting', r, time)
      /\ \A y \in Waiting : expire[y] = time => x <= y
  <2> DEFINE g == expire'
             R == Waiting'
             w == Wheel
             S == Waiting
  <2>1. /\ w \in WheelType /\ list \in Seq(Timer) /\ list # <<>>
        /\ Timed(w, expire, S, list, time)
    BY <1>1, <1>2, <1>3
  <2>2. \A y \in S : y # Head(list) => g[y] = expire[y]
    BY <1>7 DEF x
  <2>3. \A y : y \in R <=> y \in S /\ y # Head(list)
    BY <1>6 DEF x
  <2> HIDE DEF g, R, w, S
  <2>4. Timed(w, g, R, Tail(list), time) /\ \A y \in S : expire[y] = time => Head(list) <= y
    BY <2>1, <2>2, <2>3, TimedSend
  <2> QED
    BY <2>4 DEF g, R, w, S, x, r
<1>9. Wheel' = Wheel
  BY <1>2 DEF Wheel
<1>10. expire' \in [Timer -> Time]
  <2>1. 0 \in Time
    <3>1. Range32 \in Nat /\ Range32 > 0
      BY Blocks
    <3> QED
      BY <3>1 DEF Time
  <2> QED
    BY <1>2, <1>3, <2>1
<1>11. sent' \subseteq 1..set'
  BY <1>1, <1>2, <1>5 DEF Waiting, TypeOK
<1>12. TypeOK'
  BY <1>1, <1>2, <1>4, <1>10, <1>11 DEF TypeOK
<1>13. Timed(Wheel, expire, Waiting, list, time)'
  BY <1>2, <1>8, <1>9
<1>14. TimerInv'
  BY <1>1, <1>2, <1>12, <1>13 DEF TimerInv
<1> QED
  BY <1>2, <1>5, <1>6, <1>7, <1>8, <1>14 DEF x


\* A node of a level waits in a slot that timer_shift has still to move.
LEMMA PartIndex ==
  ASSUME NEW x \in Time, NEW y \in Time, NEW l \in Level, Part(x, y, l)
  PROVE  IndexOf(x, l) # IndexOf(y, l)
<1>1. x \in Nat /\ y \in Nat /\ Q(x, 4) = 0 /\ Q(y, 4) = 0
  BY QTop
<1>2. Q(x, l + 1) = Q(y, l + 1)
  <2>1. CASE l = 3
    BY <1>1, <2>1
  <2>2. CASE l # 3
    BY <2>2 DEF Part
  <2> QED
    BY <2>1, <2>2
<1>3. l \in 0..3 /\ Q(x, l) # Q(y, l)
  BY DEF Part, Level
<1> QED
  BY <1>1, <1>2, <1>3, QDown

LEMMA InvNext == TimerInv /\ [Next]_vars => TimerInv'
<1> SUFFICES ASSUME TimerInv, [Next]_vars PROVE TimerInv'
  OBVIOUS
<1>1. CASE \E d \in 1..MaxDelay : Timeout(d)
  BY <1>1, TimeoutStep
<1>2. CASE TimeoutNow
  BY <1>2, NowStep
<1>3. CASE \E diff \in 1..MaxDiff : UpdateTime(diff)
  BY <1>3, UpdateStep
<1>4. CASE Tick
  BY <1>4, TickStep
<1>5. CASE Dispatch
  BY <1>5, DispatchStep
<1>6. CASE Again
  BY <1>6, AgainStep
<1>7. CASE UNCHANGED vars
  <2>1. /\ near' = near /\ t' = t /\ time' = time /\ expire' = expire
        /\ set' = set /\ sent' = sent /\ pc' = pc /\ list' = list /\ todo' = todo
    BY <1>7 DEF vars, wheelVars, threadVars
  <2>2. Wheel' = Wheel /\ Waiting' = Waiting
    BY <2>1 DEF Wheel, Waiting
  <2>3. TypeOK' <=> TypeOK
    BY <2>1 DEF TypeOK
  <2> QED
    BY <2>1, <2>2, <2>3 DEF TimerInv
<1> QED
  BY <1>1, <1>2, <1>3, <1>4, <1>5, <1>6, <1>7 DEF Next, TimerThread

\* The inductive invariant: every node that waits is where add_node would put it
\* now, in the order of the calls, and what the timer thread has taken expires now.
THEOREM TimerInvariant == Spec => []TimerInv
<1>1. Init => TimerInv
  BY InvInit
<1>2. TimerInv /\ [Next]_vars => TimerInv'
  BY InvNext
<1> QED
  BY <1>1, <1>2, PTL DEF Spec

LEMMA Found ==
  ASSUME NEW s \in Seq(Timer), NEW x \in ToSet(s)
  PROVE  Contains(s, x)
BY DEF Contains, ToSet

LEMMA InvInWheel == TimerInv => InWheel
<1> SUFFICES ASSUME TimerInv PROVE InWheel
  OBVIOUS
<1>1. TypeOK /\ Timed(Wheel, expire, Waiting, list, time)
  BY DEF TimerInv
<1>2. /\ Wheel \in WheelType /\ Wheel.near = near /\ Wheel.t = t
      /\ time \in Time /\ list \in Seq(Timer) /\ time \in Nat
  BY <1>1, InType, QTop
<1> SUFFICES ASSUME NEW x \in Waiting
             PROVE  \/ /\ Contains(list, x)
                       /\ Left(x) = 0
                    \/ /\ Contains(near[expire[x] % NEAR], x)
                       /\ expire[x] \div NEAR = time \div NEAR
                    \/ \E l \in Level :
                         /\ Contains(t[l][IndexOf(expire[x], l)], x)
                         /\ IndexOf(expire[x], l) # IndexOf(time, l)
  BY <1>1 DEF InWheel
<1>3. CASE x \in ToSet(list)
  <2>1. Contains(list, x)
    BY <1>2, <1>3, Found
  <2>2. expire[x] = time
    BY <1>1, <1>3 DEF Timed
  <2>3. expire[x] - time = 0
    BY <1>2, <2>2
  <2>4. 0 % Range32 = 0
    <3>1. Range32 \in Nat /\ Range32 > 0
      BY Blocks
    <3> QED
      BY <3>1, Wraps
  <2> QED
    BY <2>1, <2>3, <2>4 DEF Left
<1>4. CASE x \notin ToSet(list)
  <2> DEFINE e == expire[x]
             q == Place(e, time)
  <2>1. e \in Time /\ x \in ToSet(At(Wheel, q))
    BY <1>1, <1>4 DEF Timed, Holds, Rest
  <2>2. e \in Nat
    BY <2>1, QTop
  <2>3. q \in Places
    BY <1>2, <2>2, PlaceCases
  <2>4. At(Wheel, q) \in Seq(Timer)
    BY <1>2, <2>3, AtType
  <2> HIDE DEF e, q
  <2>5. Contains(At(Wheel, q), x)
    BY <2>1, <2>4, Found
  <2>6. CASE Q(e, 0) = Q(time, 0) /\ q = <<-1, e % NEAR>>
    <3>1. At(Wheel, q) = near[e % NEAR]
      BY <1>2, <2>6 DEF At
    <3>2. e \div NEAR = time \div NEAR
      BY <2>6, Blocks DEF Q
    <3> QED
      BY <2>5, <3>1, <3>2 DEF e
  <2>7. ASSUME NEW l \in Level, Part(e, time, l), q = <<l, IndexOf(e, l)>>
        PROVE  /\ Contains(t[l][IndexOf(e, l)], x)
               /\ IndexOf(e, l) # IndexOf(time, l)
    <3>1. At(Wheel, q) = t[l][IndexOf(e, l)]
      BY <1>2, <2>7 DEF At, Level
    <3>2. IndexOf(e, l) # IndexOf(time, l)
      BY <1>2, <2>1, <2>2, <2>7, PartIndex
    <3> QED
      BY <2>5, <3>1, <3>2
  <2>8. \/ Q(e, 0) = Q(time, 0) /\ q = <<-1, e % NEAR>>
        \/ \E l \in Level : Part(e, time, l) /\ q = <<l, IndexOf(e, l)>>
    BY <1>2, <2>2, PlaceCases DEF q
  <2> QED
    BY <2>6, <2>7, <2>8 DEF e
<1> QED
  BY <1>3, <1>4

\* The variables have their types, and a node waits in one list only, opened no
\* later than it expires (skynet_timer.c:68 and 112).
THEOREM AlwaysInWheel == Spec => []InWheel
<1>1. TimerInv => InWheel
  BY InvInWheel
<1> QED
  BY <1>1, TimerInvariant, PTL


-----------------------------------------------------------------------------
(* The wheel is a table of countdowns.                                     *)

\* The countdown of e at a time.
LEMMA LeftIs ==
  ASSUME NEW e \in Time, NEW now \in Time
  PROVE  /\ (e - now) % Range32 \in Nat
         /\ (e - now) % Range32 = 0 <=> e = now
<1>1. /\ Range32 \in Nat /\ Range32 > 0 /\ now \in Nat /\ e \in Nat
      /\ now < Range32 /\ e < Range32
  BY Blocks DEF Time
<1>2. (e - now) % Range32 = IF now <= e THEN e - now ELSE e - now + Range32
  BY <1>1, Wraps
<1> QED
  BY <1>1, <1>2

LEMMA Expires ==
  ASSUME TimerInv
  PROVE  /\ time \in Time /\ Waiting \subseteq Timer
         /\ \A x \in Waiting : expire[x] \in Time
BY InType DEF TimerInv

\* Nothing changes for those who wait.
LEMMA CountdownSame ==
  ASSUME Waiting' = Waiting, time' = time, expire' = expire
  PROVE  Countdown' = Countdown
BY DEF Countdown, Left

LEMMA AlarmInit == Init => Abstract!Init
<1> SUFFICES ASSUME Init PROVE Abstract!Init
  OBVIOUS
<1>1. Waiting = {} /\ sent = {}
  BY DEF Init, Waiting
<1>2. Countdown = [x \in Timer |-> -1]
  BY <1>1 DEF Countdown
<1> QED
  BY <1>1, <1>2 DEF Abstract!Init

LEMMA AlarmTimeout ==
  ASSUME TimerInv, NEW d \in 1..MaxDelay, Timeout(d)
  PROVE  Abstract!Next
<1> DEFINE x == set + 1
           e == Expire(d)
<1>1. /\ x \in Timer /\ x \notin sent /\ x \notin Waiting
      /\ \A y : y \in Waiting' <=> y \in Waiting \/ y = x
  <2>1. /\ set \in 0..Bound /\ sent \subseteq 1..set /\ Bound \in Nat /\ set < Bound
        /\ set' = set + 1 /\ sent' = sent
    BY SkynetTimerAssumption DEF TimerInv, TypeOK, Timeout
  <2>2. x \in Timer /\ x \notin 1..set
    BY <2>1 DEF Timer
  <2>3. \A y : y \in 1..x <=> y \in 1..set \/ y = x
    BY <2>1
  <2> HIDE DEF x
  <2>4. set' = x
    BY <2>1 DEF x
  <2> QED
    BY <2>1, <2>2, <2>3, <2>4 DEF Waiting
<1>2. time' = time /\ sent' = sent /\ expire' = [expire EXCEPT ![x] = e]
  BY DEF Timeout
<1>3. e \in Time /\ (e - time) % Range32 = d
  BY Expires, SetAhead DEF Expire
<1> HIDE DEF x, e
<1>4. expire \in [Timer -> Time]
  BY DEF TimerInv, TypeOK
<1>5. expire'[x] = e /\ \A y \in Waiting : expire'[y] = expire[y]
  BY <1>1, <1>2, <1>4
<1>6. Countdown[x] = -1
  BY <1>1 DEF Countdown
<1>7. Countdown' = [Countdown EXCEPT ![x] = d]
  <2>1. Countdown' = [y \in Timer |-> IF y \in Waiting' THEN (expire'[y] - time) % Range32 ELSE -1]
    BY <1>2 DEF Countdown, Left
  <2>2. Countdown = [y \in Timer |-> IF y \in Waiting THEN (expire[y] - time) % Range32 ELSE -1]
    BY DEF Countdown, Left
  <2>3. ASSUME NEW y \in Timer PROVE Countdown'[y] = IF y = x THEN d ELSE Countdown[y]
    <3>1. CASE y = x
      BY <1>1, <1>3, <1>5, <2>1, <3>1
    <3>2. CASE y # x
      BY <1>1, <1>5, <2>1, <2>2, <3>2
    <3> QED
      BY <3>1, <3>2
  <2> QED
    BY <2>1, <2>2, <2>3
<1>8. Abstract!Set(x, d)
  BY <1>1, <1>2, <1>6, <1>7 DEF Abstract!Set
<1> QED
  BY <1>1, <1>8 DEF Abstract!Next

LEMMA AlarmNow ==
  ASSUME TimerInv, TimeoutNow
  PROVE  Abstract!Next
<1> DEFINE x == set + 1
<1>1. x \in Timer /\ x \notin sent /\ x \notin Waiting
  <2>1. /\ set \in 0..Bound /\ sent \subseteq 1..set /\ Bound \in Nat /\ set < Bound
    BY SkynetTimerAssumption DEF TimerInv, TypeOK, TimeoutNow
  <2> QED
    BY <2>1 DEF Timer, Waiting
<1>2. time' = time /\ sent' = sent \cup {x} /\ expire' = expire
  BY DEF TimeoutNow, wheelVars
<1> HIDE DEF x
<1>3. Waiting' = Waiting
  BY NowStep
<1>4. Countdown' = Countdown
  BY <1>2, <1>3, CountdownSame
<1>5. Countdown[x] = -1
  BY <1>1 DEF Countdown
<1>6. Abstract!Now(x)
  BY <1>1, <1>2, <1>4, <1>5 DEF Abstract!Now
<1> QED
  BY <1>1, <1>6 DEF Abstract!Next

LEMMA AlarmTick ==
  ASSUME TimerInv, Tick
  PROVE  [Abstract!Next]_(Abstract!vars)
<1>1. PICK ct : ct = (time + 1) % Range32
  OBVIOUS
<1>2. /\ \/ time' = time
         \/ time' = ct /\ \A x \in Waiting : expire[x] # time
      /\ expire' = expire /\ set' = set /\ sent' = sent
  BY <1>1, TickCases
<1>3. Waiting' = Waiting
  BY <1>2 DEF Waiting
<1>4. CASE time' = time
  <2>1. Countdown' = Countdown
    BY <1>2, <1>3, <1>4, CountdownSame
  <2> QED
    BY <1>2, <2>1 DEF Abstract!vars
<1>5. CASE time' = ct /\ \A x \in Waiting : expire[x] # time
  <2>1. ASSUME NEW x \in Waiting
        PROVE  /\ (expire[x] - time) % Range32 \in Nat
               /\ (expire[x] - time) % Range32 # 0
               /\ (expire[x] - ct) % Range32 = ((expire[x] - time) % Range32) - 1
    <3>1. expire[x] \in Time /\ time \in Time /\ expire[x] # time
      BY <1>5, Expires
    <3> QED
      BY <1>1, <3>1, LeftIs, TickLeft
  <2>2. Countdown' = [y \in Timer |-> IF y \in Waiting THEN (expire[y] - ct) % Range32 ELSE -1]
    BY <1>2, <1>3, <1>5 DEF Countdown, Left
  <2>3. Countdown = [y \in Timer |-> IF y \in Waiting THEN (expire[y] - time) % Range32 ELSE -1]
    BY DEF Countdown, Left
  <2>4. ASSUME NEW y \in Timer
        PROVE  /\ Countdown[y] # 0
               /\ Countdown'[y] = IF Countdown[y] = -1 THEN -1 ELSE Countdown[y] - 1
    <3>1. CASE y \in Waiting
      <4> DEFINE a == (expire[y] - time) % Range32
                 b == (expire[y] - ct) % Range32
      <4>1. a \in Nat /\ a # 0 /\ b = a - 1
        BY <2>1, <3>1
      <4>2. Countdown[y] = a /\ Countdown'[y] = b
        BY <2>2, <2>3, <3>1
      <4> HIDE DEF a, b
      <4>3. a # -1
        BY <4>1
      <4> QED
        BY <4>1, <4>2, <4>3
    <3>2. CASE y \notin Waiting
      BY <2>2, <2>3, <3>2
    <3> QED
      BY <3>1, <3>2
  <2>5. Countdown' = [y \in Timer |-> IF Countdown[y] = -1 THEN -1 ELSE Countdown[y] - 1]
    BY <2>2, <2>4
  <2>6. Abstract!Tick
    BY <1>2, <2>4, <2>5 DEF Abstract!Tick
  <2> QED
    BY <2>6 DEF Abstract!Next
<1> QED
  BY <1>2, <1>4, <1>5

LEMMA AlarmDispatch ==
  ASSUME TimerInv, Dispatch
  PROVE  Abstract!Next
<1>1. PICK x : x = Head(list)
  OBVIOUS
<1>2. /\ x \in Waiting /\ expire[x] = time
      /\ \A y \in Waiting : expire[y] = time => x <= y
      /\ time' = time /\ sent' = sent \cup {x}
      /\ \A y : y \in Waiting' <=> y \in Waiting /\ y # x
      /\ \A y \in Waiting : y # x => expire'[y] = expire[y]
  BY <1>1, DispatchStep
<1>3. time \in Time /\ x \in Timer /\ \A y \in Waiting : expire[y] \in Time
  BY <1>2, Expires
<1>4. \A y \in Waiting : (expire[y] - time) % Range32 = 0 <=> expire[y] = time
  BY <1>3, LeftIs
<1>5. Countdown = [y \in Timer |-> IF y \in Waiting THEN (expire[y] - time) % Range32 ELSE -1]
  BY DEF Countdown, Left
<1>6. Countdown' = [y \in Timer |-> IF y \in Waiting' THEN (expire'[y] - time) % Range32 ELSE -1]
  BY <1>2 DEF Countdown, Left
<1>7. Countdown[x] = 0
  BY <1>2, <1>3, <1>4, <1>5
<1>8. \A y \in Timer : Countdown[y] = 0 => x <= y
  <2> TAKE y \in Timer
  <2>1. CASE y \in Waiting
    BY <1>2, <1>4, <1>5, <2>1
  <2>2. CASE y \notin Waiting
    BY <1>5, <2>2
  <2> QED
    BY <2>1, <2>2
<1>9. Countdown' = [Countdown EXCEPT ![x] = -1]
  <2>1. ASSUME NEW y \in Timer PROVE Countdown'[y] = IF y = x THEN -1 ELSE Countdown[y]
    BY <1>2, <1>5, <1>6
  <2> QED
    BY <1>3, <1>5, <1>6, <2>1
<1>10. Abstract!Send(x)
  BY <1>2, <1>7, <1>8, <1>9 DEF Abstract!Send
<1> QED
  BY <1>3, <1>10 DEF Abstract!Next

LEMMA AlarmStep == TimerInv /\ [Next]_vars => [Abstract!Next]_(Abstract!vars)
<1> SUFFICES ASSUME TimerInv, [Next]_vars PROVE [Abstract!Next]_(Abstract!vars)
  OBVIOUS
<1>0. ASSUME time' = time, expire' = expire, set' = set, sent' = sent
      PROVE  [Abstract!Next]_(Abstract!vars)
  <2>1. Waiting' = Waiting
    BY <1>0 DEF Waiting
  <2>2. Countdown' = Countdown
    BY <1>0, <2>1, CountdownSame
  <2> QED
    BY <1>0, <2>2 DEF Abstract!vars
<1>1. CASE \E d \in 1..MaxDelay : Timeout(d)
  BY <1>1, AlarmTimeout
<1>2. CASE TimeoutNow
  BY <1>2, AlarmNow
<1>3. CASE \E diff \in 1..MaxDiff : UpdateTime(diff)
  BY <1>0, <1>3 DEF UpdateTime, wheelVars
<1>4. CASE Tick
  BY <1>4, AlarmTick
<1>5. CASE Dispatch
  BY <1>5, AlarmDispatch
<1>6. CASE Again
  BY <1>0, <1>6, AgainStep
<1>7. CASE UNCHANGED vars
  BY <1>0, <1>7 DEF vars, wheelVars
<1> QED
  BY <1>1, <1>2, <1>3, <1>4, <1>5, <1>6, <1>7 DEF Next, TimerThread

\* The timer is an alarm clock: no timer is lost, sent twice, early or late, also
\* when the time wraps, and equal instants keep their order (skynet_timer.c:153).
THEOREM ImplementsAlarm == Spec => IsAlarm
<1>1. Init => Abstract!Init
  BY AlarmInit
<1>2. TimerInv /\ [Next]_vars => [Abstract!Next]_(Abstract!vars)
  BY AlarmStep
<1> QED
  BY <1>1, <1>2, TimerInvariant, PTL DEF Spec, IsAlarm, Abstract!Spec

================================================================================
