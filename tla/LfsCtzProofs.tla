---------------------------- MODULE LfsCtzProofs ----------------------------
(***************************************************************************)
(* Theorems about the skip list of a large file, for every block size,     *)
(* every width of the numbers and files of every length.  The invariant    *)
(* names the list: a function L from the blocks' numbers to the blocks,    *)
(* such that every pointer goes from block n to block n - 2^j of L and     *)
(* every byte is where lfs_ctz_index puts it.  A search and a traversal    *)
(* are then walks along L.  First comes the arithmetic: lfs_ctz, lfs_popc  *)
(* and lfs_npw2 do what their names say, and lfs_ctz_index computes, from  *)
(* a closed formula, the block and the offset that a byte has in the       *)
(* layout where each block starts with one pointer more than its number    *)
(* has trailing zeros.                                                     *)
(***************************************************************************)
EXTENDS LfsCtz, Numbers, SequenceTheorems, TLAPS

-----------------------------------------------------------------------------
\* lfs_util.h: bits, trailing zeros, powers of two

\* A bit is the parity of a quotient.
LEMMA BitIs ==
  ASSUME NEW a \in Nat, NEW k \in Nat
  PROVE  /\ a \div 2 ^ k \in Nat /\ Bit(a, k) \in {0, 1}
         /\ \E q \in Nat : a \div 2 ^ k = 2 * q + Bit(a, k)
<1>1. PICK n \in Nat \ {0} : n = 2 ^ k
  BY PowerIsPositive
<1>2. PICK c \in Nat : c = a \div n
  BY DivSplit
<1>3. PICK q \in Nat, r \in 0 .. 1 : c = 2 * q + r /\ c % 2 = r
  BY DivSplit
<1>4. Bit(a, k) = r /\ r \in {0, 1}
  BY <1>1, <1>2, <1>3 DEF Bit
<1> QED
  BY <1>1, <1>2, <1>3, <1>4

\* The bits below the k-th are zeros just if 2^k divides the number.
LEMMA ZerosDivide ==
  ASSUME NEW a \in Nat
  PROVE  \A k \in Nat :
           (\A j \in 0 .. k - 1 : Bit(a, j) = 0) => \E q \in Nat : a = 2 ^ k * q
<1> DEFINE S == {k \in Nat :
             (\A j \in 0 .. k - 1 : Bit(a, j) = 0) => \E q \in Nat : a = 2 ^ k * q}
<1>1. 0 \in S
  <2>1. 2 ^ 0 = 1 /\ a = 1 * a
    BY PowerIsPositive
  <2> QED
    BY <2>1
<1>2. ASSUME NEW k \in Nat, \A j \in 0 .. k : Bit(a, j) = 0, k \in S
      PROVE  \E q \in Nat : a = 2 ^ (k + 1) * q
  <2>1. \A j \in 0 .. k - 1 : Bit(a, j) = 0
    BY <1>2
  <2>2. Bit(a, k) = 0
    BY <1>2
  <2>3. PICK n \in Nat \ {0} : n = 2 ^ k
    BY PowerIsPositive
  <2>4. PICK q \in Nat : a = n * q
    BY <1>2, <2>1, <2>3
  <2>5. a \div n = q
    <3>1. a = n * q + 0 /\ 0 \in 0 .. n - 1
      BY <2>4
    <3> QED
      BY <3>1, DivIs
  <2>6. PICK p \in Nat : a \div 2 ^ k = 2 * p + Bit(a, k)
    BY BitIs
  <2>7. n * (2 * p) = (2 * n) * p
    OBVIOUS
  <2>8. 2 ^ (k + 1) = 2 * n
    BY <2>3, PowerDoubles
  <2>9. a = 2 ^ (k + 1) * p
    BY <2>2, <2>3, <2>4, <2>5, <2>6, <2>7, <2>8
  <2> QED
    BY <2>9
<1>3. ASSUME NEW k \in Nat, k \in S PROVE k + 1 \in S
  <2>1. k + 1 \in Nat /\ (k + 1) - 1 = k
    OBVIOUS
  <2> QED
    BY <1>2, <1>3, <2>1
<1>4. Nat \subseteq S
  <2> HIDE DEF S
  <2> QED
    BY <1>1, <1>3, Upwards
<1> QED
  BY <1>4

\* ... and the other way round.
LEMMA DivideZeros ==
  ASSUME NEW k \in Nat, NEW q \in Nat, NEW a \in Nat, a = 2 ^ k * q,
         NEW j \in 0 .. k - 1
  PROVE  Bit(a, j) = 0
<1>1. PICK n \in Nat \ {0} : n = 2 ^ j
  BY PowerIsPositive
<1>2. j \in Nat /\ j + 1 \in Nat /\ k >= j + 1
  OBVIOUS
<1>3. PICK m \in Nat : 2 ^ k = 2 ^ (j + 1) * m
  BY <1>2, PowerDivides
<1>4. 2 ^ (j + 1) = 2 * n
  BY <1>1, <1>2, PowerDoubles
<1>5. ((2 * n) * m) * q = n * (2 * (m * q)) + 0 /\ m * q \in Nat
  OBVIOUS
<1>6. PICK r \in Nat : r = m * q
  BY <1>5
<1>7. a = n * (2 * r) + 0 /\ 2 * r \in Nat /\ 0 \in 0 .. n - 1
  BY <1>3, <1>4, <1>5, <1>6
<1>8. a \div n = 2 * r
  BY <1>7, DivIs
<1>9. (2 * r) % 2 = 0
  OBVIOUS
<1> QED
  BY <1>1, <1>8, <1>9 DEF Bit

\* A number that is not 0 has a lowest one.
LEMMA CtzIs ==
  ASSUME NEW a \in 1 .. 2 ^ Width - 1
  PROVE  /\ ctz(a) \in 0 .. Width - 1 /\ Bit(a, ctz(a)) = 1
         /\ \A j \in 0 .. ctz(a) - 1 : Bit(a, j) = 0
<1> DEFINE T == {k \in 0 .. Width - 1 : Bit(a, k) = 1}
<1>1. Width \in Nat /\ a \in Nat /\ 2 ^ Width \in Nat
  BY CtzAssumption, PowerIsNat
<1>2. T # {}
  <2> SUFFICES ASSUME T = {} PROVE FALSE
    OBVIOUS
  <2>1. ASSUME NEW j \in 0 .. Width - 1 PROVE Bit(a, j) = 0
    <3>1. j \in Nat /\ Bit(a, j) # 1
      BY <1>1
    <3> QED
      BY <1>1, <3>1, BitIs
  <2>2. PICK q \in Nat : a = 2 ^ Width * q
    BY <1>1, <2>1, ZerosDivide
  <2>3. PICK n \in Nat : n = 2 ^ Width
    BY <1>1
  <2>4. q = 0 \/ n * q >= n
    OBVIOUS
  <2> QED
    BY <2>2, <2>3, <2>4
<1>3. PICK k \in T : \A j \in T : k <= j
  <2>1. T \subseteq Nat
    BY <1>1
  <2> HIDE DEF T
  <2> QED
    BY <1>2, <2>1, Least
<1>4. \A j \in 0 .. k - 1 : Bit(a, j) = 0
  <2> SUFFICES ASSUME NEW j \in 0 .. k - 1 PROVE Bit(a, j) = 0
    OBVIOUS
  <2>1. j \in 0 .. Width - 1 /\ j \in Nat /\ ~(k <= j)
    BY <1>1, <1>3
  <2> QED
    BY <1>1, <1>3, <2>1, BitIs
<1>5. \E x \in 0 .. Width - 1 : Bit(a, x) = 1 /\ \A j \in 0 .. x - 1 : Bit(a, j) = 0
  BY <1>3, <1>4
<1> QED
  BY <1>5 DEF ctz

\* It is an odd multiple of a power of two, ...
LEMMA CtzSplit ==
  ASSUME NEW a \in 1 .. 2 ^ Width - 1
  PROVE  ctz(a) \in Nat /\ \E q \in Nat : a = 2 ^ ctz(a) * (2 * q + 1)
<1>1. PICK t \in Nat : t = ctz(a) /\ Bit(a, t) = 1 /\ \A j \in 0 .. t - 1 : Bit(a, j) = 0
  BY CtzIs, CtzAssumption
<1>2. a \in Nat
  BY CtzAssumption, PowerIsNat
<1>3. PICK p \in Nat : a = 2 ^ t * p
  BY <1>1, <1>2, ZerosDivide
<1>4. PICK n \in Nat \ {0} : n = 2 ^ t
  BY PowerIsPositive
<1>5. a = n * p + 0 /\ 0 \in 0 .. n - 1
  BY <1>3, <1>4
<1>6. a \div n = p
  BY <1>2, <1>5, DivIs
<1>7. PICK q \in Nat : a \div 2 ^ t = 2 * q + Bit(a, t)
  BY <1>2, BitIs
<1>8. p = 2 * q + 1
  BY <1>1, <1>4, <1>6, <1>7
<1> QED
  BY <1>1, <1>3, <1>8

\* ... of one only.
LEMMA CtzUnique ==
  ASSUME NEW a \in 1 .. 2 ^ Width - 1, NEW t \in Nat, NEW q \in Nat,
         a = 2 ^ t * (2 * q + 1)
  PROVE  ctz(a) = t
<1>1. a \in Nat /\ ctz(a) \in Nat /\ 2 * q + 1 \in Nat
  BY CtzIs, CtzAssumption, PowerIsNat
<1>2. PICK n \in Nat \ {0} : n = 2 ^ t
  BY PowerIsPositive
<1>3. PICK m \in Int : m = 2 * q + 1
  OBVIOUS
<1>4. a = n * m + 0 /\ 0 \in 0 .. n - 1
  BY <1>2, <1>3
<1>5. a \div n = 2 * q + 1
  <2>1. a \in Int /\ m \in Int /\ a = n * m + 0 /\ 0 \in 0 .. n - 1
    BY <1>1, <1>4
  <2>2. a \div n = m
    BY ONLY <2>1, n \in Nat \ {0}, DivIs
  <2> QED
    BY <1>3, <2>2
<1>6. (2 * q + 1) % 2 = 1
  OBVIOUS
<1>7. Bit(a, t) = 1
  BY <1>2, <1>5, <1>6 DEF Bit
<1>8. \A j \in 0 .. t - 1 : Bit(a, j) = 0
  BY <1>1, DivideZeros
<1>9. ~(ctz(a) < t) /\ ~(ctz(a) > t)
  BY <1>1, <1>7, <1>8, CtzIs
<1> QED
  BY <1>1, <1>9

\* Beyond the lowest one of n + 1 the bits of n are those of n + 1, ...
LEMMA BitsAbove ==
  ASSUME NEW n \in Nat, n + 1 < 2 ^ Width,
         NEW k \in Nat, k > ctz(n + 1)
  PROVE  Bit(n, k) = Bit(n + 1, k)
<1>1. n + 1 \in 1 .. 2 ^ Width - 1 /\ n + 1 \in Nat
  BY CtzAssumption, PowerIsNat
<1>2. PICK t \in Nat, q \in Nat : t = ctz(n + 1) /\ n + 1 = 2 ^ t * (2 * q + 1)
  BY <1>1, CtzSplit
<1>3. PICK m \in Nat \ {0} : m = 2 ^ t
  BY PowerIsPositive
<1>4. PICK l \in Nat : l = 2 * m /\ l = 2 ^ (t + 1)
  BY <1>3, PowerDoubles
<1>5. m * (2 * q + 1) = l * q + m
  BY <1>4
<1>6. /\ n + 1 = l * q + m /\ n = l * q + (m - 1)
      /\ m \in 0 .. l - 1 /\ m - 1 \in 0 .. l - 1 /\ l \in Nat \ {0}
  BY <1>2, <1>3, <1>4, <1>5
<1>7. (n + 1) \div l = q /\ n \div l = q
  BY <1>1, <1>6, DivIs
<1> DEFINE S == {j \in Nat : n \div 2 ^ (t + 1 + j) = (n + 1) \div 2 ^ (t + 1 + j)}
<1>8. 0 \in S
  BY <1>4, <1>7
<1>9. ASSUME NEW j \in Nat, j \in S PROVE j + 1 \in S
  <2>1. t + 1 + j \in Nat /\ t + 1 + (j + 1) = (t + 1 + j) + 1 /\ j + 1 \in Nat
    OBVIOUS
  <2>2. /\ n \div 2 ^ ((t + 1 + j) + 1) = (n \div 2 ^ (t + 1 + j)) \div 2
        /\ (n + 1) \div 2 ^ ((t + 1 + j) + 1) = ((n + 1) \div 2 ^ (t + 1 + j)) \div 2
    BY <1>1, <2>1, DivNext
  <2> QED
    BY <1>9, <2>1, <2>2
<1>10. Nat \subseteq S
  <2> HIDE DEF S
  <2> QED
    BY <1>8, <1>9, Upwards
<1>11. k - t - 1 \in Nat /\ t + 1 + (k - t - 1) = k
  BY <1>2
<1>12. n \div 2 ^ k = (n + 1) \div 2 ^ k
  BY <1>10, <1>11
<1> QED
  BY <1>12 DEF Bit

\* ... there n has a zero, ...
LEMMA BitAt ==
  ASSUME NEW n \in Nat, n + 1 < 2 ^ Width
  PROVE  Bit(n, ctz(n + 1)) = 0
<1>1. n + 1 \in 1 .. 2 ^ Width - 1
  BY CtzAssumption, PowerIsNat
<1>2. PICK t \in Nat, q \in Nat : t = ctz(n + 1) /\ n + 1 = 2 ^ t * (2 * q + 1)
  BY <1>1, CtzSplit
<1>3. PICK m \in Nat \ {0} : m = 2 ^ t
  BY PowerIsPositive
<1>4. m * (2 * q + 1) = m * (2 * q) + m /\ 2 * q \in Nat
  OBVIOUS
<1>5. n = m * (2 * q) + (m - 1) /\ m - 1 \in 0 .. m - 1
  BY <1>2, <1>3, <1>4
<1>6. n \div m = 2 * q
  BY <1>4, <1>5, DivIs
<1>7. (2 * q) % 2 = 0
  OBVIOUS
<1> QED
  BY <1>2, <1>3, <1>6, <1>7 DEF Bit

\* ... and below it ones.
LEMMA BitsBelow ==
  ASSUME NEW n \in Nat, n + 1 < 2 ^ Width,
         NEW k \in 0 .. ctz(n + 1) - 1
  PROVE  Bit(n, k) = 1
<1>1. n + 1 \in 1 .. 2 ^ Width - 1
  BY CtzAssumption, PowerIsNat
<1>2. PICK t \in Nat, q \in Nat : t = ctz(n + 1) /\ n + 1 = 2 ^ t * (2 * q + 1)
  BY <1>1, CtzSplit
<1>3. k \in Nat /\ k + 1 \in Nat /\ t >= k + 1
  BY <1>2
<1>4. PICK m \in Nat \ {0} : m = 2 ^ k
  BY <1>3, PowerIsPositive
<1>5. PICK l \in Nat \ {0} : 2 ^ t = 2 ^ (k + 1) * l
  BY <1>3, PowerDivides
<1>6. 2 ^ (k + 1) = 2 * m
  BY <1>3, <1>4, PowerDoubles
<1>7. PICK r \in Nat : r = l * (2 * q + 1) /\ r > 0
  <2>1. l * (2 * q + 1) \in Nat /\ l * (2 * q + 1) > 0
    OBVIOUS
  <2> QED
    BY <2>1
<1>8. ((2 * m) * l) * (2 * q + 1) = m * (2 * (l * (2 * q + 1)))
  OBVIOUS
<1>9. m * (2 * r) = m * (2 * r - 1) + m
  OBVIOUS
<1>10. PICK c \in Nat : c = 2 * r - 1
  BY <1>7
<1>11. n = m * c + (m - 1) /\ m - 1 \in 0 .. m - 1
  BY <1>2, <1>5, <1>6, <1>7, <1>8, <1>9, <1>10
<1>12. n \div m = c
  BY <1>11, DivIs
<1>13. c % 2 = 1
  BY <1>7, <1>10
<1> QED
  BY <1>4, <1>12, <1>13 DEF Bit

Ones(a) == {k \in 0 .. Width - 1 : Bit(a, k) = 1}

\* The ones of a number are finitely many.
LEMMA PopcIs ==
  ASSUME NEW a \in Nat
  PROVE  IsFiniteSet(Ones(a)) /\ popc(a) = Cardinality(Ones(a)) /\ popc(a) \in Nat
<1>1. IsFiniteSet(0 .. Width - 1)
  BY CtzAssumption, FS_Interval
<1>2. IsFiniteSet(Ones(a))
  BY <1>1, FS_Subset DEF Ones
<1> QED
  BY <1>2, FS_CardinalityType DEF popc, Ones

\* Zero has no ones.
LEMMA PopcZero == popc(0) = 0
<1>1. ASSUME NEW k \in Nat PROVE Bit(0, k) = 0
  <2>1. PICK m \in Nat \ {0} : m = 2 ^ k
    BY PowerIsPositive
  <2>2. 0 = m * 0 + 0 /\ 0 \in 0 .. m - 1
    OBVIOUS
  <2>3. 0 \div m = 0
    BY <2>2, DivIs
  <2> QED
    BY <2>1, <2>3 DEF Bit
<1>2. Ones(0) = {}
  BY <1>1, CtzAssumption DEF Ones
<1> QED
  BY <1>2, PopcIs, FS_EmptySet

\* To count one up turns the ones below the lowest zero into zeros: what all
\* the sizes of pointers up to a block add up to.
LEMMA PopcNext ==
  ASSUME NEW n \in Nat, n + 1 < 2 ^ Width
  PROVE  popc(n) + 2 = popc(n + 1) + (ctz(n + 1) + 1)
<1>1. n + 1 \in 1 .. 2 ^ Width - 1 /\ n + 1 \in Nat
  BY CtzAssumption, PowerIsNat
<1>2. PICK t \in Nat : t = ctz(n + 1) /\ t \in 0 .. Width - 1 /\ Bit(n + 1, t) = 1
  BY <1>1, CtzIs, CtzAssumption
<1> DEFINE H == {k \in t + 1 .. Width - 1 : Bit(n + 1, k) = 1}
<1>3. IsFiniteSet(H) /\ Cardinality(H) \in Nat
  <2>1. IsFiniteSet(t + 1 .. Width - 1)
    BY CtzAssumption, FS_Interval
  <2> QED
    BY <2>1, FS_Subset, FS_CardinalityType
<1>4. Ones(n + 1) = H \cup {t}
  <2>1. \A k \in 0 .. Width - 1 : k < t => Bit(n + 1, k) = 0
    BY <1>1, <1>2, CtzIs, CtzAssumption
  <2> QED
    BY <1>2, <2>1, CtzAssumption DEF Ones
<1>5. Ones(n) = H \cup 0 .. t - 1
  <2>1. \A k \in 0 .. Width - 1 : k < t => Bit(n, k) = 1
    BY <1>2, BitsBelow, CtzAssumption
  <2>2. Bit(n, t) = 0
    BY <1>2, BitAt
  <2>3. \A k \in 0 .. Width - 1 : k > t => Bit(n, k) = Bit(n + 1, k)
    BY <1>2, BitsAbove, CtzAssumption
  <2> QED
    BY <1>2, <2>1, <2>2, <2>3, CtzAssumption DEF Ones
<1>6. Cardinality(H \cup {t}) = Cardinality(H) + 1
  <2>1. t \notin H
    OBVIOUS
  <2> HIDE DEF H
  <2> QED
    BY <1>3, <2>1, FS_AddElement
<1>7. Cardinality(H \cup 0 .. t - 1) = Cardinality(H) + t
  <2>1. H \cap 0 .. t - 1 = {}
    OBVIOUS
  <2>2. IsFiniteSet(0 .. t - 1) /\ Cardinality(0 .. t - 1) = t
    <3>1. PICK l \in Int : l = t - 1
      OBVIOUS
    <3>2. Cardinality(0 .. l) = IF 0 > l THEN 0 ELSE l - 0 + 1
      BY FS_Interval
    <3> QED
      BY <3>1, <3>2, FS_Interval
  <2> HIDE DEF H
  <2>3. Cardinality(H \cup 0 .. t - 1) = Cardinality(H) + t - Cardinality({})
    BY <1>3, <2>1, <2>2, FS_Union
  <2> QED
    BY <1>3, <2>3, FS_EmptySet
<1> HIDE DEF H
<1>8. popc(n + 1) = Cardinality(H) + 1 /\ popc(n) = Cardinality(H) + t
  BY <1>1, <1>4, <1>5, <1>6, <1>7, PopcIs
<1> QED
  BY <1>2, <1>3, <1>8

\* The exponent of the power of two that a number reaches.
LEMMA Npw2Is ==
  ASSUME NEW a \in 1 .. 2 ^ Width
  PROVE  /\ npw2(a) \in 0 .. Width /\ 2 ^ npw2(a) >= a
         /\ \A j \in 0 .. npw2(a) - 1 : 2 ^ j < a
<1> DEFINE T == {k \in 0 .. Width : 2 ^ k >= a}
<1>1. Width \in Nat /\ a \in Nat /\ 2 ^ Width \in Nat
  BY CtzAssumption, PowerIsNat
<1>2. PICK k \in T : \A j \in T : k <= j
  <2>1. T \subseteq Nat /\ Width \in T
    BY <1>1
  <2> HIDE DEF T
  <2> QED
    BY <2>1, Least
<1>3. \A j \in 0 .. k - 1 : 2 ^ j < a
  <2> SUFFICES ASSUME NEW j \in 0 .. k - 1 PROVE 2 ^ j < a
    OBVIOUS
  <2>1. j \in 0 .. Width /\ j \in Nat /\ ~(k <= j)
    BY <1>1, <1>2
  <2>2. 2 ^ j \in Nat
    BY <2>1, PowerIsNat
  <2> QED
    BY <1>1, <1>2, <2>1, <2>2
<1>4. \E x \in 0 .. Width : 2 ^ x >= a /\ \A j \in 0 .. x - 1 : 2 ^ j < a
  BY <1>2, <1>3
<1> QED
  BY <1>4 DEF npw2

\* To go back by less than the lowest one leaves a number with its lowest one
\* there, ...
LEMMA CtzDown ==
  ASSUME NEW a \in 1 .. 2 ^ Width - 1, NEW s \in Nat, s < ctz(a)
  PROVE  a - 2 ^ s \in 1 .. 2 ^ Width - 1 /\ ctz(a - 2 ^ s) = s
<1>1. PICK t \in Nat, q \in Nat : t = ctz(a) /\ a = 2 ^ t * (2 * q + 1)
  BY CtzSplit
<1>2. s + 1 \in Nat /\ t >= s + 1
  BY <1>1
<1>3. PICK l \in Nat \ {0} : 2 ^ t = 2 ^ (s + 1) * l
  BY <1>1, <1>2, PowerDivides
<1>4. PICK m \in Nat \ {0} : m = 2 ^ s
  BY PowerIsPositive
<1>5. 2 ^ (s + 1) = 2 * m
  BY <1>4, PowerDoubles
<1>6. PICK r \in Nat : r = l * (2 * q + 1) - 1
  <2>1. l * (2 * q + 1) \in Nat /\ l * (2 * q + 1) > 0
    OBVIOUS
  <2> QED
    BY <2>1
<1>7. /\ ((2 * m) * l) * (2 * q + 1) = (2 * m) * (l * (2 * q + 1))
      /\ (2 * m) * (r + 1) = m * (2 * r + 1) + m
      /\ m * (2 * r + 1) \in Nat \ {0}
  OBVIOUS
<1>8. PICK c \in Nat \ {0} : c = m * (2 * r + 1)
  BY <1>7
<1>9. a = c + m
  <2>1. l * (2 * q + 1) = r + 1
    BY <1>6
  <2> QED
    BY <1>1, <1>3, <1>5, <1>7, <1>8, <2>1
<1>10. a - 2 ^ s = c /\ c \in 1 .. 2 ^ Width - 1 /\ c = 2 ^ s * (2 * r + 1)
  BY <1>4, <1>8, <1>9, CtzAssumption, PowerIsNat
<1> QED
  BY <1>10, CtzUnique

\* ... and to go back by the lowest one, one with more zeros.
LEMMA CtzClear ==
  ASSUME NEW a \in 1 .. 2 ^ Width - 1
  PROVE  /\ a - 2 ^ ctz(a) \in 0 .. 2 ^ Width - 1
         /\ a - 2 ^ ctz(a) > 0 => ctz(a - 2 ^ ctz(a)) > ctz(a)
<1>1. PICK t \in Nat, q \in Nat : t = ctz(a) /\ a = 2 ^ t * (2 * q + 1)
  BY CtzSplit
<1>2. PICK m \in Nat \ {0} : m = 2 ^ t
  BY PowerIsPositive
<1>3. m * (2 * q + 1) = (2 * m) * q + m /\ (2 * m) * q \in Nat
  OBVIOUS
<1>4. PICK c \in Nat : c = (2 * m) * q
  BY <1>3
<1>5. a - 2 ^ t = c /\ c \in 0 .. 2 ^ Width - 1
  BY <1>1, <1>2, <1>3, <1>4, CtzAssumption, PowerIsNat
<1>6. c = 2 ^ (t + 1) * q
  BY <1>2, <1>4, PowerDoubles
<1>7. ASSUME c > 0 PROVE ctz(c) > t
  <2>1. c \in 1 .. 2 ^ Width - 1
    BY <1>5, <1>7
  <2>2. \A j \in 0 .. (t + 1) - 1 : Bit(c, j) = 0
    BY <1>6, DivideZeros
  <2>3. ctz(c) \in Nat /\ Bit(c, ctz(c)) = 1
    BY <2>1, CtzIs, CtzAssumption
  <2> QED
    BY <2>2, <2>3
<1> QED
  BY <1>1, <1>5, <1>7

\* The blocks that a block's pointers go to exist.
LEMMA CtzReach ==
  ASSUME NEW a \in 1 .. 2 ^ Width - 1, NEW s \in 0 .. ctz(a)
  PROVE  2 ^ s \in 1 .. a
<1>1. PICK t \in Nat, q \in Nat : t = ctz(a) /\ a = 2 ^ t * (2 * q + 1)
  BY CtzSplit
<1>2. s \in Nat /\ s <= t
  BY <1>1
<1>3. PICK m \in Nat \ {0}, n \in Nat \ {0} : m = 2 ^ t /\ n = 2 ^ s
  BY <1>2, PowerIsPositive
<1>4. n <= m
  BY <1>2, <1>3, PowerGrows
<1>5. m * (2 * q + 1) = m + m * (2 * q) /\ m * (2 * q) \in Nat
  OBVIOUS
<1>6. a >= m
  BY <1>1, <1>3, <1>5
<1> QED
  BY <1>3, <1>4, <1>6, CtzAssumption, PowerIsNat

-----------------------------------------------------------------------------
\* The layout: how many pointers a block starts with (lfs_ctz_extend), and how
\* many bytes of the file are in the blocks before it.

Skips(n) == IF n = 0 THEN 0 ELSE ctz(n) + 1

Base(n) ==
  IF n = 0 THEN 0 ELSE n * (BlockSize - 2 * 4) + 2 * 4 + 4 * popc(n - 1)

\* What the numbers of blocks are.
LEMMA IndexType ==
  ASSUME NEW n \in 0 .. MaxIndex
  PROVE  /\ n \in Nat /\ n <= MaxIndex /\ n < 2 ^ Width
         /\ Width \in Nat /\ MaxIndex \in Nat /\ 2 ^ Width \in Nat
BY CtzAssumption, PowerIsNat

\* ... and what the trailing zeros of such a number are.
LEMMA CtzType ==
  ASSUME NEW n \in 1 .. MaxIndex
  PROVE  n \in 1 .. 2 ^ Width - 1 /\ ctz(n) \in Nat
<1>1. n \in 1 .. 2 ^ Width - 1
  BY CtzAssumption, PowerIsNat
<1> QED
  BY <1>1, CtzSplit

\* The layout is made of natural numbers.
LEMMA SkipsType ==
  ASSUME NEW n \in 0 .. MaxIndex
  PROVE  Skips(n) \in Nat /\ Base(n) \in Nat /\ Base(n + 1) \in Nat
<1>1. n \in Nat /\ n + 1 \in Nat /\ BlockSize - 2 * 4 \in Nat
  <2>1. popc(n) \in Nat
    BY IndexType, PopcIs
  <2> QED
    BY <2>1, IndexType, PointersFit, CtzAssumption
<1>2. n > 0 => ctz(n) \in Nat
  BY IndexType, CtzType
<1>3. ASSUME NEW k \in Nat PROVE Base(k) \in Nat
  <2>1. CASE k = 0
    BY <2>1 DEF Base
  <2>2. CASE k > 0
    <3>1. k - 1 \in Nat
      BY <2>2
    <3>2. popc(k - 1) \in Nat
      BY <3>1, PopcIs
    <3>3. k * (BlockSize - 2 * 4) \in Nat
      BY <1>1
    <3> QED
      BY <2>2, <3>2, <3>3 DEF Base
  <2> QED
    BY <2>1, <2>2
<1>4. Skips(n) \in Nat
  BY <1>1, <1>2 DEF Skips
<1> QED
  BY <1>1, <1>3, <1>4

\* A block holds what its pointers leave of it, at least a byte.
LEMMA BaseNext ==
  ASSUME NEW n \in 0 .. MaxIndex
  PROVE  /\ Base(n + 1) = Base(n) + BlockSize - 4 * Skips(n)
         /\ 4 * Skips(n) < BlockSize
<1>1. PICK b \in Int : b = BlockSize - 2 * 4
  BY CtzAssumption
<1>2. n \in Nat /\ popc(n) \in Nat /\ 4 * (popc(n) + 2) <= b /\ BlockSize = b + 8
  BY <1>1, IndexType, PopcIs, PointersFit, CtzAssumption
<1>3. Base(n + 1) = (n + 1) * b + 8 + 4 * popc(n)
  BY <1>1, <1>2 DEF Base
<1>4. CASE n = 0
  <2>1. popc(n) = 0 /\ Skips(n) = 0 /\ Base(n) = 0
    BY <1>4, PopcZero DEF Skips, Base
  <2>2. (n + 1) * b = b
    BY <1>4
  <2> QED
    BY <1>2, <1>3, <2>1, <2>2
<1>5. CASE n > 0
  <2>1. PICK k \in Nat : k = n - 1 /\ n = k + 1
    BY <1>2, <1>5
  <2>2. popc(k) + 2 = popc(n) + (ctz(n) + 1)
    BY <1>2, <2>1, PopcNext, IndexType
  <2>3. popc(k) \in Nat /\ ctz(n) \in Nat /\ 4 * (popc(k) + 2) <= b
    <3>1. k \in 0 .. MaxIndex
      BY <2>1, CtzAssumption
    <3> QED
      BY <1>1, <1>5, <3>1, PopcIs, CtzType, IndexType, PointersFit
  <2>4. Skips(n) = ctz(n) + 1 /\ Base(n) = n * b + 8 + 4 * popc(k)
    BY <1>1, <1>5, <2>1 DEF Skips, Base
  <2>5. PICK x \in Int : x = n * b /\ (n + 1) * b = x + b
    BY <1>2
  <2>6. PICK c \in Int, d \in Int, t \in Int : c = popc(n) /\ d = popc(k) /\ t = ctz(n)
    BY <1>2, <2>3
  <2>7. Base(n + 1) = x + b + 8 + 4 * c /\ Base(n) = x + 8 + 4 * d
    BY <1>3, <2>4, <2>5, <2>6
  <2>8. d + 2 = c + (t + 1) /\ Skips(n) = t + 1 /\ 4 * (d + 2) <= b /\ c >= 0
    BY <1>2, <2>2, <2>3, <2>4, <2>6
  <2> QED
    BY ONLY <1>2, <2>7, <2>8, b \in Int, c \in Int, d \in Int, t \in Int, x \in Int
<1> QED
  BY <1>2, <1>4, <1>5

\* Blocks with higher numbers start with later bytes.
LEMMA BaseGrows ==
  ASSUME NEW n \in 0 .. MaxIndex, NEW k \in 0 .. MaxIndex, n < k
  PROVE  Base(n) < Base(k)
<1>1. PICK b \in Int : b = BlockSize - 2 * 4
  BY CtzAssumption
<1>2. n \in Nat /\ k \in Nat /\ k - 1 \in Nat /\ k - n - 1 \in Nat
  BY IndexType
<1>3. popc(k - 1) \in Nat /\ b \in Nat
  <2>1. popc(n) \in Nat
    BY <1>2, PopcIs
  <2> QED
    BY <1>1, <1>2, <2>1, PopcIs, PointersFit
<1>4. Base(k) = k * b + 8 + 4 * popc(k - 1)
  BY <1>1, <1>2 DEF Base
<1>5. k * b = n * b + b + (k - n - 1) * b /\ (k - n - 1) * b \in Nat /\ n * b \in Nat
  BY <1>2, <1>3
<1>6. CASE n = 0
  <2>1. Base(n) = 0
    BY <1>6 DEF Base
  <2> QED
    BY <1>3, <1>4, <1>5, <2>1
<1>7. CASE n > 0
  <2>1. n - 1 \in 0 .. MaxIndex /\ n - 1 \in Nat
    BY <1>2, <1>7, IndexType
  <2>2. popc(n - 1) \in Nat /\ 4 * (popc(n - 1) + 2) <= b
    BY <1>1, <2>1, PopcIs, PointersFit
  <2>3. Base(n) = n * b + 8 + 4 * popc(n - 1)
    BY <1>1, <1>7 DEF Base
  <2> QED
    BY <1>3, <1>4, <1>5, <2>2, <2>3
<1> QED
  BY <1>2, <1>6, <1>7

\* lfs_ctz_index: the closed formula gives the block that holds the byte and
\* where in it the byte is.
THEOREM IndexIs ==
  ASSUME NEW n \in 0 .. MaxIndex, NEW p \in Int, Base(n) <= p, p < Base(n + 1)
  PROVE  Index(p) = [index |-> n, off |-> p - Base(n) + 4 * Skips(n)]
<1>1. PICK b \in Int : b = BlockSize - 2 * 4
  BY CtzAssumption
<1>2. /\ n \in Nat /\ popc(n) \in Nat /\ 4 * (popc(n) + 2) <= b /\ b \in Nat \ {0}
      /\ BlockSize = b + 8
  BY <1>1, IndexType, PopcIs, PointersFit, CtzAssumption
<1>3. Base(n + 1) = Base(n) + BlockSize - 4 * Skips(n) /\ Base(n) \in Nat
      /\ Skips(n) \in Nat
  BY BaseNext, SkipsType
<1>4. Base(n + 1) = n * b + b + 8 + 4 * popc(n) /\ n * b \in Nat /\ n * b = b * n
  <2>1. Base(n + 1) = (n + 1) * b + 8 + 4 * popc(n)
    BY <1>1, <1>2 DEF Base
  <2>2. (n + 1) * b = n * b + b /\ n * b \in Nat /\ n * b = b * n
    BY <1>2
  <2> QED
    BY <1>2, <2>1, <2>2
\* the offset, whichever way the block is found
<1>5. p - Base(n) + 4 * Skips(n) = p - b * n - 4 * popc(n)
  <2>1. PICK x \in Int, c \in Int, s \in Int, z \in Int :
          x = n * b /\ x = b * n /\ c = popc(n) /\ s = Skips(n) /\ z = Base(n)
    BY <1>2, <1>3, <1>4
  <2>2. x + b + 8 + 4 * c = z + (b + 8) - 4 * s
    BY <1>2, <1>3, <1>4, <2>1
  <2>3. p - z + 4 * s = p - x - 4 * c
    BY ONLY <2>2, b \in Int, p \in Int, x \in Int, c \in Int, s \in Int, z \in Int
  <2> QED
    BY <2>1, <2>3
<1>6. b * (n + 1) = b * n + b /\ b * (n + 1) \in Int
  BY <1>2
<1>7. ASSUME NEW c \in Int, b * n + 4 * (c + 2) <= p, p < b * n + b + 4 * (c + 2),
             c = popc((p \div b) - 1), p \div b # 0
      PROVE  Index(p) = [index |-> n, off |-> p - b * n - 4 * popc(n)]
  <2>1. PICK r \in 0 .. b - 1 : p - 4 * (c + 2) = b * n + r
    <3>1. p - 4 * (c + 2) - b * n \in 0 .. b - 1
      BY <1>2, <1>4, <1>7
    <3> QED
      BY <1>4, <3>1
  <2>2. PICK q \in Int : q = p - 4 * (c + 2)
    BY <1>7
  <2>3. q \div b = n
    BY <1>2, <2>1, <2>2, DivIs
  <2> QED
    BY <1>1, <1>7, <2>2, <2>3 DEF Index
<1>8. CASE p < b
  <2>1. p \div b = 0
    <3>1. p = b * 0 + p /\ p \in 0 .. b - 1
      BY <1>2, <1>3, <1>8
    <3> QED
      BY <1>2, <3>1, DivIs
  <2>2. n = 0
    <3> SUFFICES ASSUME n > 0 PROVE FALSE
      BY <1>2
    <3>1. popc(n - 1) \in Nat /\ (n - 1) * b \in Nat /\ n * b = (n - 1) * b + b
      <4>1. n - 1 \in Nat
        BY <1>2
      <4> QED
        BY <1>2, <4>1, PopcIs
    <3>2. Base(n) = n * b + 8 + 4 * popc(n - 1)
      BY <1>1 DEF Base
    <3> QED
      BY <1>2, <1>8, <3>1, <3>2
  <2>3. Index(p) = [index |-> 0, off |-> p]
    BY <1>1, <2>1 DEF Index
  <2>4. p - b * n - 4 * popc(n) = p
    <3>1. popc(n) = 0 /\ b * n = 0
      BY <1>2, <2>2, PopcZero
    <3> QED
      BY <3>1
  <2> QED
    BY <1>5, <2>2, <2>3, <2>4
<1>9. CASE p >= b /\ p < b * n + b
  <2>1. n > 0
    <3>1. n = 0 => b * n = 0
      BY <1>2
    <3> QED
      BY <1>2, <1>9, <3>1
  <2>2. PICK k \in Nat : k = n - 1 /\ popc(k) \in Nat
    <3>1. n - 1 \in Nat
      BY <1>2, <2>1
    <3> QED
      BY <3>1, PopcIs
  <2>3. Base(n) = n * b + 8 + 4 * popc(k)
    BY <1>1, <2>1, <2>2 DEF Base
  <2>4. p \div b = n
    <3>1. p - b * n \in 0 .. b - 1 /\ p = b * n + (p - b * n)
      BY <1>2, <1>4, <1>9, <2>2, <2>3
    <3>2. PICK r \in 0 .. b - 1 : p = b * n + r
      BY <3>1
    <3> QED
      BY <1>2, <3>2, DivIs
  <2>5. b * n + 4 * (popc(k) + 2) <= p /\ p < b * n + b + 4 * (popc(k) + 2)
    BY <1>2, <1>4, <1>9, <2>2, <2>3
  <2> QED
    BY <1>2, <1>5, <1>7, <2>1, <2>2, <2>4, <2>5
<1>10. CASE p >= b * n + b
  <2>1. p \div b = n + 1
    <3>1. p - b * (n + 1) \in 0 .. b - 1 /\ p = b * (n + 1) + (p - b * (n + 1))
      BY <1>2, <1>4, <1>6, <1>10
    <3>2. PICK r \in 0 .. b - 1 : p = b * (n + 1) + r
      BY <3>1
    <3> QED
      BY <1>2, <3>2, DivIs
  <2>2. b * n + 4 * (popc(n) + 2) <= p /\ p < b * n + b + 4 * (popc(n) + 2)
    BY <1>2, <1>4, <1>10
  <2>3. (n + 1) - 1 = n /\ n + 1 # 0
    BY <1>2
  <2> QED
    BY <1>2, <1>5, <1>7, <2>1, <2>2, <2>3
<1> QED
  BY <1>2, <1>4, <1>8, <1>9, <1>10

\* A number below m + 1 has fewer trailing zeros than m + 1 has digits.
LEMMA CtzBound ==
  ASSUME NEW m \in 0 .. MaxIndex, NEW n \in 1 .. m
  PROVE  ctz(n) \in Nat /\ npw2(m + 1) \in Nat /\ ctz(n) < npw2(m + 1)
<1>1. m \in Nat /\ m + 1 \in 1 .. 2 ^ Width /\ n \in 1 .. 2 ^ Width - 1 /\ Width \in Nat
  BY CtzAssumption, PowerIsNat
<1>2. PICK k \in Nat : k = npw2(m + 1) /\ 2 ^ k >= m + 1
  BY <1>1, Npw2Is
<1>3. PICK t \in Nat : t = ctz(n)
  BY <1>1, CtzSplit
<1>4. 2 ^ t \in 1 .. n
  BY <1>1, <1>3, CtzReach
<1>5. 2 ^ k \in Nat /\ 2 ^ t \in Nat
  BY PowerIsNat
<1>6. 2 ^ t < 2 ^ k
  BY <1>1, <1>2, <1>4, <1>5
<1> QED
  BY <1>2, <1>3, <1>6, PowerOrder

\* lfs_ctz_find: the pointer to follow exists and does not go too far back,
\* and unless it is the block's last one it goes more than half the way.
LEMMA SkipIs ==
  ASSUME NEW current \in 1 .. MaxIndex, NEW target \in 0 .. current - 1
  PROVE  LET skip == Skip(current, target) IN
         /\ skip \in Nat /\ skip <= ctz(current)
         /\ 2 ^ skip \in 1 .. current - target
         /\ skip # ctz(current) => current - target < 2 * 2 ^ skip
<1>1. PICK d \in Nat : d = current - target /\ d > 0 /\ d + 1 \in 1 .. 2 ^ Width
  BY CtzAssumption, PowerIsNat
<1>2. PICK k \in Nat : k = npw2(d + 1) /\ 2 ^ k >= d + 1 /\ \A j \in 0 .. k - 1 : 2 ^ j < d + 1
  BY <1>1, Npw2Is, CtzAssumption
<1>3. k > 0
  <2>1. k = 0 => 2 ^ k = 1
    BY PowerIsPositive
  <2> QED
    BY <1>1, <1>2, <2>1
<1>4. PICK s \in Nat : s = k - 1 /\ 2 ^ s < d + 1 /\ k = s + 1
  BY <1>2, <1>3
<1>5. PICK n \in Nat \ {0} : n = 2 ^ s /\ n <= d /\ d < 2 * n
  <2>1. 2 ^ (s + 1) = 2 * 2 ^ s /\ 2 ^ s \in Nat \ {0}
    BY PowerDoubles, PowerIsPositive
  <2> QED
    BY <1>1, <1>2, <1>4, <2>1
<1>6. PICK t \in Nat : t = ctz(current)
  BY CtzType
<1>7. Skip(current, target) = IF s < t THEN s ELSE t
  <2>1. current - target + 1 = d + 1
    BY <1>1
  <2> QED
    BY <1>2, <1>4, <1>6, <2>1 DEF Skip, Smaller
<1>8. CASE s < t
  BY <1>1, <1>5, <1>6, <1>7, <1>8
<1>9. CASE ~(s < t)
  <2>1. 2 ^ t \in Nat \ {0} /\ 2 ^ t <= n
    BY <1>5, <1>9, PowerIsPositive, PowerGrows
  <2> QED
    BY <1>1, <1>5, <1>6, <1>7, <1>9, <2>1
<1> QED
  BY <1>8, <1>9

-----------------------------------------------------------------------------
\* The inductive invariant

\* Every block of the list has its pointers.
Linked(m, L) ==
  /\ m \in 0 .. MaxIndex /\ L \in [0 .. m -> Names] /\ L[m] = head
  /\ \A n \in 0 .. m :
       /\ L[n] % (MaxIndex + 1) = n
       /\ Len(ptrs[L[n]]) = Skips(n)
       /\ \A j \in 1 .. Skips(n) :
            n - 2 ^ (j - 1) \in 0 .. n - 1 /\ ptrs[L[n]][j] = L[n - 2 ^ (j - 1)]

\* The bytes fill the blocks up to the last one, and that one as far as off.
Filled(m) == size \in Base(m) .. Base(m + 1) /\ off = size - Base(m) + 4 * Skips(m)

Places == [block : Int, off : Int]

\* Every byte is where the closed formula says.
Placed(m, L) ==
  /\ where \in Seq(Places) /\ Len(where) = size
  /\ \A k \in 0 .. size - 1 :
       /\ Index(k).index \in 0 .. m /\ Index(k).off >= 4 * Skips(Index(k).index)
       /\ where[k + 1] = [block |-> L[Index(k).index], off |-> Index(k).off]

List(m, L) == Linked(m, L) /\ Filled(m) /\ Placed(m, L)

\* How far a search has come: in its first part the blocks it reaches have
\* more and more pointers, in its second part fewer and fewer.
Paced(m, current, target, hops) ==
  /\ hops \in 0 .. 2 * npw2(m + 1)
  /\ current > target =>
       \/ hops <= ctz(current)
       \/ \E r \in 0 .. ctz(current) :
            current - target < 2 ^ r /\ hops + r <= 2 * npw2(m + 1)

Finds(m, L) ==
  /\ size > Base(m)
  /\ \E current \in 0 .. m, target \in 0 .. m, pos \in 0 .. size - 1, hops \in Nat :
       /\ walk = [op |-> "find", at |-> L[current], current |-> current,
                  target |-> target, pos |-> pos, hops |-> hops]
       /\ target <= current /\ target = Index(pos).index
       /\ Paced(m, current, target, hops)

Traverses(m, L) ==
  /\ size > Base(m)
  /\ \E index \in 0 .. m :
       walk = [op |-> "traverse", at |-> L[index], index |-> index,
               seen |-> [k \in 1 .. m - index + 1 |-> L[m + 1 - k]]]

Fresh ==
  /\ ptrs = [b \in Names |-> <<>>] /\ copies = 0
  /\ head = Null /\ size = 0 /\ off = 0 /\ where = <<>> /\ walk = Idle

CtzInv ==
  /\ copies \in 0 .. MaxCopies /\ DOMAIN ptrs = Names
  /\ \/ Fresh
     \/ \E m \in 0 .. MaxIndex : \E L \in [0 .. m -> Names] :
          List(m, L) /\ (walk = Idle \/ Finds(m, L) \/ Traverses(m, L))

-----------------------------------------------------------------------------
\* What there is to know of an extended sequence, ...
LEMMA AppendIs ==
  ASSUME NEW S, NEW s \in Seq(S), NEW e \in S
  PROVE  /\ Append(s, e) \in Seq(S) /\ Len(Append(s, e)) = Len(s) + 1
         /\ \A i \in 1 .. Len(s) : Append(s, e)[i] = s[i]
         /\ Append(s, e)[Len(s) + 1] = e
BY AppendProperties

\* ... and which functions are sequences.
LEMMA FunctionIsSeq ==
  ASSUME NEW S, NEW n \in Nat, NEW f \in [1 .. n -> S]
  PROVE  f \in Seq(S) /\ Len(f) = n
OBVIOUS

\* A block's name tells its number.
LEMMA NameMod ==
  ASSUME NEW n \in 0 .. MaxIndex, NEW c \in 0 .. MaxCopies
  PROVE  /\ Name(n, c) \in Names /\ Name(n, c) % (MaxIndex + 1) = n
         /\ Name(n, c) # Null
<1>1. PICK w \in Nat \ {0} : w = MaxIndex + 1
  BY CtzAssumption
<1>2. c \in Nat /\ MaxCopies \in Nat /\ n \in 0 .. w - 1 /\ MaxCopies - c \in Nat
  BY <1>1, CtzAssumption
<1>3. PICK x \in Nat : x = c * w
  BY <1>2
<1>4. w * (MaxCopies + 1) = c * w + (MaxCopies - c) * w + w
      /\ (MaxCopies - c) * w \in Nat /\ w * c = c * w
  BY <1>2
<1>5. Name(n, c) = n + x /\ Names = 0 .. w * (MaxCopies + 1) - 1
  BY <1>1, <1>3 DEF Name, Names
<1>6. Name(n, c) \in Names /\ Name(n, c) # Null
  BY <1>2, <1>3, <1>4, <1>5 DEF Null
<1>7. n + x = w * c + n /\ n + x \in Int /\ c \in Int
  BY <1>2, <1>3, <1>4
<1>8. (n + x) % w = n
  BY <1>2, <1>7, ModIs
<1> QED
  BY <1>1, <1>5, <1>6, <1>8

\* The last block in which there is a byte.
LEMMA LastIndex ==
  ASSUME NEW m \in 0 .. MaxIndex, Filled(m), size > Base(m)
  PROVE  /\ Index(size - 1) = [index |-> m, off |-> off - 1]
         /\ size - 1 \in 0 .. size - 1 /\ size \in Nat /\ off \in Int
<1>1. Base(m) \in Nat /\ Base(m + 1) \in Nat /\ Skips(m) \in Nat
  BY SkipsType
<1>2. PICK p \in Int : p = size - 1 /\ Base(m) <= p /\ p < Base(m + 1)
  BY <1>1 DEF Filled
<1>3. Index(p) = [index |-> m, off |-> p - Base(m) + 4 * Skips(m)]
  BY <1>2, IndexIs
<1> QED
  BY <1>1, <1>2, <1>3 DEF Filled

\* lfs_file_flush makes a block the head when a byte has been written to it.
LEMMA FlushedIs ==
  ASSUME NEW m \in 0 .. MaxIndex, NEW L, List(m, L), Flushed
  PROVE  size > Base(m)
<1>1. Base(m) \in Nat /\ size \in Int /\ size >= Base(m) /\ size > 0
  BY SkipsType DEF List, Filled, Flushed
<1> SUFFICES ASSUME size = Base(m) PROVE FALSE
  BY <1>1
<1>2. m > 0
  BY <1>1, IndexType DEF Base
<1>3. PICK n \in 0 .. MaxIndex : m = n + 1
  BY <1>2, IndexType
<1>4. n \in Nat /\ m \in Nat /\ Base(n) \in Nat /\ Skips(n) \in Nat
  BY <1>3, IndexType, SkipsType
<1>5. Base(m) = Base(n) + BlockSize - 4 * Skips(n) /\ 4 * Skips(n) < BlockSize
  BY <1>3, BaseNext
<1>6. PICK p \in Int : p = size - 1 /\ Base(n) <= p /\ p < Base(n + 1)
  BY <1>1, <1>3, <1>4, <1>5, CtzAssumption
<1>7. Index(p).index = n
  BY <1>6, IndexIs
<1>8. where[size].block = L[n]
  <2>1. p \in 0 .. size - 1 /\ p + 1 = size
    BY <1>1, <1>6
  <2>2. where[p + 1] = [block |-> L[Index(p).index], off |-> Index(p).off]
    BY <2>1 DEF List, Placed
  <2> QED
    BY <1>7, <2>1, <2>2
<1>9. L[n] % (MaxIndex + 1) = n /\ L[m] % (MaxIndex + 1) = m /\ L[m] = head
  BY <1>3, <1>4 DEF List, Linked
<1> QED
  BY <1>3, <1>4, <1>8, <1>9 DEF Flushed

\* There is no list at first.
THEOREM CtzInvInit == Init => CtzInv
BY CtzAssumption DEF Init, CtzInv, Fresh

-----------------------------------------------------------------------------
\* The list grows

\* lfs_ctz_extend of an empty file: a list of one block without pointers.
LEMMA FirstStep ==
  ASSUME CtzInv, First
  PROVE  CtzInv'
<1>1. 0 \in 0 .. MaxIndex /\ 0 \in 0 .. MaxCopies /\ BlockSize \in Nat
  BY CtzAssumption
<1>2. PICK new \in Names : new = Name(0, 0) /\ new % (MaxIndex + 1) = 0
  BY <1>1, NameMod
<1>3. PICK L : L = [n \in 0 .. 0 |-> new]
  OBVIOUS
<1>4. Fresh
  BY DEF CtzInv, First, List, Linked, Null, Names
<1>5. Skips(0) = 0 /\ Base(0) = 0 /\ Base(0 + 1) \in Nat
  BY <1>1, SkipsType DEF Skips, Base
<1>6. Linked(0, L)'
  <2>1. L \in [0 .. 0 -> Names] /\ L[0] = head'
    BY <1>2, <1>3 DEF First
  <2>2. Len(ptrs'[L[0]]) = 0
    BY <1>2, <1>3, <1>4 DEF First, Fresh
  <2> QED
    BY <1>1, <1>2, <1>3, <1>5, <2>1, <2>2 DEF Linked
<1>7. Filled(0)'
  BY <1>4, <1>5 DEF First, Fresh, Filled
<1>8. Placed(0, L)'
  BY <1>4 DEF First, Fresh, Placed
<1>9. walk' = Idle /\ copies' \in 0 .. MaxCopies /\ DOMAIN ptrs' = Names
  BY <1>1, <1>4 DEF First, Fresh
<1>10. List(0, L)' /\ L \in [0 .. 0 -> Names]
  BY <1>6, <1>7, <1>8 DEF List, Linked
<1> QED
  BY <1>1, <1>9, <1>10 DEF CtzInv

\* lfs_file_write: the byte goes where the closed formula will look for it.
LEMMA WriteStep ==
  ASSUME NEW m \in 0 .. MaxIndex, NEW L \in [0 .. m -> Names], List(m, L), Write
  PROVE  List(m, L)'
<1>1. /\ size' = size + 1 /\ off' = off + 1 /\ off < BlockSize
      /\ where' = Append(where, [block |-> head, off |-> off])
      /\ ptrs' = ptrs /\ head' = head
  BY DEF Write
<1>2. Base(m) \in Nat /\ Base(m + 1) \in Nat /\ Skips(m) \in Nat /\ BlockSize \in Nat
      /\ Base(m + 1) = Base(m) + BlockSize - 4 * Skips(m)
  BY SkipsType, BaseNext, CtzAssumption
<1>3. /\ size \in Nat /\ off \in Int /\ Base(m) <= size /\ size < Base(m + 1)
      /\ off = size - Base(m) + 4 * Skips(m)
  BY <1>1, <1>2 DEF List, Filled
<1>4. Index(size) = [index |-> m, off |-> off] /\ off >= 4 * Skips(m)
  BY <1>2, <1>3, IndexIs
<1>5. Linked(m, L)'
  BY <1>1 DEF List, Linked
<1>6. Filled(m)'
  <2>1. PICK x \in Int, y \in Int, z \in Int :
          x = Base(m) /\ y = Base(m + 1) /\ z = 4 * Skips(m)
    BY <1>2
  <2>2. PICK s \in Int, o \in Int : s = size /\ o = off
    BY <1>3
  <2>3. x <= s /\ s < y
    BY <1>3, <2>1, <2>2
  <2>4. o = s - x + z
    BY <1>3, <2>1, <2>2
  <2>5. s + 1 \in x .. y /\ o + 1 = (s + 1) - x + z
    BY <2>3, <2>4
  <2>6. size' \in Base(m) .. Base(m + 1)
    BY <1>1, <2>1, <2>2, <2>5
  <2>7. off' = size' - Base(m) + 4 * Skips(m)
    BY <1>1, <2>1, <2>2, <2>5
  <2> QED
    BY <2>6, <2>7 DEF Filled
<1>7. Placed(m, L)'
  <2> DEFINE e == [block |-> head, off |-> off]
  <2>1. m \in 0 .. m /\ L[m] = head /\ head \in Int
    <3>1. m \in 0 .. m /\ L[m] = head
      BY IndexType DEF List, Linked
    <3> QED
      BY <3>1, CtzAssumption DEF Names
  <2>2. where \in Seq(Places) /\ Len(where) = size
    BY DEF List, Placed
  <2>3. e \in Places
    BY <1>3, <2>1 DEF Places
  <2>4. /\ where' \in Seq(Places) /\ Len(where') = size + 1
        /\ \A i \in 1 .. size : where'[i] = where[i]
        /\ where'[size + 1] = e
    <3>1. where' = Append(where, e)
      BY <1>1
    <3> HIDE DEF e
    <3> QED
      BY <2>2, <2>3, <3>1, AppendIs
  <2>5. ASSUME NEW k \in 0 .. size' - 1
        PROVE  /\ Index(k).index \in 0 .. m
               /\ Index(k).off >= 4 * Skips(Index(k).index)
               /\ where'[k + 1] = [block |-> L[Index(k).index], off |-> Index(k).off]
    <3>1. CASE k = size
      BY <1>4, <2>1, <2>4, <3>1
    <3>2. CASE k # size
      <4>1. k \in 0 .. size - 1 /\ k + 1 \in 1 .. size
        BY <1>1, <1>3, <3>2
      <4> QED
        BY <2>4, <4>1 DEF List, Placed
    <3> QED
      BY <3>1, <3>2
  <2> QED
    BY <1>1, <2>4, <2>5 DEF Placed
<1> QED
  BY <1>5, <1>6, <1>7 DEF List

\* A copy of the last block takes its place in the list.
LEMMA CopyStep ==
  ASSUME NEW m \in 0 .. MaxIndex, NEW L \in [0 .. m -> Names], List(m, L), Copy,
         copies \in 0 .. MaxCopies, DOMAIN ptrs = Names
  PROVE  \E K \in [0 .. m -> Names] : List(m, K)'
<1>1. size > Base(m)
  BY FlushedIs DEF Copy
<1>2. /\ Index(size - 1) = [index |-> m, off |-> off - 1]
      /\ size \in Nat /\ off \in Int
  BY <1>1, LastIndex DEF List
<1>3. copies + 1 \in 0 .. MaxCopies
  BY CtzAssumption DEF Copy
<1>4. PICK new \in Names : new = Name(m, copies + 1) /\ new % (MaxIndex + 1) = m
  BY <1>3, NameMod
<1>5. /\ head' = new /\ ptrs' = [ptrs EXCEPT ![new] = ptrs[head]]
      /\ off' = off /\ size' = size
      /\ where' = [k \in DOMAIN where |->
             IF where[k].block = head THEN [where[k] EXCEPT !.block = new]
             ELSE where[k]]
  <2>1. off - 1 + 1 = off
    BY <1>2
  <2>2. PICK last : last = Index(size - 1) /\ last.index = m /\ last.off = off - 1
    BY <1>2
  <2> QED
    BY <1>4, <2>1, <2>2 DEF Copy
<1>6. PICK K : K = [n \in 0 .. m |-> IF n = m THEN new ELSE L[n]]
  OBVIOUS
<1>7. m \in 0 .. m /\ m \in Nat /\ MaxIndex \in Nat
  BY IndexType
<1>8. K \in [0 .. m -> Names] /\ K[m] = new
  BY <1>6, <1>7
<1>9. Linked(m, K)'
  <2>1. ASSUME NEW n \in 0 .. m
        PROVE  K[n] % (MaxIndex + 1) = n /\ ptrs'[K[n]] = ptrs[L[n]]
    <3>1. CASE n = m
      BY <1>4, <1>5, <1>8, <3>1 DEF List, Linked
    <3>2. CASE n # m
      <4>1. K[n] = L[n] /\ L[n] % (MaxIndex + 1) = n
        BY <1>6, <3>2 DEF List, Linked
      <4>2. L[n] # new
        BY <1>4, <3>2, <4>1
      <4> QED
        BY <1>5, <4>1, <4>2
    <3> QED
      BY <3>1, <3>2
  <2>2. ASSUME NEW n \in 0 .. m, NEW j \in 1 .. Skips(n)
        PROVE  n - 2 ^ (j - 1) \in 0 .. n - 1 /\ ptrs'[K[n]][j] = K[n - 2 ^ (j - 1)]
    <3>1. PICK i \in 0 .. n - 1 : i = n - 2 ^ (j - 1) /\ ptrs[L[n]][j] = L[i]
      BY DEF List, Linked
    <3>2. K[i] = L[i]
      BY <1>6, <1>7, <3>1
    <3> QED
      BY <2>1, <3>1, <3>2
  <2>3. \A n \in 0 .. m : Len(ptrs'[K[n]]) = Skips(n)
    BY <2>1 DEF List, Linked
  <2> QED
    BY <1>5, <1>8, <2>1, <2>2, <2>3 DEF Linked
<1>10. Filled(m)'
  BY <1>5 DEF List, Filled
<1>11. Placed(m, K)'
  <2>1. /\ where \in Seq(Places) /\ Len(where) = size
        /\ DOMAIN where = 1 .. size
    BY LenProperties DEF List, Placed
  <2>2. new \in Int
    BY <1>4, CtzAssumption DEF Names
  <2>3. /\ where' \in Seq(Places) /\ Len(where') = size
    <3>1. \A k \in 1 .. size : where[k] \in Places
      BY <2>1, ElementOfSeq
    <3>2. \A k \in 1 .. size : [where[k] EXCEPT !.block = new] \in Places
      BY <2>2, <3>1 DEF Places
    <3>3. where' \in [1 .. size -> Places]
      BY <1>5, <2>1, <3>1, <3>2
    <3> QED
      BY <1>2, <3>3, FunctionIsSeq
  <2>4. ASSUME NEW k \in 0 .. size - 1
        PROVE  where'[k + 1] = [block |-> K[Index(k).index], off |-> Index(k).off]
    <3>1. PICK n \in 0 .. m : n = Index(k).index
      BY DEF List, Placed
    <3>2. where[k + 1] = [block |-> L[n], off |-> Index(k).off]
      BY <3>1 DEF List, Placed
    <3>3. k + 1 \in 1 .. size
      BY <1>2
    <3>4. L[n] % (MaxIndex + 1) = n /\ L[m] % (MaxIndex + 1) = m /\ L[m] = head
      BY <1>7 DEF List, Linked
    <3>5. CASE n = m
      <4>1. where'[k + 1] = [where[k + 1] EXCEPT !.block = new]
        BY <1>5, <2>1, <3>2, <3>3, <3>4, <3>5
      <4> QED
        BY <1>8, <3>1, <3>2, <3>5, <4>1
    <3>6. CASE n # m
      <4>1. where'[k + 1] = where[k + 1]
        BY <1>5, <2>1, <3>2, <3>3, <3>4, <3>6
      <4> QED
        BY <1>6, <3>1, <3>2, <3>6, <4>1
    <3> QED
      BY <3>5, <3>6
  <2> QED
    BY <1>5, <2>3, <2>4 DEF List, Placed
<1> QED
  BY <1>8, <1>9, <1>10, <1>11 DEF List

\* lfs_ctz_extend reads a block's pointers from the list: the j-th of them goes
\* 2^(j-1) blocks back.
LEMMA PointersAre ==
  ASSUME NEW m \in 0 .. MaxIndex, NEW L \in [0 .. m -> Names], Linked(m, L),
         m + 1 <= MaxIndex
  PROVE  /\ Pointers(m + 1, head) =
              [i \in 1 .. ctz(m + 1) + 1 |-> L[m + 1 - 2 ^ (i - 1)]]
         /\ \A i \in 1 .. ctz(m + 1) + 1 : m + 1 - 2 ^ (i - 1) \in 0 .. m
<1>1. PICK a \in Nat : a = m + 1 /\ a \in 1 .. MaxIndex /\ a \in 1 .. 2 ^ Width - 1
  BY CtzAssumption, PowerIsNat
<1>2. PICK c \in Nat : c = ctz(a) + 1 /\ ctz(a) \in Nat
  BY <1>1, CtzType
<1>3. ASSUME NEW i \in 1 .. c PROVE 2 ^ (i - 1) \in 1 .. a /\ a - 2 ^ (i - 1) \in 0 .. m
  <2>1. i - 1 \in 0 .. ctz(a)
    BY <1>2
  <2> QED
    BY <1>1, <2>1, CtzReach
<1> DEFINE Q == [i \in 1 .. c |-> L[a - 2 ^ (i - 1)]]
           Reads(f) == f = [i \in 1 .. c |-> IF i = 1 THEN head ELSE ptrs[f[i - 1]][i - 1]]
<1>4. Pointers(a, head) = CHOOSE f : Reads(f)
  BY <1>2 DEF Pointers
<1>5. Q[1] = head
  <2>1. 1 \in 1 .. c /\ 1 - 1 = 0 /\ 2 ^ 0 = 1 /\ a - 1 = m
    BY <1>1, <1>2, PowerIsPositive
  <2>2. Q[1] = L[a - 2 ^ (1 - 1)]
    BY <2>1
  <2>3. a - 2 ^ (1 - 1) = m
    BY <2>1
  <2> QED
    BY <2>2, <2>3 DEF Linked
<1>6. ASSUME NEW i \in 1 .. c, i # 1
      PROVE  i - 1 \in 1 .. c /\ Q[i] = ptrs[Q[i - 1]][i - 1]
  <2>1. PICK s \in Nat : i = s + 2 /\ s < ctz(a) /\ i - 1 = s + 1 /\ i - 1 - 1 = s
    <3>1. i - 2 \in Nat /\ i = (i - 2) + 2
      BY <1>6
    <3> QED
      BY <1>2, <3>1
  <2>2. i - 1 \in 1 .. c
    BY <1>6
  <2>3. PICK n \in 0 .. m : n = a - 2 ^ s /\ Q[i - 1] = L[n]
    BY <1>3, <2>1, <2>2
  <2>4. ctz(n) = s /\ n \in 1 .. 2 ^ Width - 1
    BY <1>1, <2>1, <2>3, CtzDown
  <2>5. Skips(n) = s + 1
    BY <2>4 DEF Skips
  <2>6. s + 1 \in 1 .. Skips(n) /\ s + 1 - 1 = s
    BY <2>5
  <2>7. ptrs[L[n]][s + 1] = L[n - 2 ^ s]
    BY <2>6 DEF Linked
  <2>8. 2 ^ s \in Nat /\ 2 ^ (s + 1) = 2 * 2 ^ s
    BY PowerDoubles, PowerIsNat
  <2>9. n - 2 ^ s = a - 2 ^ (i - 1)
    BY <1>1, <2>1, <2>3, <2>8
  <2> QED
    BY <2>1, <2>2, <2>3, <2>7, <2>9
<1>7. Reads(Q)
  <2>1. \A i \in 1 .. c : Q[i] = IF i = 1 THEN head ELSE ptrs[Q[i - 1]][i - 1]
    BY <1>5, <1>6
  <2>2. Q = [i \in 1 .. c |-> Q[i]]
    OBVIOUS
  <2> HIDE DEF Q
  <2> QED
    BY <2>1, <2>2
<1>8. ASSUME NEW f, Reads(f) PROVE f = Q
  <2> DEFINE S == {k \in Nat : k + 1 \in 1 .. c => f[k + 1] = Q[k + 1]}
  <2>1. 0 \in S
    <3>1. 0 + 1 = 1
      OBVIOUS
    <3>2. 1 \in 1 .. c => f[1] = head
      BY <1>8
    <3> HIDE DEF Q
    <3> QED
      BY <1>5, <3>1, <3>2
  <2>2. ASSUME NEW k \in Nat, k \in S PROVE k + 1 \in S
    <3> SUFFICES ASSUME k + 1 + 1 \in 1 .. c PROVE f[k + 1 + 1] = Q[k + 1 + 1]
      OBVIOUS
    <3>1. PICK i \in 1 .. c : i = k + 1 + 1 /\ i # 1 /\ i - 1 = k + 1
      OBVIOUS
    <3>2. k + 1 \in 1 .. c
      BY <3>1
    <3>3. f[i] = ptrs[f[i - 1]][i - 1]
      BY <1>8, <3>1
    <3>4. Q[i] = ptrs[Q[i - 1]][i - 1]
      BY <1>6, <3>1
    <3>5. f[k + 1] = Q[k + 1]
      BY <2>2, <3>2
    <3> HIDE DEF Q
    <3> QED
      BY <3>1, <3>3, <3>4, <3>5
  <2>3. Nat \subseteq S
    <3> HIDE DEF S
    <3> QED
      BY <2>1, <2>2, Upwards
  <2>4. ASSUME NEW i \in 1 .. c PROVE f[i] = Q[i]
    <3>1. i - 1 \in Nat /\ i - 1 + 1 = i
      OBVIOUS
    <3>2. i - 1 \in S
      BY <2>3, <3>1
    <3> HIDE DEF Q
    <3> QED
      BY <3>1, <3>2
  <2>5. f = [i \in 1 .. c |-> f[i]]
    BY <1>8
  <2> QED
    BY <2>4, <2>5
<1>9. Pointers(a, head) = Q
  <2> HIDE DEF Q, Reads
  <2> QED
    BY <1>4, <1>7, <1>8
<1> QED
  BY <1>1, <1>2, <1>3, <1>9

\* lfs_ctz_extend after a complete block: the list has a block more, and the
\* number that lfs_ctz_index computed for the last byte is the last block's.
LEMMA ExtendStep ==
  ASSUME NEW m \in 0 .. MaxIndex, NEW L \in [0 .. m -> Names], List(m, L), Extend,
         copies \in 0 .. MaxCopies, DOMAIN ptrs = Names
  PROVE  m + 1 \in 0 .. MaxIndex /\ \E K \in [0 .. m + 1 -> Names] : List(m + 1, K)'
<1>1. Base(m) \in Nat /\ Base(m + 1) \in Nat /\ Skips(m) \in Nat /\ BlockSize \in Nat
      /\ Base(m + 1) = Base(m) + BlockSize - 4 * Skips(m) /\ 4 * Skips(m) < BlockSize
  BY SkipsType, BaseNext, CtzAssumption
<1>2. size = Base(m + 1) /\ size > Base(m) /\ size \in Nat
  <2>1. PICK x \in Int, y \in Int, z \in Int, s \in Int :
          x = Base(m) /\ y = Base(m + 1) /\ z = 4 * Skips(m) /\ s = size
    BY <1>1 DEF List, Filled
  <2>2. s \in x .. y /\ y = x + BlockSize - z /\ z < BlockSize /\ BlockSize = s - x + z
    BY <1>1, <2>1 DEF List, Filled, Extend
  <2>3. s = y /\ s > x
    BY ONLY <1>1, <2>2, x \in Int, y \in Int, z \in Int, s \in Int
  <2> QED
    BY <1>1, <2>1, <2>3
<1>3. PICK a \in Nat : a = m + 1 /\ Index(size - 1).index + 1 = a /\ m \in Nat
  <2>1. Index(size - 1) = [index |-> m, off |-> off - 1]
    BY <1>2, LastIndex DEF List
  <2>2. Index(size - 1).index = m
    BY <2>1
  <2>3. m \in Nat /\ m + 1 \in Nat
    BY IndexType
  <2> QED
    BY <2>2, <2>3
<1>4. a \in 1 .. MaxIndex /\ m + 1 <= MaxIndex
  BY <1>3, IndexType DEF Extend
<1>5. PICK new \in Names : new = Name(a, copies) /\ new % (MaxIndex + 1) = a
  <2>1. a \in 0 .. MaxIndex
    BY <1>4
  <2> QED
    BY <2>1, NameMod
<1>6. PICK P : /\ P = [i \in 1 .. ctz(a) + 1 |-> L[a - 2 ^ (i - 1)]]
               /\ P = Pointers(a, head)
               /\ \A i \in 1 .. ctz(a) + 1 : a - 2 ^ (i - 1) \in 0 .. m
  <2>1. Linked(m, L)
    BY DEF List
  <2>2. /\ Pointers(m + 1, head) = [i \in 1 .. ctz(m + 1) + 1 |-> L[m + 1 - 2 ^ (i - 1)]]
        /\ \A i \in 1 .. ctz(m + 1) + 1 : m + 1 - 2 ^ (i - 1) \in 0 .. m
    BY <1>4, <2>1, PointersAre
  <2> QED
    BY <1>3, <2>2
<1>7. /\ head' = new /\ ptrs' = [ptrs EXCEPT ![new] = P] /\ off' = 4 * (ctz(a) + 1)
      /\ size' = size /\ where' = where
  BY <1>3, <1>5, <1>6 DEF Extend
<1>8. ctz(a) \in Nat /\ Skips(a) = ctz(a) + 1
  BY <1>4, CtzType DEF Skips
<1>9. PICK K : K = [n \in 0 .. a |-> IF n = a THEN new ELSE L[n]]
  OBVIOUS
<1>10. \A n \in 0 .. m : n \in 0 .. a /\ n # a /\ K[n] = L[n]
  BY <1>3, <1>9
<1>11. K \in [0 .. a -> Names] /\ K[a] = new
  <2>1. \A n \in 0 .. a : n # a => n \in 0 .. m
    BY <1>3
  <2> QED
    BY <1>9, <2>1
<1>12. Linked(a, K)'
  <2>1. ASSUME NEW n \in 0 .. m
        PROVE  K[n] = L[n] /\ K[n] % (MaxIndex + 1) = n /\ ptrs'[K[n]] = ptrs[L[n]]
    <3>1. K[n] = L[n] /\ L[n] % (MaxIndex + 1) = n /\ n # a
      BY <1>10 DEF List, Linked
    <3>2. L[n] # new
      BY <1>5, <3>1
    <3> QED
      BY <1>7, <3>1, <3>2
  <2>2. ptrs'[K[a]] = P /\ K[a] % (MaxIndex + 1) = a /\ Len(P) = Skips(a)
    <3>1. ctz(a) + 1 \in Nat /\ P \in [1 .. ctz(a) + 1 -> Names]
      BY <1>6, <1>8
    <3>2. Len(P) = ctz(a) + 1
      BY <3>1, FunctionIsSeq
    <3> QED
      BY <1>5, <1>7, <1>8, <1>11, <3>2
  <2>3. ASSUME NEW n \in 0 .. m, NEW j \in 1 .. Skips(n)
        PROVE  n - 2 ^ (j - 1) \in 0 .. n - 1 /\ ptrs'[K[n]][j] = K[n - 2 ^ (j - 1)]
    <3>1. PICK i \in 0 .. n - 1 : i = n - 2 ^ (j - 1) /\ ptrs[L[n]][j] = L[i]
      BY DEF List, Linked
    <3>2. i \in 0 .. m
      BY <1>3
    <3> QED
      BY <1>10, <2>1, <3>1, <3>2
  <2>4. ASSUME NEW j \in 1 .. Skips(a)
        PROVE  a - 2 ^ (j - 1) \in 0 .. a - 1 /\ ptrs'[K[a]][j] = K[a - 2 ^ (j - 1)]
    <3>1. PICK i \in 0 .. m : i = a - 2 ^ (j - 1) /\ P[j] = L[i]
      BY <1>6, <1>8
    <3> QED
      BY <1>3, <1>10, <2>2, <3>1
  <2>5. \A n \in 0 .. a : n = a \/ n \in 0 .. m
    BY <1>3
  <2>6. \A n \in 0 .. a : K[n] % (MaxIndex + 1) = n /\ Len(ptrs'[K[n]]) = Skips(n)
    BY <2>1, <2>2, <2>5 DEF List, Linked
  <2>7. \A n \in 0 .. a : \A j \in 1 .. Skips(n) :
          n - 2 ^ (j - 1) \in 0 .. n - 1 /\ ptrs'[K[n]][j] = K[n - 2 ^ (j - 1)]
    BY <2>3, <2>4, <2>5
  <2>8. a \in 0 .. MaxIndex /\ K[a] = head'
    BY <1>4, <1>7, <1>11
  <2> QED
    BY <1>11, <2>6, <2>7, <2>8 DEF Linked
<1>13. Filled(a)'
  <2>1. Base(a) \in Nat /\ Base(a + 1) \in Nat /\ Base(a) < Base(a + 1)
    <3>1. a \in 0 .. MaxIndex
      BY <1>4
    <3>2. /\ Base(a + 1) = Base(a) + BlockSize - 4 * Skips(a) /\ 4 * Skips(a) < BlockSize
          /\ Base(a) \in Nat /\ Base(a + 1) \in Nat /\ Skips(a) \in Nat
      BY <3>1, BaseNext, SkipsType
    <3>3. PICK x \in Int, y \in Int, s \in Int : x = Base(a) /\ y = Base(a + 1) /\ s = Skips(a)
      BY <3>2
    <3>4. y = x + BlockSize - 4 * s /\ 4 * s < BlockSize
      BY <3>2, <3>3
    <3>5. x < y
      BY <1>1, <3>4
    <3> QED
      BY <3>2, <3>3, <3>5
  <2>2. size' = Base(a)
    BY <1>2, <1>3, <1>7
  <2>3. size' \in Base(a) .. Base(a + 1)
    BY <2>1, <2>2
  <2>4. off' = size' - Base(a) + 4 * Skips(a)
    <3>1. PICK x \in Int, s \in Int : x = Base(a) /\ s = Skips(a) /\ off' = 4 * s
      BY <1>7, <1>8, <2>1
    <3>2. x - x + 4 * s = 4 * s
      OBVIOUS
    <3> QED
      BY <2>2, <3>1, <3>2
  <2> QED
    BY <2>3, <2>4 DEF Filled
<1>14. Placed(a, K)'
  <2>1. ASSUME NEW k \in 0 .. size - 1
        PROVE  /\ Index(k).index \in 0 .. a
               /\ Index(k).off >= 4 * Skips(Index(k).index)
               /\ where[k + 1] = [block |-> K[Index(k).index], off |-> Index(k).off]
    <3>1. PICK n \in 0 .. m : n = Index(k).index
      BY DEF List, Placed
    <3>2. K[n] = L[n] /\ n \in 0 .. a
      BY <1>10
    <3> QED
      BY <3>1, <3>2 DEF List, Placed
  <2> QED
    BY <1>7, <2>1 DEF List, Placed
<1> QED
  BY <1>3, <1>4, <1>11, <1>12, <1>13, <1>14 DEF List

-----------------------------------------------------------------------------
\* The walks

\* lfs_ctz_find starts at the last block.
LEMMA FindStep ==
  ASSUME NEW m \in 0 .. MaxIndex, NEW L \in [0 .. m -> Names], List(m, L),
         NEW p \in Probes, Find(p)
  PROVE  Finds(m, L)'
<1>1. size > Base(m)
  BY FlushedIs DEF Find
<1>2. Index(size - 1) = [index |-> m, off |-> off - 1] /\ size \in Nat
  BY <1>1, LastIndex DEF List
<1>3. p \in 0 .. size - 1
  BY DEF Probes
<1>4. PICK target \in 0 .. m : target = Index(p).index
  BY <1>3 DEF List, Placed
<1>5. m \in 0 .. m /\ head = L[m] /\ 0 \in Nat
  BY IndexType DEF List, Linked
<1>6. walk' = [op |-> "find", at |-> L[m], current |-> m, target |-> target,
               pos |-> p, hops |-> 0]
  BY <1>2, <1>4, <1>5 DEF Find
<1>7. npw2(m + 1) \in Nat
  BY Npw2Is, CtzAssumption, PowerIsNat
<1>8. ASSUME m > target PROVE 0 <= ctz(m)
  <2>1. m \in 1 .. MaxIndex
    BY <1>8, IndexType
  <2>2. ctz(m) \in Nat
    BY <2>1, CtzType
  <2> QED
    BY <2>2
<1>9. Paced(m, m, target, 0)
  BY <1>7, <1>8 DEF Paced
<1>10. size' = size
  BY DEF Find, list
<1> QED
  BY <1>1, <1>3, <1>4, <1>5, <1>6, <1>9, <1>10 DEF Finds

\* A hop keeps the pace: as long as it follows a block's last pointer the next
\* block has more of them; after that the distance is less than what the
\* pointers reach, and halves.
LEMMA PacedStep ==
  ASSUME NEW m \in 0 .. MaxIndex, NEW current \in 1 .. m,
         NEW target \in 0 .. current - 1, NEW hops \in Nat,
         Paced(m, current, target, hops)
  PROVE  Paced(m, current - 2 ^ Skip(current, target), target, hops + 1)
<1>1. m \in Nat /\ current \in 1 .. MaxIndex /\ current \in Nat /\ target \in Nat
  BY IndexType
<1>2. PICK K \in Nat, t \in Nat : K = npw2(m + 1) /\ t = ctz(current) /\ t < K
  BY CtzBound
<1>3. PICK s \in Nat, n \in Nat : s = Skip(current, target) /\ n = 2 ^ s /\ s <= t
      /\ n \in 1 .. current - target /\ (s # t => current - target < 2 * n)
  <2>1. LET skip == Skip(current, target) IN
         /\ skip \in Nat /\ skip <= ctz(current)
         /\ 2 ^ skip \in 1 .. current - target
         /\ skip # ctz(current) => current - target < 2 * 2 ^ skip
    BY <1>1, SkipIs
  <2> QED
    BY <1>1, <1>2, <2>1, PowerIsNat
<1>4. PICK c \in Nat : c = current - n /\ c >= target
  BY <1>1, <1>3
<1>5. current \in 1 .. 2 ^ Width - 1
  BY <1>1, CtzType
<1>6. CASE hops <= t /\ s = t
  <2>1. hops + 1 \in 0 .. 2 * K
    BY <1>2, <1>6
  <2>2. ASSUME c > target PROVE hops + 1 <= ctz(c)
    <3>1. c \in 1 .. MaxIndex
      BY <1>1, <1>3, <1>4, <2>2, CtzAssumption
    <3>2. ctz(c) > t /\ ctz(c) \in Nat
      BY <1>1, <1>2, <1>3, <1>4, <1>5, <1>6, <3>1, CtzClear, CtzType
    <3> QED
      BY <1>6, <3>2
  <2> QED
    BY <1>2, <1>3, <1>4, <2>1, <2>2 DEF Paced
<1>7. ASSUME s < t, hops + 1 + s <= 2 * K
      PROVE  Paced(m, current - 2 ^ Skip(current, target), target, hops + 1)
  <2>1. ctz(c) = s
    BY <1>2, <1>3, <1>4, <1>5, <1>7, CtzDown
  <2>2. c - target < 2 ^ s
    BY <1>1, <1>3, <1>4, <1>7
  <2>3. hops + 1 \in 0 .. 2 * K /\ s \in 0 .. s
    BY <1>2, <1>7
  <2> QED
    BY <1>2, <1>3, <1>4, <1>7, <2>1, <2>2, <2>3 DEF Paced
<1>8. CASE hops <= t /\ s # t
  BY <1>2, <1>3, <1>7, <1>8
<1>9. CASE ~(hops <= t)
  <2>1. PICK r \in 0 .. t : current - target < 2 ^ r /\ hops + r <= 2 * K
    BY <1>1, <1>2, <1>9 DEF Paced
  <2>2. 2 ^ s < 2 ^ r /\ r \in Nat
    BY <1>1, <1>3, <2>1, PowerIsNat
  <2>3. s < r
    BY <2>2, PowerOrder
  <2> QED
    BY <1>2, <1>7, <2>1, <2>2, <2>3
<1> QED
  BY <1>6, <1>8, <1>9

\* The pointer to follow leads along the list.
LEMMA HopLeads ==
  ASSUME NEW m \in 0 .. MaxIndex, NEW L \in [0 .. m -> Names], Linked(m, L),
         NEW current \in 1 .. m, NEW target \in 0 .. current - 1
  PROVE  LET skip == Skip(current, target) IN
         /\ skip < Len(ptrs[L[current]])
         /\ current - 2 ^ skip \in target .. current - 1
         /\ ptrs[L[current]][skip + 1] = L[current - 2 ^ skip]
<1>1. m \in Nat /\ current \in 1 .. MaxIndex /\ current \in 0 .. m /\ target \in Nat
  BY IndexType
<1>2. PICK s \in Nat, t \in Nat : s = Skip(current, target) /\ s <= t /\ t = ctz(current)
      /\ 2 ^ s \in 1 .. current - target
  <2>1. LET skip == Skip(current, target) IN
         /\ skip \in Nat /\ skip <= ctz(current)
         /\ 2 ^ skip \in 1 .. current - target
    BY <1>1, SkipIs
  <2>2. ctz(current) \in Nat
    BY <1>1, CtzType
  <2> QED
    BY <2>1, <2>2
<1>3. Len(ptrs[L[current]]) = t + 1 /\ Skips(current) = t + 1
  BY <1>1, <1>2 DEF Linked, Skips
<1>4. PICK j \in Nat : j = s + 1 /\ j \in 1 .. t + 1 /\ j - 1 = s
  <2>1. s <= t
    BY <1>2
  <2>2. s + 1 \in Nat /\ s + 1 \in 1 .. t + 1 /\ s + 1 - 1 = s
    BY ONLY <2>1, s \in Nat, t \in Nat
  <2> QED
    BY <2>2
<1>5. ptrs[L[current]][s + 1] = L[current - 2 ^ s]
  <2>1. j \in 1 .. Skips(current)
    BY <1>3, <1>4
  <2>2. ptrs[L[current]][j] = L[current - 2 ^ (j - 1)]
    BY <1>1, <2>1 DEF Linked
  <2> QED
    BY <1>4, <2>2
<1>6. current - 2 ^ s \in target .. current - 1
  BY <1>1, <1>2
<1> QED
  BY <1>2, <1>3, <1>5, <1>6

\* It goes along the list and never beyond the block it looks for.
LEMMA HopStep ==
  ASSUME NEW m \in 0 .. MaxIndex, NEW L \in [0 .. m -> Names], List(m, L),
         Finds(m, L), Hop
  PROVE  Finds(m, L)'
<1>1. PICK current \in 0 .. m, target \in 0 .. m, pos \in 0 .. size - 1, hops \in Nat :
        /\ walk = [op |-> "find", at |-> L[current], current |-> current,
                   target |-> target, pos |-> pos, hops |-> hops]
        /\ target <= current /\ target = Index(pos).index
        /\ Paced(m, current, target, hops)
  BY DEF Finds
<1>2. current \in 1 .. m /\ target \in 0 .. current - 1 /\ m \in Nat
  BY <1>1, IndexType DEF Hop
<1>3. PICK skip : skip = Skip(current, target)
  OBVIOUS
<1>4. /\ current - 2 ^ skip \in target .. current - 1
      /\ ptrs[L[current]][skip + 1] = L[current - 2 ^ skip]
  BY <1>2, <1>3, HopLeads DEF List
<1>5. PICK c \in 0 .. m : c = current - 2 ^ skip /\ target <= c
  BY <1>2, <1>4
<1>6. Paced(m, c, target, hops + 1)
  BY <1>1, <1>2, <1>3, <1>5, PacedStep
<1>7. walk' = [op |-> "find", at |-> L[c], current |-> c,
               target |-> target, pos |-> pos, hops |-> hops + 1]
  BY <1>1, <1>3, <1>4, <1>5 DEF Hop
<1>8. size' = size /\ hops + 1 \in Nat
  BY DEF Hop, list
<1> QED
  BY <1>1, <1>5, <1>6, <1>7, <1>8 DEF Finds

\* lfs_ctz_traverse starts with the last block.
LEMMA TraverseStep ==
  ASSUME NEW m \in 0 .. MaxIndex, NEW L \in [0 .. m -> Names], List(m, L), Traverse
  PROVE  Traverses(m, L)'
<1>1. size > Base(m)
  BY FlushedIs DEF Traverse
<1>2. Index(size - 1) = [index |-> m, off |-> off - 1] /\ m \in Nat
  BY <1>1, LastIndex, IndexType DEF List
<1>3. head = L[m] /\ m \in 0 .. m
  BY <1>2 DEF List, Linked
<1>4. <<head>> = [k \in 1 .. m - m + 1 |-> L[m + 1 - k]]
  <2>1. m - m + 1 = 1 /\ m + 1 - 1 = m
    BY <1>2
  <2>2. \A k \in 1 .. 1 : L[m + 1 - k] = head
    BY <1>3, <2>1
  <2>3. <<head>> = [k \in 1 .. 1 |-> head]
    OBVIOUS
  <2> QED
    BY <2>1, <2>2, <2>3
<1>5. walk' = [op |-> "traverse", at |-> L[m], index |-> m,
               seen |-> [k \in 1 .. m - m + 1 |-> L[m + 1 - k]]]
  BY <1>2, <1>3, <1>4 DEF Traverse
<1>6. size' = size
  BY DEF Traverse, list
<1> QED
  BY <1>1, <1>3, <1>5, <1>6 DEF Traverses

\* Where the traversal looks for one pointer or two, there are as many.
LEMMA CountIs ==
  ASSUME NEW m \in 0 .. MaxIndex, NEW index \in 1 .. m
  PROVE  /\ Count(index) \in {1, 2} /\ Count(index) <= index
         /\ Count(index) <= Skips(index)
<1>1. index \in 1 .. MaxIndex /\ index \in Nat
  BY IndexType
<1>2. PICK t \in Nat : t = ctz(index) /\ Skips(index) = t + 1
      /\ index \in 1 .. 2 ^ Width - 1
  BY <1>1, CtzType DEF Skips
<1>3. PICK q \in Nat, r \in 0 .. 1 : index = 2 * q + r /\ index % 2 = r
  BY <1>1, DivSplit
<1>4. CASE r = 1
  BY <1>1, <1>2, <1>3, <1>4 DEF Count
<1>5. CASE r = 0
  <2>1. 2 ^ 1 = 2
    <3>1. 2 ^ (0 + 1) = 2 * 2 ^ 0 /\ 2 ^ 0 = 1 /\ 0 + 1 = 1
      BY PowerDoubles, PowerIsPositive
    <3> QED
      BY <3>1
  <2>2. index = 2 ^ 1 * q /\ 1 \in Nat /\ 0 \in 0 .. 1 - 1
    BY <1>3, <1>5, <2>1
  <2>3. Bit(index, 0) = 0
    BY <1>1, <2>2, DivideZeros
  <2>4. Bit(index, t) = 1
    BY <1>2, CtzIs
  <2>5. t >= 1 /\ index >= 2
    BY <1>1, <1>3, <1>5, <2>3, <2>4
  <2> QED
    BY <1>2, <1>3, <1>5, <2>5 DEF Count
<1> QED
  BY <1>4, <1>5

\* It reports the next one or two blocks of the list.
LEMMA VisitStep ==
  ASSUME NEW m \in 0 .. MaxIndex, NEW L \in [0 .. m -> Names], List(m, L),
         Traverses(m, L), Visit
  PROVE  Traverses(m, L)'
<1>1. PICK index \in 0 .. m :
        walk = [op |-> "traverse", at |-> L[index], index |-> index,
                seen |-> [k \in 1 .. m - index + 1 |-> L[m + 1 - k]]]
  BY DEF Traverses
<1>2. index \in 1 .. m /\ m \in Nat /\ index \in Nat
  BY <1>1, IndexType DEF Visit
<1>3. PICK c \in {1, 2} : c = Count(index) /\ c <= index /\ c <= Skips(index)
  BY <1>2, CountIs
<1>4. PICK i \in 0 .. m : i = index - c
  BY <1>2, <1>3
<1>5. PICK s, next :
        /\ s = [k \in 1 .. m - index + 1 |-> L[m + 1 - k]]
        /\ next = SubSeq(ptrs[L[index]], 1, c)
  OBVIOUS
<1>6. \A j \in 1 .. c : index - j \in 0 .. m /\ ptrs[L[index]][j] = L[index - j]
  <2>1. 2 ^ (1 - 1) = 1 /\ 2 ^ (2 - 1) = 2
    <3>1. 2 ^ (0 + 1) = 2 * 2 ^ 0 /\ 2 ^ 0 = 1 /\ 0 + 1 = 1 /\ 1 - 1 = 0 /\ 2 - 1 = 1
      BY PowerDoubles, PowerIsPositive
    <3> QED
      BY <3>1
  <2>2. Skips(index) \in Nat
    BY SkipsType, <1>2, IndexType
  <2>3. ASSUME NEW j \in 1 .. c PROVE j \in 1 .. Skips(index) /\ 2 ^ (j - 1) = j
    <3>1. j \in 1 .. Skips(index)
      BY <1>3, <2>2
    <3>2. j = 1 \/ j = 2
      BY <1>3
    <3>3. 2 ^ (j - 1) = j
      BY <2>1, <3>2
    <3> QED
      BY <3>1, <3>3
  <2>4. ASSUME NEW j \in 1 .. c
        PROVE  ptrs[L[index]][j] = L[index - j] /\ index - j \in 0 .. index - 1
    BY <1>2, <2>3 DEF List, Linked
  <2> QED
    BY <1>2, <2>4
<1>7. s \in Seq(Names) /\ Len(s) = m - index + 1
  <2>1. m - index + 1 \in Nat
    BY <1>2
  <2>2. s \in [1 .. m - index + 1 -> Names]
    <3>1. \A k \in 1 .. m - index + 1 : m + 1 - k \in 0 .. m
      BY <1>2
    <3> QED
      BY <1>5, <3>1
  <2> QED
    BY <2>1, <2>2, FunctionIsSeq
<1>8. /\ next \in Seq(Names) /\ Len(next) = c
      /\ \A j \in 1 .. c : next[j] = L[index - j]
  <2>1. \A j \in 1 .. c : ptrs[L[index]][j] \in Names
    BY <1>6
  <2>2. c \in Int /\ 1 \in Int /\ 1 <= c
    BY <1>3
  <2>3. /\ SubSeq(ptrs[L[index]], 1, c) \in Seq(Names)
        /\ Len(SubSeq(ptrs[L[index]], 1, c)) = IF 1 <= c THEN c - 1 + 1 ELSE 0
        /\ \A j \in 1 .. c - 1 + 1 :
             SubSeq(ptrs[L[index]], 1, c)[j] = ptrs[L[index]][1 + j - 1]
    BY <2>1, <2>2, SubSeqProperties
  <2>4. c - 1 + 1 = c /\ \A j \in 1 .. c : 1 + j - 1 = j
    BY <2>2
  <2> QED
    BY <1>5, <1>6, <2>2, <2>3, <2>4
<1>9. s \o next = [k \in 1 .. m - i + 1 |-> L[m + 1 - k]]
  <2> DEFINE f == [k \in 1 .. m - i + 1 |-> L[m + 1 - k]]
  <2>1. f \in Seq(Names) /\ Len(f) = m - i + 1
    <3>1. m - i + 1 \in Nat
      BY <1>2
    <3>2. \A k \in 1 .. m - i + 1 : m + 1 - k \in 0 .. m
      BY <1>2
    <3>3. f \in [1 .. m - i + 1 -> Names]
      BY <3>2
    <3> HIDE DEF f
    <3> QED
      BY <3>1, <3>3, FunctionIsSeq
  <2>2. /\ s \o next \in Seq(Names) /\ Len(s \o next) = Len(s) + Len(next)
        /\ \A k \in 1 .. Len(s) + Len(next) :
             (s \o next)[k] = IF k <= Len(s) THEN s[k] ELSE next[k - Len(s)]
    BY <1>7, <1>8, ConcatProperties
  <2>3. Len(s) + Len(next) = m - i + 1
    BY <1>2, <1>3, <1>4, <1>7, <1>8
  <2>4. ASSUME NEW k \in 1 .. m - i + 1
        PROVE  (s \o next)[k] = f[k]
    <3>1. f[k] = L[m + 1 - k]
      OBVIOUS
    <3>2. CASE k <= Len(s)
      <4>1. k \in 1 .. m - index + 1
        BY <1>2, <1>7, <3>2
      <4> QED
        BY <1>5, <2>2, <2>3, <3>1, <3>2, <4>1
    <3>3. CASE ~(k <= Len(s))
      <4>1. PICK j \in 1 .. c : j = k - Len(s) /\ index - j = m + 1 - k
        <5>1. PICK l \in Int : l = Len(s) /\ l = m - index + 1 /\ k > l
          BY <1>2, <1>7, <3>3
        <5>2. c \in Int /\ i = index - c /\ i \in Int /\ k \in 1 .. m - i + 1
          BY <1>3, <1>4
        <5>3. k - l \in 1 .. c /\ index - (k - l) = m + 1 - k
          BY <1>2, <5>1, <5>2
        <5> QED
          BY <5>1, <5>3
      <4> QED
        BY <1>8, <2>2, <2>3, <3>1, <3>3, <4>1
    <3> QED
      BY <3>2, <3>3
  <2> HIDE DEF f
  <2>5. s \o next = f
    BY <2>1, <2>2, <2>3, <2>4, SeqEqual
  <2> QED
    BY <2>5 DEF f
<1>10. ptrs[L[index]][c] = L[i]
  BY <1>3, <1>4, <1>6
<1>11. walk' = [op |-> "traverse", at |-> L[i], index |-> i, seen |-> s \o next]
  BY <1>1, <1>3, <1>4, <1>5, <1>10 DEF Visit
<1>12. size' = size
  BY DEF Visit, list
<1> QED
  BY <1>4, <1>9, <1>11, <1>12 DEF Traverses

\* Every step keeps the invariant.
LEMMA CtzInvNext == CtzInv /\ [Next]_vars => CtzInv'
<1> SUFFICES ASSUME CtzInv, [Next]_vars PROVE CtzInv'
  OBVIOUS
<1>1. CASE First
  BY <1>1, FirstStep
<1>2. CASE UNCHANGED vars
  <2>1. UNCHANGED list /\ walk' = walk /\ copies' = copies /\ ptrs' = ptrs
    BY <1>2 DEF vars, list
  <2>2. CASE Fresh
    <3>1. Fresh'
      BY <2>1, <2>2 DEF list, Fresh
    <3> QED
      BY <2>1, <3>1 DEF CtzInv
  <2>3. CASE ~Fresh
    <3>1. PICK m \in 0 .. MaxIndex : \E L \in [0 .. m -> Names] :
            List(m, L) /\ (walk = Idle \/ Finds(m, L) \/ Traverses(m, L))
      BY <2>3 DEF CtzInv
    <3>2. PICK L \in [0 .. m -> Names] :
            List(m, L) /\ (walk = Idle \/ Finds(m, L) \/ Traverses(m, L))
      BY <3>1
    <3>3. List(m, L)'
      BY <2>1, <3>2 DEF list, List, Linked, Filled, Placed
    <3>4. Finds(m, L) => Finds(m, L)'
      BY <2>1 DEF list, Finds
    <3>5. Traverses(m, L) => Traverses(m, L)'
      BY <2>1 DEF list, Traverses
    <3>6. (walk = Idle \/ Finds(m, L) \/ Traverses(m, L))'
      BY <2>1, <3>2, <3>4, <3>5
    <3> QED
      BY <2>1, <3>3, <3>6 DEF CtzInv
  <2> QED
    BY <2>2, <2>3
<1>3. CASE Next /\ Fresh
  <2>1. ~Copy /\ ~Extend /\ ~Write
    <3>1. BlockSize # 0
      <4>1. 0 \in 0 .. MaxIndex /\ popc(0) = 0
        BY CtzAssumption, PopcZero
      <4> QED
        BY <4>1, PointersFit, CtzAssumption
    <3> QED
      BY <1>3, <3>1 DEF Fresh, Copy, Flushed, Extend, Write
  <2>2. ~(\E p \in Probes : Find(p)) /\ ~Hop /\ ~Found /\ ~Traverse /\ ~Visit /\ ~Traversed
    BY <1>3 DEF Fresh, Find, Flushed, Hop, Found, Traverse, Visit, Traversed, Idle
  <2> QED
    BY <1>1, <1>3, <2>1, <2>2 DEF Next
<1>4. CASE Next /\ ~Fresh
  <2>1. PICK m \in 0 .. MaxIndex : \E L \in [0 .. m -> Names] :
          List(m, L) /\ (walk = Idle \/ Finds(m, L) \/ Traverses(m, L))
    BY <1>4 DEF CtzInv
  <2>2. PICK L \in [0 .. m -> Names] :
          List(m, L) /\ (walk = Idle \/ Finds(m, L) \/ Traverses(m, L))
    BY <2>1
  <2>3. copies \in 0 .. MaxCopies /\ DOMAIN ptrs = Names
    BY DEF CtzInv
  <2>4. CASE Copy
    <3>1. PICK K \in [0 .. m -> Names] : List(m, K)'
      BY <2>2, <2>3, <2>4, CopyStep
    <3>2. copies' \in 0 .. MaxCopies /\ DOMAIN ptrs' = Names /\ walk' = Idle
      BY <2>3, <2>4, CtzAssumption DEF Copy, Flushed
    <3> QED
      BY <3>1, <3>2 DEF CtzInv
  <2>5. CASE Extend
    <3>1. m + 1 \in 0 .. MaxIndex /\ \E K \in [0 .. m + 1 -> Names] : List(m + 1, K)'
      BY <2>2, <2>3, <2>5, ExtendStep
    <3>2. copies' \in 0 .. MaxCopies /\ DOMAIN ptrs' = Names /\ walk' = Idle
      BY <2>3, <2>5 DEF Extend
    <3> QED
      BY <3>1, <3>2 DEF CtzInv
  <2>6. CASE Write
    <3>1. List(m, L)'
      BY <2>2, <2>6, WriteStep
    <3>2. copies' \in 0 .. MaxCopies /\ DOMAIN ptrs' = Names /\ walk' = Idle
      BY <2>3, <2>6 DEF Write
    <3> QED
      BY <3>1, <3>2 DEF CtzInv
  \* the walks leave the list as it is
  <2>7. ASSUME UNCHANGED list, (walk = Idle \/ Finds(m, L) \/ Traverses(m, L))'
        PROVE  CtzInv'
    <3>1. List(m, L)'
      BY <2>2, <2>7 DEF list, List, Linked, Filled, Placed
    <3>2. copies' \in 0 .. MaxCopies /\ DOMAIN ptrs' = Names
      BY <2>3, <2>7 DEF list
    <3> QED
      BY <2>7, <3>1, <3>2 DEF CtzInv
  <2>8. ASSUME NEW p \in Probes, Find(p) PROVE CtzInv'
    BY <2>2, <2>7, <2>8, FindStep DEF Find
  <2>9. CASE Hop
    <3>1. Finds(m, L)
      BY <2>2, <2>9 DEF Hop, Idle, Traverses
    <3> QED
      BY <2>2, <2>7, <2>9, <3>1, HopStep DEF Hop
  <2>10. CASE Found
    BY <2>7, <2>10 DEF Found, Idle
  <2>11. CASE Traverse
    BY <2>2, <2>7, <2>11, TraverseStep DEF Traverse
  <2>12. CASE Visit
    <3>1. Traverses(m, L)
      BY <2>2, <2>12 DEF Visit, Idle, Finds
    <3> QED
      BY <2>2, <2>7, <2>12, <3>1, VisitStep DEF Visit
  <2>13. CASE Traversed
    BY <2>7, <2>13 DEF Traversed, Idle
  <2> QED
    BY <1>1, <1>4, <2>4, <2>5, <2>6, <2>8, <2>9, <2>10, <2>11, <2>12, <2>13 DEF Next
<1> QED
  BY <1>2, <1>3, <1>4

\* The invariant: the blocks form a list with all its pointers, filled without
\* a gap, every byte at the place lfs_ctz_index computes.
THEOREM CtzInvCorrect == Spec => []CtzInv
<1>1. Init => CtzInv
  BY CtzInvInit
<1>2. CtzInv /\ [Next]_vars => CtzInv'
  BY CtzInvNext
<1> QED
  BY <1>1, <1>2, PTL DEF Spec

-----------------------------------------------------------------------------
\* The properties of the runs

\* The bytes the run looks at are placed like all others.
LEMMA IndexAgreesHolds == CtzInv => IndexAgrees
<1> SUFFICES ASSUME CtzInv, NEW k \in {1, size} \cap DOMAIN where
             PROVE  /\ where[k].block % (MaxIndex + 1) = Index(k - 1).index
                    /\ where[k].off = Index(k - 1).off
                    /\ where[k].off >= 4 * Len(ptrs[where[k].block])
  BY DEF IndexAgrees
<1>1. ~Fresh
  BY DEF Fresh
<1>2. PICK m \in 0 .. MaxIndex : \E L \in [0 .. m -> Names] : List(m, L)
  BY <1>1 DEF CtzInv
<1>3. PICK L \in [0 .. m -> Names] : List(m, L)
  BY <1>2
<1>4. size \in Nat
  BY <1>3, SkipsType DEF List, Filled
<1>5. k \in 1 .. size
  BY <1>3, LenProperties DEF List, Placed
<1>6. PICK p \in 0 .. size - 1 : p = k - 1 /\ p + 1 = k
  BY <1>4, <1>5
<1>7. PICK n \in 0 .. m : n = Index(p).index
  BY <1>3 DEF List, Placed
<1>8. where[p + 1] = [block |-> L[n], off |-> Index(p).off] /\ Index(p).off >= 4 * Skips(n)
  BY <1>3, <1>7 DEF List, Placed
<1>9. L[n] % (MaxIndex + 1) = n /\ Len(ptrs[L[n]]) = Skips(n)
  BY <1>3 DEF List, Linked
<1>10. where[k] = [block |-> L[n], off |-> Index(p).off] /\ Index(k - 1) = Index(p)
  BY <1>6, <1>8
<1> QED
  BY <1>7, <1>8, <1>9, <1>10

\* A walk stands on a block of the list, which has its pointers.
LEMMA PointersExistHolds == CtzInv => PointersExist
<1> SUFFICES ASSUME CtzInv PROVE PointersExist
  OBVIOUS
<1>1. CASE walk = Idle
  BY <1>1 DEF PointersExist, Idle
<1>2. CASE walk # Idle
  <2>1. PICK m \in 0 .. MaxIndex : \E L \in [0 .. m -> Names] :
          List(m, L) /\ (Finds(m, L) \/ Traverses(m, L))
    BY <1>2 DEF CtzInv, Fresh
  <2>2. PICK L \in [0 .. m -> Names] : List(m, L) /\ (Finds(m, L) \/ Traverses(m, L))
    BY <2>1
  <2>3. CASE Finds(m, L)
    <3>1. PICK current \in 0 .. m, target \in 0 .. m :
            /\ walk.op = "find" /\ walk.at = L[current] /\ walk.current = current
            /\ walk.target = target
      BY <2>3 DEF Finds
    <3>2. ASSUME current > target PROVE Skip(current, target) < Len(ptrs[L[current]])
      <4>1. current \in 1 .. m /\ target \in 0 .. current - 1
        BY <3>2, IndexType
      <4> QED
        BY <2>2, <4>1, HopLeads DEF List
    <3> QED
      BY <3>1, <3>2 DEF PointersExist
  <2>4. CASE Traverses(m, L)
    <3>1. PICK index \in 0 .. m :
            walk.op = "traverse" /\ walk.at = L[index] /\ walk.index = index
      BY <2>4 DEF Traverses
    <3>2. ASSUME index > 0 PROVE Count(index) <= Len(ptrs[L[index]])
      <4>1. index \in 1 .. m
        BY <3>2, IndexType
      <4> QED
        BY <2>2, <4>1, CountIs DEF List, Linked
    <3> QED
      BY <3>1, <3>2 DEF PointersExist
  <2> QED
    BY <2>2, <2>3, <2>4
<1> QED
  BY <1>1, <1>2

\* A search stands on the block whose number it has, within the pace.
LEMMA FindsHold == CtzInv => FindLands /\ FindIsFast
<1> SUFFICES ASSUME CtzInv, walk.op = "find"
             PROVE  FindLands /\ FindIsFast
  BY DEF FindLands, FindIsFast
<1>1. PICK m \in 0 .. MaxIndex : \E L \in [0 .. m -> Names] : List(m, L) /\ Finds(m, L)
  BY DEF CtzInv, Fresh, Idle, Traverses
<1>2. PICK L \in [0 .. m -> Names] : List(m, L) /\ Finds(m, L)
  BY <1>1
<1>3. PICK current \in 0 .. m, target \in 0 .. m, pos \in 0 .. size - 1, hops \in Nat :
        /\ walk = [op |-> "find", at |-> L[current], current |-> current,
                   target |-> target, pos |-> pos, hops |-> hops]
        /\ target <= current /\ target = Index(pos).index
        /\ Paced(m, current, target, hops)
  BY <1>2 DEF Finds
<1>4. FindLands
  <2> SUFFICES ASSUME current <= target
               PROVE  [block |-> L[current], off |-> Index(pos).off] = where[pos + 1]
    BY <1>3 DEF FindLands
  <2>1. current = target
    <3>1. current \in Int /\ target \in Int /\ target <= current
      BY <1>3, IndexType
    <3> QED
      BY <3>1
  <2> QED
    BY <1>2, <1>3, <2>1 DEF List, Placed
<1>5. FindIsFast
  <2>1. Index(size - 1).index = m
    <3>1. Filled(m) /\ size > Base(m)
      BY <1>2 DEF List, Finds
    <3>2. Index(size - 1) = [index |-> m, off |-> off - 1]
      BY <3>1, LastIndex
    <3> QED
      BY <3>2
  <2>2. hops <= 2 * npw2(m + 1)
    BY <1>3 DEF Paced
  <2> QED
    BY <1>3, <2>1, <2>2 DEF FindIsFast
<1> QED
  BY <1>4, <1>5

\* A traversal has seen the blocks from the last one down to where it stands.
LEMMA TraverseIsExactHolds == CtzInv => TraverseIsExact
<1> SUFFICES ASSUME CtzInv, walk.op = "traverse", walk.index <= 0
             PROVE  /\ {walk.seen[k] : k \in DOMAIN walk.seen} = ListBlocks
                    /\ Len(walk.seen) = Cardinality(ListBlocks)
  BY DEF TraverseIsExact
<1>1. PICK m \in 0 .. MaxIndex : \E L \in [0 .. m -> Names] : List(m, L) /\ Traverses(m, L)
  BY DEF CtzInv, Fresh, Idle, Finds
<1>2. PICK L \in [0 .. m -> Names] : List(m, L) /\ Traverses(m, L)
  BY <1>1
<1>3. m \in Nat /\ m + 1 \in Nat
  BY IndexType
<1>4. PICK s : walk.seen = s /\ s = [k \in 1 .. m + 1 |-> L[m + 1 - k]]
  <2>1. PICK index \in 0 .. m :
        walk = [op |-> "traverse", at |-> L[index], index |-> index,
                seen |-> [k \in 1 .. m - index + 1 |-> L[m + 1 - k]]]
    BY <1>2 DEF Traverses
  <2>2. index = 0 /\ m - index + 1 = m + 1
    BY <1>3, <2>1
  <2> QED
    BY <2>1, <2>2
<1> DEFINE All == {L[n] : n \in 0 .. m}
<1>5. {s[k] : k \in DOMAIN s} = All
  <2>1. \A k \in 1 .. m + 1 : m + 1 - k \in 0 .. m
    BY <1>3
  <2>2. \A n \in 0 .. m : m + 1 - n \in 1 .. m + 1 /\ m + 1 - (m + 1 - n) = n
    BY <1>3
  <2>3. \A n \in 0 .. m : s[m + 1 - n] = L[n]
    BY <1>4, <2>2
  <2> QED
    BY <1>4, <2>1, <2>2, <2>3
<1>6. ListBlocks = All
  <2>1. DOMAIN where = 1 .. size /\ size \in Nat
    BY <1>2, LenProperties, SkipsType DEF List, Placed, Filled
  <2>2. ASSUME NEW k \in DOMAIN where PROVE where[k].block \in All
    <3>1. PICK p \in 0 .. size - 1 : p + 1 = k
      <4>1. k - 1 \in 0 .. size - 1 /\ k - 1 + 1 = k
        BY <2>1
      <4> QED
        BY <4>1
    <3>2. /\ Index(p).index \in 0 .. m
          /\ where[p + 1] = [block |-> L[Index(p).index], off |-> Index(p).off]
      BY <1>2 DEF List, Placed
    <3> QED
      BY <3>1, <3>2
  <2>3. ASSUME NEW n \in 0 .. m PROVE \E k \in DOMAIN where : where[k].block = L[n]
    <3>1. n \in 0 .. MaxIndex /\ n \in Nat /\ m \in 0 .. MaxIndex
      BY <1>3, IndexType
    <3>2. PICK p \in Int : p = Base(n) /\ p >= 0 /\ p < Base(n + 1)
      <4>1. /\ Base(n + 1) = Base(n) + BlockSize - 4 * Skips(n) /\ 4 * Skips(n) < BlockSize
            /\ Base(n) \in Nat /\ Base(n + 1) \in Nat /\ Skips(n) \in Nat
        BY <3>1, BaseNext, SkipsType
      <4>2. PICK x \in Nat, y \in Nat, z \in Nat : x = Base(n) /\ y = Base(n + 1) /\ z = Skips(n)
        BY <4>1
      <4>3. y = x + BlockSize - 4 * z /\ 4 * z < BlockSize /\ BlockSize \in Nat
        BY <4>1, <4>2, CtzAssumption
      <4>4. x < y
        BY ONLY <4>3, x \in Nat, y \in Nat, z \in Nat
      <4> QED
        BY <4>2, <4>4
    <3>3. Index(p).index = n
      BY <3>1, <3>2, IndexIs
    <3>4. p < size
      <4>1. size > Base(m) /\ Base(m) \in Nat
        BY <1>2, SkipsType DEF Traverses
      <4>2. n < m => Base(n) < Base(m)
        BY <3>1, BaseGrows
      <4> QED
        BY <1>3, <2>1, <3>1, <3>2, <4>1, <4>2
    <3>5. p \in 0 .. size - 1 /\ p + 1 \in 1 .. size
      BY <2>1, <3>2, <3>4
    <3>6. where[p + 1] = [block |-> L[Index(p).index], off |-> Index(p).off]
      BY <1>2, <3>5 DEF List, Placed
    <3> QED
      BY <2>1, <3>3, <3>5, <3>6
  <2> QED
    BY <2>2, <2>3 DEF ListBlocks
<1>7. Cardinality(All) = m + 1
  <2>1. \A n, k \in 0 .. m : L[n] = L[k] => n = k
    BY <1>2 DEF List, Linked
  <2>2. IsFiniteSet(0 .. m) /\ Cardinality(0 .. m) = m + 1
    <3>1. 0 \in Int /\ m \in Int /\ m - 0 + 1 = m + 1 /\ ~(0 > m)
      BY <1>3
    <3>2. IsFiniteSet(0 .. m) /\ Cardinality(0 .. m) = IF 0 > m THEN 0 ELSE m - 0 + 1
      BY <3>1, FS_Interval
    <3> QED
      BY <3>1, <3>2
  <2>3. L \in Bijection(0 .. m, All)
    BY <2>1 DEF Bijection, Injection, Surjection, IsInjective
  <2>4. IsFiniteSet(All) /\ Cardinality(0 .. m) = Cardinality(All)
    <3>1. PICK D : D = 0 .. m
      OBVIOUS
    <3>2. PICK A : A = All
      OBVIOUS
    <3>3. IsFiniteSet(D) /\ L \in Bijection(D, A)
      BY <2>2, <2>3, <3>1, <3>2
    <3>4. IsFiniteSet(A) /\ Cardinality(D) = Cardinality(A)
      <4>1. ExistsBijection(D, A)
        BY <3>3 DEF ExistsBijection
      <4> QED
        BY ONLY <3>3, <4>1, FS_Bijection
    <3> QED
      BY <3>1, <3>2, <3>4
  <2> QED
    BY <2>2, <2>4
<1>8. Len(s) = m + 1
  <2>1. s \in [1 .. m + 1 -> Names]
    <3>1. \A k \in 1 .. m + 1 : m + 1 - k \in 0 .. m
      BY <1>3
    <3> QED
      BY <1>4, <3>1
  <2> QED
    BY <1>3, <2>1, FunctionIsSeq
<1> QED
  BY <1>4, <1>5, <1>6, <1>7, <1>8

\* lfs_ctz_index: the number and the offset it computes for a byte are those
\* the list was built with, and no byte is where a block's pointers are.
THEOREM IndexAgreesCorrect == Spec => []IndexAgrees
BY CtzInvCorrect, IndexAgreesHolds, PTL

\* No walk follows a pointer that a block does not have: neither lfs_ctz_find
\* nor lfs_ctz_traverse reads data as a pointer.
THEOREM PointersExistCorrect == Spec => []PointersExist
BY CtzInvCorrect, PointersExistHolds, PTL

\* lfs_ctz_find ends at the block the byte was written to.
THEOREM FindLandsCorrect == Spec => []FindLands
BY CtzInvCorrect, FindsHold, PTL

\* lfs_ctz_find follows at most two pointers per digit of the last block's number.
THEOREM FindIsFastCorrect == Spec => []FindIsFast
BY CtzInvCorrect, FindsHold, PTL

\* lfs_ctz_traverse reports every block of the file, each once.
THEOREM TraverseIsExactCorrect == Spec => []TraverseIsExact
BY CtzInvCorrect, TraverseIsExactHolds, PTL
=============================================================================
