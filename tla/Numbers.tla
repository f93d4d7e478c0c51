------------------------------ MODULE Numbers -------------------------------
(***************************************************************************)
(* Facts about numbers: % by any divisor, for positions round the device   *)
(* and counters that wrap; induction over the natural numbers, as a        *)
(* statement about sets; powers of two, and quotients by them.             *)
(***************************************************************************)
EXTENDS Integers, FiniteSetTheorems, WellFoundedInduction, TLAPS

-----------------------------------------------------------------------------
\* Remainders
\* Quotient and remainder determine each other.
LEMMA ModUnique ==
  ASSUME NEW n \in Nat \ {0}, NEW q \in Int, NEW r \in 0 .. n - 1
  PROVE  (n * q + r) % n = r
<1> DEFINE a == n * q + r
           p == a \div n
           s == (a % n)
<1>1. /\ a \in Int /\ p \in Int /\ s \in 0 .. n - 1
      /\ a = n * p + s
  BY SMT
<1>2. n * (q - p) = s - r
  BY <1>1, SMT
<1>3. CASE q = p
  BY <1>1, <1>2, <1>3, SMT
<1>4. CASE q > p
  <2>1. n * (q - p) >= n
    BY <1>4, <1>1, SMT
  <2> QED
    BY <2>1, <1>1, <1>2, SMT
<1>5. CASE q < p
  <2>1. n * (q - p) <= -n
    BY <1>5, <1>1, SMT
  <2> QED
    BY <2>1, <1>1, <1>2, SMT
<1> QED
  BY <1>1, <1>3, <1>4, <1>5, SMT

\* A remainder below the divisor comes with the quotient.
LEMMA ModSplit ==
  ASSUME NEW n \in Nat \ {0}, NEW a \in Int
  PROVE  /\ (a % n) \in 0 .. n - 1
         /\ \E q \in Int : a = n * q + (a % n)
<1>1. a \div n \in Int /\ (a % n) \in 0 .. n - 1 /\ a = n * (a \div n) + (a % n)
  BY SMT
<1> QED
  BY <1>1

\* The same, with the number named.
LEMMA ModIs ==
  ASSUME NEW n \in Nat \ {0}, NEW a \in Int, NEW q \in Int, NEW r \in 0 .. n - 1,
         a = n * q + r
  PROVE  a % n = r
BY ModUnique

\* A step of d from a remainder is a step of d from the number itself.
LEMMA ModAdd ==
  ASSUME NEW n \in Nat \ {0}, NEW a \in Int, NEW d \in Int
  PROVE  ((a % n) + d) % n = (a + d) % n
<1>1. PICK q \in Int : a = n * q + (a % n)
  BY ModSplit
<1>2. (a % n) \in Int
  BY ModSplit
<1>3. PICK x \in Int : x = (a % n) + d
  BY <1>2, SMT
<1>4. PICK p \in Int : x = n * p + (x % n)
  BY ModSplit
<1>5. PICK r \in 0 .. n - 1 : r = x % n
  BY ModSplit
<1>6. a + d = n * q + x
  BY <1>1, <1>2, <1>3, SMT
<1>7. /\ n * (q + p) = n * q + n * p
      /\ n * q \in Int /\ n * p \in Int
      /\ q + p \in Int /\ a + d \in Int
  BY SMT
<1>8. x = n * p + r
  BY <1>4, <1>5
<1>9. a + d = n * (q + p) + r
  BY <1>6, <1>7, <1>8, SMT
<1>10. (a + d) % n = r
  BY <1>7, <1>9, ModIs
<1> QED
  BY <1>3, <1>5, <1>10

\* A full circle leads back.
LEMMA ModCircle ==
  ASSUME NEW n \in Nat \ {0}, NEW a \in Int
  PROVE  (a + n) % n = (a % n)
<1>1. PICK q \in Int : a = n * q + (a % n)
  BY ModSplit
<1>2. (a % n) \in 0 .. n - 1
  BY ModSplit
<1>3. /\ n * (q + 1) = n * q + n /\ n * q \in Int
      /\ q + 1 \in Int /\ a + n \in Int
  BY SMT
<1>4. a + n = n * (q + 1) + (a % n)
  BY <1>1, <1>2, <1>3, SMT
<1> QED
  BY <1>2, <1>3, <1>4, ModIs

\* Less than a full circle does not.
LEMMA ModApart ==
  ASSUME NEW n \in Nat \ {0}, NEW a \in Int, NEW d \in 1 .. n - 1
  PROVE  (a + d) % n # (a % n)
<1>1. PICK q \in Int : a = n * q + (a % n)
  BY ModSplit
<1>2. (a % n) \in 0 .. n - 1
  BY ModSplit
<1>3. CASE (a % n) + d < n
  <2>1. /\ a + d = n * q + ((a % n) + d) /\ (a % n) + d \in 0 .. n - 1
        /\ a + d \in Int
    BY <1>1, <1>2, <1>3, SMT
  <2>2. (a + d) % n = (a % n) + d
    BY <2>1, ModIs
  <2> QED
    BY <2>2, <1>2, SMT
<1>4. CASE (a % n) + d >= n
  <2>1. /\ a + d = n * (q + 1) + ((a % n) + d - n)
        /\ (a % n) + d - n \in 0 .. n - 1
        /\ q + 1 \in Int /\ a + d \in Int
    BY <1>1, <1>2, <1>4, SMT
  <2>2. (a + d) % n = (a % n) + d - n
    BY <2>1, ModIs
  <2> QED
    BY <2>2, <1>2, SMT
<1> QED
  BY <1>2, <1>3, <1>4, SMT

\* What is below the divisor is its own remainder.
LEMMA ModSmall ==
  ASSUME NEW n \in Nat \ {0}, NEW r \in 0 .. n - 1
  PROVE  r % n = r
<1>1. r = n * 0 + r /\ r \in Int
  BY SMT
<1> QED
  BY <1>1, ModIs

\* The way back completes the circle.
LEMMA ModBack ==
  ASSUME NEW n \in Nat \ {0}, NEW a \in Int, NEW b \in Int,
         (a - b) % n # 0
  PROVE  (b - a) % n = n - ((a - b) % n)
<1>1. PICK c \in Int : c = a - b
  OBVIOUS
<1>2. PICK q \in Int : c = n * q + (c % n)
  BY ModSplit
<1>3. PICK r \in 1 .. n - 1 : r = c % n
  BY <1>1, ModSplit
<1>4. /\ n * (-q - 1) = -(n * q) - n /\ n * q \in Int
      /\ -q - 1 \in Int /\ b - a \in Int /\ n - r \in 0 .. n - 1
  BY SMT
<1>5. b - a = n * (-q - 1) + (n - r)
  BY <1>1, <1>2, <1>3, <1>4, SMT
<1>6. (b - a) % n = n - r
  BY <1>4, <1>5, ModIs
<1> QED
  BY <1>1, <1>3, <1>6
-----------------------------------------------------------------------------
\* Induction


\* A set of natural numbers has a least one.
LEMMA Least ==
  ASSUME NEW T, T \subseteq Nat, T # {}
  PROVE  \E x \in T : \A y \in T : x <= y
<1> DEFINE R == OpToRel(<, Nat)
<1>1. IsWellFoundedOn(R, Nat)
  BY NatLessThanWellFounded
<1>2. \A x, y \in Nat : <<y, x>> \in R <=> y < x
  BY DEF OpToRel
<1> HIDE DEF R
<1>3. PICK x \in T : \A y \in T : ~ (<<y, x>> \in R)
  BY <1>1, WFMin, Zenon
<1>4. \A y \in T : ~ (y < x)
  BY <1>2, <1>3
<1>5. \A a, b \in Nat : ~ (a < b) => b <= a
  OBVIOUS
<1> QED
  BY <1>4, <1>5

\* A set that holds 0 and the successor of all it holds holds every number.
LEMMA Upwards ==
  ASSUME NEW S, 0 \in S, \A n \in Nat : n \in S => n + 1 \in S
  PROVE  Nat \subseteq S
<1> SUFFICES ASSUME Nat \ S # {} PROVE FALSE
  OBVIOUS
<1>1. PICK x \in Nat \ S : \A y \in Nat \ S : x <= y
  BY Least, Zenon
<1>2. x - 1 \in Nat /\ x - 1 \notin S
  BY <1>1
<1> QED
  BY <1>1, <1>2

-----------------------------------------------------------------------------
\* Powers of two are numbers.
LEMMA PowerIsNat ==
  ASSUME NEW n \in Nat
  PROVE  2 ^ n \in Nat
<1>1. IsFiniteSet(1 .. n) /\ Cardinality(1 .. n) = n
  BY FS_Interval
<1>2. IsFiniteSet(SUBSET (1 .. n)) /\ Cardinality(SUBSET (1 .. n)) = 2 ^ n
  BY <1>1, FS_SUBSET
<1> QED
  BY <1>2, FS_CardinalityType

\* Each is twice the one before: the subsets of 1 .. n + 1 are those of
\* 1 .. n, with n + 1 or without it.
LEMMA PowerDoubles ==
  ASSUME NEW n \in Nat
  PROVE  2 ^ (n + 1) = 2 * 2 ^ n
<1> DEFINE A == SUBSET (1 .. n)
           B == {s \cup {n + 1} : s \in A}
           f == [s \in A |-> s \cup {n + 1}]
<1>1. /\ IsFiniteSet(1 .. n) /\ Cardinality(1 .. n) = n
      /\ IsFiniteSet(1 .. n + 1) /\ Cardinality(1 .. n + 1) = n + 1
  BY FS_Interval
<1>2. /\ IsFiniteSet(A) /\ Cardinality(A) = 2 ^ n
      /\ Cardinality(SUBSET (1 .. n + 1)) = 2 ^ (n + 1)
  BY <1>1, FS_SUBSET
<1>3. \A s \in A : n + 1 \notin s
  OBVIOUS
<1>4. f \in Bijection(A, B)
  <2>1. f \in [A -> B]
    OBVIOUS
  <2>2. \A s, t \in A : f[s] = f[t] => s = t
    <3>1. SUFFICES ASSUME NEW s \in A, NEW t \in A, f[s] = f[t]
                   PROVE  s = t
      BY Zenon
    <3>2. s \cup {n + 1} = t \cup {n + 1}
      BY <3>1
    <3> QED
      BY <1>3, <3>2
  <2>3. \A u \in B : \E s \in A : f[s] = u
    OBVIOUS
  <2> HIDE DEF A, B, f
  <2> QED
    BY <2>1, <2>2, <2>3 DEF Bijection, Injection, Surjection, IsInjective
<1>5. IsFiniteSet(B) /\ Cardinality(B) = 2 ^ n
  <2> HIDE DEF A, B, f
  <2>1. ExistsBijection(A, B)
    BY <1>4 DEF ExistsBijection
  <2> QED
    BY <1>2, <2>1, FS_Bijection
<1>6. A \cap B = {}
  BY <1>3
<1>7. SUBSET (1 .. n + 1) = A \cup B
  <2>1. ASSUME NEW u \in SUBSET (1 .. n + 1), n + 1 \in u PROVE u \in B
    <3>1. u \ {n + 1} \in A /\ u = (u \ {n + 1}) \cup {n + 1}
      BY <2>1
    <3> QED
      BY <3>1
  <2>2. ASSUME NEW u \in SUBSET (1 .. n + 1), n + 1 \notin u PROVE u \in A
    BY <2>2
  <2>3. 1 .. n \subseteq 1 .. n + 1 /\ n + 1 \in 1 .. n + 1
    OBVIOUS
  <2>4. A \subseteq SUBSET (1 .. n + 1)
    BY <2>3
  <2>5. ASSUME NEW u \in B PROVE u \in SUBSET (1 .. n + 1)
    <3>1. PICK s \in A : u = s \cup {n + 1}
      OBVIOUS
    <3> QED
      BY <2>3, <2>4, <3>1
  <2> QED
    BY <2>1, <2>2, <2>4, <2>5
<1>8. Cardinality(A \cup B) = Cardinality(A) + Cardinality(B) - Cardinality({})
  <2> HIDE DEF A, B, f
  <2> QED
    BY <1>2, <1>5, <1>6, FS_Union
<1>9. Cardinality({}) = 0 /\ 2 ^ n \in Nat
  BY FS_EmptySet, PowerIsNat
<1>10. 2 ^ (n + 1) = 2 ^ n + 2 ^ n - 0
  <2> HIDE DEF A, B, f
  <2> QED
    BY ONLY <1>2, <1>5, <1>7, <1>8, <1>9
<1> QED
  BY <1>9, <1>10

\* No power of two is 0, and the first is 1.
LEMMA PowerIsPositive ==
  ASSUME NEW n \in Nat
  PROVE  2 ^ n \in Nat \ {0} /\ 2 ^ 0 = 1
<1> DEFINE S == {k \in Nat : 2 ^ k # 0}
<1>1. 2 ^ 0 = 1 /\ 0 \in S
  OBVIOUS
<1>2. ASSUME NEW k \in Nat, k \in S PROVE k + 1 \in S
  BY <1>2, PowerIsNat, PowerDoubles
<1>3. Nat \subseteq S
  BY <1>1, <1>2, Upwards, Zenon
<1> QED
  BY <1>1, <1>3, PowerIsNat

\* A larger power is a multiple of a smaller one.
LEMMA PowerDivides ==
  ASSUME NEW j \in Nat
  PROVE  \A k \in Nat : k >= j => \E m \in Nat \ {0} : 2 ^ k = 2 ^ j * m
<1> DEFINE S == {i \in Nat : \E m \in Nat \ {0} : 2 ^ (j + i) = 2 ^ j * m}
<1>0. 2 ^ j \in Nat
  BY PowerIsNat
<1>1. 0 \in S
  <2>1. j + 0 = j /\ 2 ^ j = 2 ^ j * 1
    BY <1>0
  <2> QED
    BY <2>1
<1>2. ASSUME NEW i \in Nat, i \in S PROVE i + 1 \in S
  <2>1. PICK m \in Nat \ {0} : 2 ^ (j + i) = 2 ^ j * m
    BY <1>2
  <2>2. PICK a \in Nat : a = 2 ^ j
    BY <1>0
  <2>3. j + i \in Nat /\ j + (i + 1) = (j + i) + 1
    OBVIOUS
  <2>4. 2 ^ (j + (i + 1)) = 2 * 2 ^ (j + i)
    BY <2>3, PowerDoubles
  <2>5. 2 * (a * m) = a * (2 * m) /\ 2 * m \in Nat \ {0}
    OBVIOUS
  <2>6. 2 ^ (j + (i + 1)) = 2 ^ j * (2 * m)
    BY <2>1, <2>2, <2>4, <2>5
  <2>7. \E x \in Nat \ {0} : 2 ^ (j + (i + 1)) = 2 ^ j * x
    BY ONLY <2>5, <2>6
  <2>8. i + 1 \in Nat
    OBVIOUS
  <2> QED
    BY ONLY <2>7, <2>8
<1>3. Nat \subseteq S
  BY <1>1, <1>2, Upwards, Zenon
<1>4. ASSUME NEW k \in Nat, k >= j
      PROVE  \E m \in Nat \ {0} : 2 ^ k = 2 ^ j * m
  <2>1. k - j \in Nat /\ j + (k - j) = k
    BY <1>4
  <2>2. k - j \in S
    BY <1>3, <2>1
  <2> QED
    BY <2>1, <2>2
<1> QED
  BY <1>4

\* A larger power is larger, by half of it at least.
LEMMA PowerGrows ==
  ASSUME NEW j \in Nat, NEW k \in Nat, k > j
  PROVE  2 ^ k >= 2 * 2 ^ j /\ 2 ^ k > 2 ^ j
<1>0. j + 1 \in Nat /\ k >= j + 1
  OBVIOUS
<1>1. PICK m \in Nat \ {0} : 2 ^ k = 2 ^ (j + 1) * m
  BY <1>0, PowerDivides
<1>2. 2 ^ (j + 1) = 2 * 2 ^ j /\ 2 ^ j \in Nat \ {0} /\ 2 ^ (j + 1) \in Nat
  BY PowerDoubles, PowerIsPositive
<1>3. \A a \in Nat : a * m >= a
  OBVIOUS
<1> QED
  BY <1>1, <1>2, <1>3

\* Powers are ordered as their exponents are.
LEMMA PowerOrder ==
  ASSUME NEW j \in Nat, NEW k \in Nat, 2 ^ j < 2 ^ k
  PROVE  j < k
BY PowerGrows, PowerIsNat

-----------------------------------------------------------------------------
\* Quotient and remainder determine each other.
LEMMA DivIs ==
  ASSUME NEW n \in Nat \ {0}, NEW a \in Int, NEW q \in Int, NEW r \in 0 .. n - 1,
         a = n * q + r
  PROVE  a \div n = q
<1>1. a % n = r
  BY ModIs
<1>2. a \div n \in Int /\ a = n * (a \div n) + (a % n)
  BY SMT
<1>3. PICK p \in Int : p = a \div n
  BY <1>2
<1>4. n * p = n * q /\ n * p \in Int
  BY <1>1, <1>2, <1>3
<1>5. CASE p < q
  BY <1>4, <1>5
<1>6. CASE p > q
  BY <1>4, <1>6
<1> QED
  BY <1>3, <1>5, <1>6

\* The quotient and the remainder of a natural number.
LEMMA DivSplit ==
  ASSUME NEW n \in Nat \ {0}, NEW a \in Nat
  PROVE  \E q \in Nat, r \in 0 .. n - 1 :
           a = n * q + r /\ a \div n = q /\ a % n = r
<1>1. /\ a \div n \in Int /\ (a % n) \in 0 .. n - 1
      /\ a = n * (a \div n) + (a % n)
  BY SMT
<1>2. PICK q \in Int, r \in 0 .. n - 1 : q = a \div n /\ r = a % n /\ a = n * q + r
  BY <1>1
<1>3. ~(q < 0)
  <2> SUFFICES ASSUME q < 0 PROVE FALSE
    OBVIOUS
  <2>1. n * q <= -n
    OBVIOUS
  <2> QED
    BY <1>2, <2>1
<1>4. q \in Nat
  BY <1>3
<1> QED
  BY ONLY <1>2, <1>4

\* To divide by the next power is to divide by two once more.
LEMMA DivNext ==
  ASSUME NEW a \in Nat, NEW k \in Nat
  PROVE  a \div 2 ^ (k + 1) = (a \div 2 ^ k) \div 2
<1>1. PICK n \in Nat \ {0} : n = 2 ^ k
  BY PowerIsPositive
<1>2. PICK q \in Nat, r \in 0 .. n - 1 : a = n * q + r /\ a \div n = q
  BY DivSplit
<1>3. PICK p \in Nat, s \in 0 .. 1 : q = 2 * p + s /\ q \div 2 = p
  BY DivSplit
<1>4. 2 ^ (k + 1) = 2 * n
  BY <1>1, PowerDoubles
<1>5. /\ 2 * n \in Nat \ {0} /\ n * s + r \in 0 .. 2 * n - 1
      /\ n * (2 * p + s) = (2 * n) * p + n * s
  <2>1. s = 0 \/ s = 1
    BY <1>3
  <2>2. n * (2 * p) = (2 * n) * p
    OBVIOUS
  <2> QED
    BY <2>1, <2>2
<1>6. a = (2 * n) * p + (n * s + r)
  BY <1>2, <1>3, <1>5
<1>7. a \div (2 * n) = p
  BY <1>5, <1>6, DivIs
<1> QED
  BY <1>1, <1>2, <1>3, <1>4, <1>7
=============================================================================
