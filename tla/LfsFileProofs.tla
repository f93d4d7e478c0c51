--------------------------- MODULE LfsFileProofs ----------------------------
(***************************************************************************)
(* Proofs about an open file, for every device, block size, limit of       *)
(* inline files and length of writes, through a full device, crashes, and  *)
(* errors of an erase, of the read and the flush that end a writing, and   *)
(* of a commit.  They are about devices without bad blocks (MaxBad = 0),   *)
(* whose block programs and reads do not fail otherwise (Mild), and a      *)
(* directory that fills up at the end of a file only (~FullElsewhere):     *)
(* without any of the three, one of the properties is false of the code    *)
(* (lfs.c 2910, 76, 3799, 2917 and 2701).                                  *)
(***************************************************************************)
EXTENDS LfsFile, Numbers, FiniteSetTheorems, SequenceTheorems, TLAPS

-----------------------------------------------------------------------------
\* Lists of blocks

\* The block before h on d.
Prev(d, h) == IF h \in Blocks THEN d[h].prev ELSE Null

\* What the recursion in Before goes through.
Walks(d, h, k, f) ==
  f = [i \in 0 .. k |-> IF i = 0 THEN h ELSE Prev(d, f[i - 1])]

\* The recursion has one solution.
LEMMA WalksUnique ==
  ASSUME NEW d, NEW h, NEW k \in Nat, NEW l \in Nat, NEW f, NEW g,
         Walks(d, h, k, f), Walks(d, h, l, g)
  PROVE  \A i \in Nat : i <= k /\ i <= l => f[i] = g[i]
<1> DEFINE S == {i \in Nat : i <= k /\ i <= l => f[i] = g[i]}
<1>1. 0 \in S
  BY DEF Walks
<1>2. ASSUME NEW i \in Nat, i \in S PROVE i + 1 \in S
  <2> SUFFICES ASSUME i + 1 <= k, i + 1 <= l PROVE f[i + 1] = g[i + 1]
    OBVIOUS
  <2>1. i + 1 \in 0 .. k /\ i + 1 \in 0 .. l /\ i + 1 # 0 /\ (i + 1) - 1 = i
    OBVIOUS
  <2>2. f[i + 1] = Prev(d, f[i]) /\ g[i + 1] = Prev(d, g[i])
    BY <2>1 DEF Walks
  <2>3. f[i] = g[i]
    BY <1>2
  <2> QED
    BY <2>2, <2>3
<1>3. Nat \subseteq S
  <2> HIDE DEF S
  <2> QED
    BY <1>1, <1>2, Upwards
<1> QED
  BY <1>3

\* The recursion has a solution.
LEMMA WalksExist ==
  ASSUME NEW d, NEW h
  PROVE  \A k \in Nat : \E f : Walks(d, h, k, f)
<1> DEFINE S == {k \in Nat : \E f : Walks(d, h, k, f)}
<1>1. 0 \in S
  <2>1. Walks(d, h, 0, [i \in 0 .. 0 |-> h])
    BY DEF Walks
  <2> QED
    BY <2>1
<1>2. ASSUME NEW k \in Nat, k \in S PROVE k + 1 \in S
  <2>1. PICK f : Walks(d, h, k, f)
    BY <1>2
  <2> DEFINE g == [i \in 0 .. k + 1 |-> IF i = k + 1 THEN Prev(d, f[k]) ELSE f[i]]
  <2>2. \A i \in 0 .. k : g[i] = f[i] /\ f[i] = IF i = 0 THEN h ELSE Prev(d, f[i - 1])
    BY <2>1 DEF Walks
  <2>3. g[k + 1] = Prev(d, f[k])
    OBVIOUS
  <2>4. ASSUME NEW i \in 0 .. k + 1
        PROVE  g[i] = IF i = 0 THEN h ELSE Prev(d, g[i - 1])
    <3>1. CASE i = k + 1
      <4>1. i # 0 /\ i - 1 = k /\ k \in 0 .. k
        BY <3>1
      <4> QED
        BY <2>2, <2>3, <3>1, <4>1
    <3>2. CASE i # k + 1 /\ i # 0
      <4>1. i \in 0 .. k /\ i - 1 \in 0 .. k
        BY <3>2
      <4> QED
        BY <2>2, <3>2, <4>1
    <3>3. CASE i = 0
      <4>1. 0 \in 0 .. k
        OBVIOUS
      <4> QED
        BY <2>2, <3>3, <4>1
    <3> QED
      BY <3>1, <3>2, <3>3
  <2>5. g = [i \in 0 .. k + 1 |-> g[i]]
    OBVIOUS
  <2> HIDE DEF g
  <2>6. Walks(d, h, k + 1, g)
    BY <2>4, <2>5 DEF Walks
  <2> QED
    BY <2>6
<1>3. Nat \subseteq S
  <2> HIDE DEF S
  <2> QED
    BY <1>1, <1>2, Upwards
<1> QED
  BY <1>3

\* Before goes back block by block.
LEMMA BeforeIs ==
  ASSUME NEW d, NEW h
  PROVE  /\ Before(d, h, 0) = h
         /\ \A k \in Nat : Before(d, h, k + 1) = Prev(d, Before(d, h, k))
<1>1. ASSUME NEW k \in Nat, NEW f, Walks(d, h, k, f) PROVE Before(d, h, k) = f[k]
  <2>1. Before(d, h, k) = (CHOOSE g : Walks(d, h, k, g))[k]
    BY DEF Before, Walks, Prev
  <2>2. PICK g : g = CHOOSE e : Walks(d, h, k, e)
    OBVIOUS
  <2>3. Walks(d, h, k, g)
    BY <1>1, <2>2
  <2>4. f[k] = g[k]
    BY <1>1, <2>3, WalksUnique
  <2> QED
    BY <2>1, <2>2, <2>4
<1>2. Before(d, h, 0) = h
  <2>1. Walks(d, h, 0, [i \in 0 .. 0 |-> h])
    BY DEF Walks
  <2> QED
    BY <1>1, <2>1
<1>3. ASSUME NEW k \in Nat PROVE Before(d, h, k + 1) = Prev(d, Before(d, h, k))
  <2>1. k + 1 \in Nat /\ k <= k + 1 /\ k + 1 # 0 /\ (k + 1) - 1 = k
    OBVIOUS
  <2>2. PICK f : Walks(d, h, k, f)
    BY WalksExist
  <2>3. PICK g : Walks(d, h, k + 1, g)
    BY <2>1, WalksExist
  <2>4. f[k] = g[k]
    BY <2>1, <2>2, <2>3, WalksUnique
  <2>5. g[k + 1] = Prev(d, g[k])
    BY <2>1, <2>3 DEF Walks
  <2> QED
    BY <1>1, <2>1, <2>2, <2>3, <2>4, <2>5
<1> QED
  BY <1>2, <1>3

\* To go back twice is to go back by the sum.
LEMMA BeforeAdd ==
  ASSUME NEW d, NEW h, NEW j \in Nat
  PROVE  \A k \in Nat : Before(d, Before(d, h, j), k) = Before(d, h, j + k)
<1> DEFINE S == {k \in Nat : Before(d, Before(d, h, j), k) = Before(d, h, j + k)}
<1>1. 0 \in S
  <2>1. j + 0 = j
    OBVIOUS
  <2> QED
    BY <2>1, BeforeIs
<1>2. ASSUME NEW k \in Nat, k \in S PROVE k + 1 \in S
  <2>1. j + (k + 1) = (j + k) + 1 /\ j + k \in Nat
    OBVIOUS
  <2>2. PICK g : g = Before(d, h, j)
    OBVIOUS
  <2>3. Before(d, g, k + 1) = Prev(d, Before(d, g, k))
    BY BeforeIs
  <2>4. Before(d, h, (j + k) + 1) = Prev(d, Before(d, h, j + k))
    BY <2>1, BeforeIs
  <2>5. Before(d, g, k) = Before(d, h, j + k)
    BY <1>2, <2>2
  <2>6. Before(d, g, k + 1) = Before(d, h, j + (k + 1))
    BY <2>1, <2>3, <2>4, <2>5
  <2> QED
    BY <2>2, <2>6
<1>3. Nat \subseteq S
  <2> HIDE DEF S
  <2> QED
    BY <1>1, <1>2, Upwards
<1> QED
  BY <1>3

\* d and e have the same predecessors on the way back from h.
Agree(d, e, h, n) ==
  \A k \in 0 .. n : Before(d, h, k) \in Blocks =>
                      d[Before(d, h, k)].prev = e[Before(d, h, k)].prev

\* Where the blocks gone through have the same predecessors, the way is the same.
LEMMA BeforeSame ==
  ASSUME NEW d, NEW e, NEW h, NEW n \in Nat, Agree(d, e, h, n)
  PROVE  \A k \in Nat : k <= n + 1 => Before(e, h, k) = Before(d, h, k)
<1> DEFINE S == {k \in Nat : k <= n + 1 => Before(e, h, k) = Before(d, h, k)}
<1>1. 0 \in S
  BY BeforeIs
<1>2. ASSUME NEW k \in Nat, k \in S PROVE k + 1 \in S
  <2> SUFFICES ASSUME k + 1 <= n + 1 PROVE Before(e, h, k + 1) = Before(d, h, k + 1)
    OBVIOUS
  <2>1. k \in 0 .. n /\ k <= n + 1
    OBVIOUS
  <2>2. Before(e, h, k) = Before(d, h, k)
    BY <1>2, <2>1
  <2>3. Prev(e, Before(d, h, k)) = Prev(d, Before(d, h, k))
    BY <2>1 DEF Prev, Agree
  <2>4. Before(d, h, k + 1) = Prev(d, Before(d, h, k))
    BY BeforeIs
  <2>5. Before(e, h, k + 1) = Prev(e, Before(e, h, k))
    BY BeforeIs
  <2> QED
    BY <2>2, <2>3, <2>4, <2>5
<1>3. Nat \subseteq S
  <2> HIDE DEF S
  <2> QED
    BY <1>1, <1>2, Upwards
<1> QED
  BY <1>3

\* The blocks from h back, n of them behind it.
Walk(d, h, n) == {Before(d, h, k) : k \in 0 .. n} \cap Blocks

\* A walk over blocks that keep their predecessors stays the same.
LEMMA WalkSame ==
  ASSUME NEW d, NEW e, NEW h, NEW n \in Int,
         \A b \in Walk(d, h, n) : d[b].prev = e[b].prev
  PROVE  Walk(e, h, n) = Walk(d, h, n)
<1>1. CASE n < 0
  BY <1>1 DEF Walk
<1>2. CASE n >= 0
  <2>1. n \in Nat
    BY <1>2
  <2>2. Agree(d, e, h, n)
    BY DEF Walk, Agree
  <2>3. \A k \in Nat : k <= n + 1 => Before(e, h, k) = Before(d, h, k)
    BY <2>1, <2>2, BeforeSame
  <2>4. \A k \in 0 .. n : Before(e, h, k) = Before(d, h, k)
    BY <2>1, <2>3
  <2> QED
    BY <2>4 DEF Walk
<1> QED
  BY <1>1, <1>2

\* A walk is its first block and the walk from the one before it.
LEMMA WalkStep ==
  ASSUME NEW d, NEW h \in Blocks, NEW n \in Nat
  PROVE  Walk(d, h, n) = {h} \cup Walk(d, d[h].prev, n - 1)
<1>1. Before(d, h, 0) = h /\ Before(d, h, 1) = d[h].prev
  <2>1. PICK i \in Nat : i = 0 /\ i + 1 = 1
    OBVIOUS
  <2>2. Before(d, h, i + 1) = Prev(d, Before(d, h, i))
    BY BeforeIs
  <2>3. Before(d, h, 0) = h
    BY BeforeIs
  <2> QED
    BY <2>1, <2>2, <2>3 DEF Prev
<1>2. \A k \in Nat : Before(d, d[h].prev, k) = Before(d, h, 1 + k)
  <2>1. 1 \in Nat
    OBVIOUS
  <2>2. \A k \in Nat : Before(d, Before(d, h, 1), k) = Before(d, h, 1 + k)
    BY <2>1, BeforeAdd
  <2> QED
    BY <1>1, <2>2
<1>3. ASSUME NEW b \in Walk(d, h, n) PROVE b \in {h} \cup Walk(d, d[h].prev, n - 1)
  <2>1. PICK k \in 0 .. n : b = Before(d, h, k) /\ b \in Blocks
    BY DEF Walk
  <2>2. CASE k = 0
    BY <1>1, <2>1, <2>2
  <2>3. CASE k # 0
    <3>1. PICK j \in 0 .. n - 1 : k = 1 + j /\ j \in Nat
      <4>1. k - 1 \in 0 .. n - 1 /\ k = 1 + (k - 1) /\ k - 1 \in Nat
        BY <2>3
      <4> QED
        BY <4>1
    <3>2. b = Before(d, d[h].prev, j)
      BY <1>2, <2>1, <3>1
    <3> QED
      BY <2>1, <3>1, <3>2 DEF Walk
  <2> QED
    BY <2>2, <2>3
<1>4. h \in Walk(d, h, n)
  <2>1. 0 \in 0 .. n
    OBVIOUS
  <2> QED
    BY <1>1, <2>1 DEF Walk
<1>5. ASSUME NEW b \in Walk(d, d[h].prev, n - 1) PROVE b \in Walk(d, h, n)
  <2>1. PICK k \in 0 .. n - 1 : b = Before(d, d[h].prev, k) /\ b \in Blocks
    BY DEF Walk
  <2>2. 1 + k \in 0 .. n /\ k \in Nat
    OBVIOUS
  <2> QED
    BY <1>2, <2>1, <2>2 DEF Walk
<1> QED
  BY <1>3, <1>4, <1>5

\* A walk has its first block.
LEMMA WalkFirst ==
  ASSUME NEW d, NEW h \in Blocks, NEW n \in Nat
  PROVE  h \in Walk(d, h, n)
<1>1. Walk(d, h, n) = {h} \cup Walk(d, d[h].prev, n - 1)
  BY WalkStep
<1> QED
  BY <1>1

\* A walk that starts on another one and goes no further is part of it.
LEMMA WalkPart ==
  ASSUME NEW d, NEW h, NEW j \in Nat, NEW m \in Int, NEW n \in Int, j + m <= n
  PROVE  Walk(d, Before(d, h, j), m) \subseteq Walk(d, h, n)
<1> SUFFICES ASSUME NEW k \in 0 .. m, Before(d, Before(d, h, j), k) \in Blocks
             PROVE  Before(d, Before(d, h, j), k) \in Walk(d, h, n)
  BY DEF Walk
<1>1. k \in Nat /\ j + k \in 0 .. n
  OBVIOUS
<1>2. Before(d, Before(d, h, j), k) = Before(d, h, j + k)
  BY <1>1, BeforeAdd
<1> QED
  BY <1>1, <1>2 DEF Walk

\* A walk from no block is empty.
LEMMA WalkNone ==
  ASSUME NEW d, NEW h, h \notin Blocks, NEW n \in Int
  PROVE  Walk(d, h, n) = {}
<1>1. Before(d, h, 0) = h /\ Null \notin Blocks
  BY BeforeIs, FileAssumption DEF Null
<1> DEFINE S == {k \in Nat : Before(d, h, k) \notin Blocks}
<1>2. 0 \in S
  BY <1>1
<1>3. ASSUME NEW k \in Nat, k \in S PROVE k + 1 \in S
  BY <1>1, <1>3, BeforeIs DEF Prev
<1>4. Nat \subseteq S
  <2> HIDE DEF S
  <2> QED
    BY <1>2, <1>3, Upwards
<1>5. \A k \in 0 .. n : Before(d, h, k) \notin Blocks
  BY <1>4
<1> QED
  BY <1>5 DEF Walk

\* The blocks of a list are a walk.
LEMMA ChainIs ==
  ASSUME NEW d, NEW h, NEW size \in Nat
  PROVE  /\ size = 0 => Chain(d, h, size) = {}
         /\ size > 0 => Chain(d, h, size) = Walk(d, h, Index(size - 1))
         /\ size > 0 => Index(size - 1) \in Nat
<1>1. size > 0 => Index(size - 1) \in Nat
  <2>1. ASSUME size > 0 PROVE (size - 1) \div BlockSize \in Nat
    <3>1. PICK p \in Nat : p = size - 1
      BY <2>1
    <3> QED
      BY <3>1, DivSplit, FileAssumption
  <2> QED
    BY <2>1 DEF Index
<1> QED
  BY <1>1 DEF Chain, Walk

\* A position is an index and what is left in the block.
LEMMA IndexSplit ==
  ASSUME NEW p \in Nat
  PROVE  /\ Index(p) \in Nat
         /\ \E r \in 0 .. BlockSize - 1 : p = Index(p) * BlockSize + r /\ p % BlockSize = r
<1>1. PICK q \in Nat, r \in 0 .. BlockSize - 1 :
        p = BlockSize * q + r /\ p \div BlockSize = q /\ p % BlockSize = r
  BY DivSplit, FileAssumption
<1>2. BlockSize * q = q * BlockSize
  BY FileAssumption
<1> QED
  BY <1>1, <1>2 DEF Index

\* The index is the only one.
LEMMA IndexIs ==
  ASSUME NEW p \in Nat, NEW q \in Nat, NEW r \in 0 .. BlockSize - 1,
         p = q * BlockSize + r
  PROVE  Index(p) = q
<1>1. BlockSize * q = q * BlockSize
  BY FileAssumption
<1>2. p = BlockSize * q + r
  BY <1>1
<1> QED
  BY <1>2, DivIs, FileAssumption DEF Index

\* A later position has no smaller index.
LEMMA IndexGrows ==
  ASSUME NEW p \in Nat, NEW r \in Nat, p <= r
  PROVE  Index(p) <= Index(r)
<1>1. PICK n \in Nat : n = BlockSize /\ n > 0
  BY FileAssumption
<1>2. PICK i \in Nat, a \in 0 .. n - 1 : i = Index(p) /\ p = i * n + a
  BY <1>1, IndexSplit
<1>3. PICK j \in Nat, b \in 0 .. n - 1 : j = Index(r) /\ r = j * n + b
  BY <1>1, IndexSplit
<1>4. ASSUME i > j PROVE FALSE
  <2>1. PICK d \in Nat : i = j + 1 + d
    <3>1. i - j - 1 \in Nat /\ i = j + 1 + (i - j - 1)
      BY <1>4
    <3> QED
      BY <3>1
  <2>2. i * n = j * n + n + d * n /\ d * n >= 0 /\ j * n \in Nat
    BY <2>1
  <2> QED
    BY <1>2, <1>3, <2>2
<1> QED
  BY <1>2, <1>3, <1>4

\* A list whose blocks keep their predecessors stays the same.
LEMMA ChainSame ==
  ASSUME NEW d, NEW e, NEW h, NEW size \in Nat,
         \A b \in Chain(d, h, size) : d[b].prev = e[b].prev
  PROVE  Chain(e, h, size) = Chain(d, h, size)
<1>1. CASE size = 0
  BY <1>1, ChainIs
<1>2. CASE size > 0
  <2>1. PICK n \in Nat : n = Index(size - 1)
    BY <1>2, ChainIs
  <2>2. Chain(d, h, size) = Walk(d, h, n) /\ Chain(e, h, size) = Walk(e, h, n)
    BY <1>2, <2>1, ChainIs
  <2>3. Walk(e, h, n) = Walk(d, h, n)
    BY <2>2, WalkSame
  <2> QED
    BY <2>2, <2>3
<1> QED
  BY <1>1, <1>2

\* A list that has no last block has no blocks.
LEMMA ChainNone ==
  ASSUME NEW d, NEW h, h \notin Blocks, NEW size \in Nat
  PROVE  Chain(d, h, size) = {}
<1>1. CASE size = 0
  BY <1>1, ChainIs
<1>2. CASE size > 0
  BY <1>2, ChainIs, WalkNone
<1> QED
  BY <1>1, <1>2

\* The blocks of a list are blocks.
LEMMA ChainBlocks ==
  ASSUME NEW d, NEW h, NEW size
  PROVE  Chain(d, h, size) \subseteq Blocks
BY DEF Chain

\* What is found is on the way back, and has as many blocks before it as it should.
LEMMA FindIs ==
  ASSUME NEW d, NEW h, NEW size \in Nat \ {0}, NEW p \in Nat, p < size
  PROVE  \E j \in Nat : /\ Find(d, h, size, p) = Before(d, h, j)
                        /\ j + Index(p) <= Index(size - 1)
<1>1. PICK m \in Nat : m = size - 1 /\ p <= m
  OBVIOUS
<1>2. Index(p) \in Nat /\ Index(m) \in Nat /\ Index(p) <= Index(m)
  BY <1>1, IndexSplit, IndexGrows
<1>3. CASE Index(p) < Index(m)
  <2>1. Find(d, h, size, p) = Before(d, h, Index(m) - Index(p))
    BY <1>1, <1>3 DEF Find
  <2>2. Index(m) - Index(p) \in Nat /\ (Index(m) - Index(p)) + Index(p) <= Index(m)
    BY <1>2, <1>3
  <2> QED
    BY <1>1, <2>1, <2>2
<1>4. CASE ~(Index(p) < Index(m))
  <2>1. Find(d, h, size, p) = h
    BY <1>1, <1>4 DEF Find
  <2>2. Before(d, h, 0) = h
    BY BeforeIs
  <2>3. 0 \in Nat /\ 0 + Index(p) <= Index(m)
    BY <1>2
  <2> QED
    BY <1>1, <2>1, <2>2, <2>3
<1> QED
  BY <1>3, <1>4

\* What is found and the blocks before it are of the list.
LEMMA FindPart ==
  ASSUME NEW d, NEW h, NEW size \in Nat \ {0}, NEW p \in Nat, p < size
  PROVE  Walk(d, Find(d, h, size, p), Index(p)) \subseteq Chain(d, h, size)
<1>1. PICK j \in Nat : /\ Find(d, h, size, p) = Before(d, h, j)
                       /\ j + Index(p) <= Index(size - 1)
  BY FindIs
<1>2. Index(p) \in Int /\ Index(size - 1) \in Int
  BY IndexSplit
<1>3. Walk(d, Before(d, h, j), Index(p)) \subseteq Walk(d, h, Index(size - 1))
  BY <1>1, <1>2, WalkPart
<1>4. Chain(d, h, size) = Walk(d, h, Index(size - 1))
  BY ChainIs
<1> QED
  BY <1>1, <1>3, <1>4

\* A shorter walk is part of a longer one.
LEMMA WalkShorter ==
  ASSUME NEW d, NEW h, NEW m \in Int, NEW n \in Int, m <= n
  PROVE  Walk(d, h, m) \subseteq Walk(d, h, n)
BY DEF Walk

\* A list that is cut off is part of what it was.
LEMMA CutPart ==
  ASSUME NEW d, NEW h, NEW size \in Nat, NEW n \in Nat, n < size
  PROVE  Chain(d, Find(d, h, size, n), n) \subseteq Chain(d, h, size)
<1>1. CASE n = 0
  BY <1>1, ChainIs
<1>2. CASE n > 0
  <2>1. PICK m \in Nat : m = n - 1 /\ m <= n
    BY <1>2
  <2>2. Index(m) <= Index(n) /\ Index(m) \in Int /\ Index(n) \in Int
    BY <2>1, IndexGrows, IndexSplit
  <2>3. PICK g : g = Find(d, h, size, n)
    OBVIOUS
  <2>4. Walk(d, g, Index(m)) \subseteq Walk(d, g, Index(n))
    BY <2>2, WalkShorter
  <2>5. Walk(d, g, Index(n)) \subseteq Chain(d, h, size)
    BY <2>3, FindPart
  <2>6. Chain(d, g, n) = Walk(d, g, Index(m))
    BY <1>2, <2>1, ChainIs
  <2> QED
    BY <2>3, <2>4, <2>5, <2>6
<1> QED
  BY <1>1, <1>2

\* No way back leads into the directory.
LEMMA BeforeOutside ==
  ASSUME NEW d, NEW h, h # Inline, \A b \in Blocks : d[b].prev # Inline
  PROVE  \A k \in Nat : Before(d, h, k) # Inline
<1> DEFINE S == {k \in Nat : Before(d, h, k) # Inline}
<1>1. 0 \in S
  BY BeforeIs
<1>2. ASSUME NEW k \in Nat, k \in S PROVE k + 1 \in S
  <2>1. Before(d, h, k + 1) = Prev(d, Before(d, h, k))
    BY BeforeIs
  <2> QED
    BY <2>1 DEF Prev, Null, Inline
<1>3. Nat \subseteq S
  <2> HIDE DEF S
  <2> QED
    BY <1>1, <1>2, Upwards
<1> QED
  BY <1>3

\* What is found is not in the directory either.
LEMMA FindOutside ==
  ASSUME NEW d, NEW h, h # Inline, \A b \in Blocks : d[b].prev # Inline,
         NEW size \in Nat \ {0}, NEW p \in Nat, p < size
  PROVE  Find(d, h, size, p) # Inline
BY FindIs, BeforeOutside

-----------------------------------------------------------------------------
\* The stack of calls

Callers == {"read", "seek", "sync"}
Inner == {"write", "fill", "outline"}

\* g may be called by f, and where f goes on then.
Called(f, g) ==
  CASE g.op = "flush" -> \/ f.op \in Callers /\ f.at = "flushed"
                         \/ f.op = "truncate" /\ f.at = "cut"
    [] g.op = "write" -> \/ f.op = "fill" /\ f.at = "begin"
                         \/ f.op = "flush" /\ f.at = "copy"
                         \/ f.op = "truncate" /\ f.at = "grow"
    [] g.op = "fill" -> f.op = "write" /\ f.at = "check"
    [] g.op = "outline" -> \/ f.op = "write" /\ f.at = "loop"
                           \/ f.op = "sync" /\ f.at = "begin"
    [] g.op = "seek" -> f.op = "truncate" /\ f.at \in {"grow", "restored"}
    [] g.op = "sync" -> f.op = "close" /\ f.at = "flushed"
    [] OTHER -> FALSE

Framed(f) ==
  /\ DOMAIN f = {"op", "at", "n", "data", "back"}
  /\ f.op \in Callers \cup Inner \cup {"flush", "close", "truncate"}
  /\ f.n \in Nat
  /\ \E S : f.data \in Seq(S)
  /\ f.op \in {"flush", "truncate"} /\ f.at # "begin" => f.back \in Nat

\* c is a stack of calls.  Flushes and writes, and what they call, are called by
\* others, never the other way round.
IsStack(c) ==
  /\ \E S : c \in Seq(S)
  /\ \A k \in DOMAIN c : Framed(c[k])
  /\ \A k \in DOMAIN c : k > 1 => Called(c[k - 1], c[k])
  /\ \A k \in DOMAIN c : c[k].op \in Inner \cup {"flush"} =>
       \A l \in DOMAIN c : l > k => c[l].op \in Inner

\* A stack is a sequence; its last frame is its top.
LEMMA StackIs ==
  ASSUME NEW c, IsStack(c)
  PROVE  /\ Len(c) \in Nat /\ DOMAIN c = 1 .. Len(c)
         /\ c = <<>> <=> Len(c) = 0
         /\ c # <<>> => Last(c) = c[Len(c)] /\ Len(c) \in DOMAIN c /\ Framed(Last(c))
         /\ c = <<>> <=> DOMAIN c = {}
<1>1. PICK S : c \in Seq(S)
  BY DEF IsStack
<1>2. Len(c) \in Nat /\ DOMAIN c = 1 .. Len(c)
  BY <1>1
<1>3. c = <<>> <=> Len(c) = 0
  BY <1>1
<1>4. c # <<>> => Len(c) \in DOMAIN c
  BY <1>2, <1>3
<1>5. Last(c) = c[Len(c)]
  BY DEF Last
<1>6. c = <<>> <=> DOMAIN c = {}
  BY <1>2, <1>3
<1> QED
  BY <1>2, <1>3, <1>4, <1>5, <1>6 DEF IsStack

\* e is c with f for its top.
Turns(c, f, e) ==
  /\ IsStack(e) /\ Len(e) = Len(c) /\ DOMAIN e = DOMAIN c /\ e # <<>>
  /\ Last(e) = f
  /\ \A k \in DOMAIN c : e[k] = IF k = Len(c) THEN f ELSE c[k]

\* What runs on the top may move on.
LEMMA Turned ==
  ASSUME NEW c, IsStack(c), c # <<>>, NEW f, Framed(f), f.op = Last(c).op,
         NEW e, e = [c EXCEPT ![Len(c)] = f]
  PROVE  Turns(c, f, e)
<1>1. PICK S : c \in Seq(S)
  BY DEF IsStack
<1>2. Len(c) \in Nat /\ DOMAIN c = 1 .. Len(c) /\ Len(c) \in DOMAIN c
  BY StackIs
<1>3. e \in Seq(S \cup {f}) /\ Len(e) = Len(c) /\ DOMAIN e = DOMAIN c
  BY <1>1, <1>2
<1>4. \A k \in DOMAIN c : e[k] = IF k = Len(c) THEN f ELSE c[k]
  BY <1>2
<1>5. Last(e) = f /\ e # <<>>
  BY <1>2, <1>3, <1>4 DEF Last
<1>6. \A k \in DOMAIN c : e[k].op = c[k].op
  BY <1>4, StackIs
<1>7. \A k \in DOMAIN e : Framed(e[k])
  BY <1>3, <1>4 DEF IsStack
<1>8. ASSUME NEW k \in DOMAIN e, k > 1 PROVE Called(e[k - 1], e[k])
  <2>1. k - 1 \in DOMAIN c /\ k \in DOMAIN c /\ k - 1 # Len(c)
    BY <1>2, <1>3, <1>8
  <2>2. e[k - 1] = c[k - 1] /\ e[k].op = c[k].op
    BY <1>4, <1>6, <2>1
  <2>3. Called(c[k - 1], c[k])
    BY <1>8, <2>1 DEF IsStack
  <2> QED
    BY <2>2, <2>3 DEF Called
<1>9. \A k \in DOMAIN e : e[k].op \in Inner \cup {"flush"} =>
        \A l \in DOMAIN e : l > k => e[l].op \in Inner
  BY <1>3, <1>6 DEF IsStack
<1> QED
  BY <1>3, <1>4, <1>5, <1>7, <1>8, <1>9 DEF IsStack, Turns

\* e is c with g on the top.
Pushes(c, g, e) ==
  /\ IsStack(e) /\ Len(e) = Len(c) + 1 /\ e # <<>> /\ Last(e) = g
  /\ DOMAIN e = DOMAIN c \cup {Len(c) + 1}
  /\ \A k \in DOMAIN c : e[k] = c[k]
  /\ c # <<>> => e[Len(e) - 1] = Last(c)

\* A function may be called.
LEMMA Pushed ==
  ASSUME NEW c, IsStack(c), NEW g, Framed(g),
         c # <<>> => Called(Last(c), g),
         c # <<>> /\ Last(c).op \in Inner \cup {"flush"} => g.op \in Inner,
         NEW e, e = Append(c, g)
  PROVE  Pushes(c, g, e)
<1>1. PICK S : c \in Seq(S)
  BY DEF IsStack
<1>2. Len(c) \in Nat /\ DOMAIN c = 1 .. Len(c)
  BY StackIs
<1>3. e \in Seq(S \cup {g}) /\ Len(e) = Len(c) + 1
  <2>1. c \in Seq(S \cup {g}) /\ g \in S \cup {g}
    BY <1>1
  <2> QED
    BY <2>1
<1>4. DOMAIN e = 1 .. Len(c) + 1
  BY <1>3
<1>5. \A k \in DOMAIN c : e[k] = c[k]
  BY <1>1, <1>2
<1>6. e[Len(c) + 1] = g
  BY <1>1, <1>2
<1>7. DOMAIN e = DOMAIN c \cup {Len(c) + 1} /\ Len(c) + 1 \notin DOMAIN c
  BY <1>2, <1>4
<1>8. Last(e) = g /\ e # <<>>
  BY <1>2, <1>3, <1>6 DEF Last
<1>9. \A k \in DOMAIN e : Framed(e[k])
  BY <1>5, <1>6, <1>7 DEF IsStack
<1>10. c # <<>> => Len(c) \in DOMAIN c /\ e[Len(c)] = Last(c)
  BY <1>5, StackIs
<1>11. ASSUME NEW k \in DOMAIN e, k > 1 PROVE Called(e[k - 1], e[k])
  <2>1. CASE k = Len(c) + 1
    <3>1. c # <<>> /\ k - 1 = Len(c)
      BY <1>2, <1>11, <2>1, StackIs
    <3> QED
      BY <1>6, <1>10, <2>1, <3>1
  <2>2. CASE k # Len(c) + 1
    <3>1. k \in DOMAIN c /\ k - 1 \in DOMAIN c
      BY <1>2, <1>4, <1>11, <2>2
    <3>2. Called(c[k - 1], c[k])
      BY <1>11, <3>1 DEF IsStack
    <3> QED
      BY <1>5, <3>1, <3>2
  <2> QED
    BY <2>1, <2>2
<1>12. ASSUME NEW k \in DOMAIN e, e[k].op \in Inner \cup {"flush"},
              NEW l \in DOMAIN e, l > k
       PROVE  e[l].op \in Inner
  <2>1. k \in DOMAIN c
    BY <1>2, <1>4, <1>12
  <2>2. c[k].op \in Inner \cup {"flush"}
    BY <1>5, <1>12, <2>1
  <2>3. CASE l \in DOMAIN c
    BY <1>5, <1>12, <2>1, <2>2, <2>3 DEF IsStack
  <2>4. CASE l \notin DOMAIN c
    <3>1. l = Len(c) + 1 /\ c # <<>> /\ Len(c) \in DOMAIN c /\ Last(c) = c[Len(c)]
      BY <1>2, <1>7, <2>1, <2>4, StackIs
    <3>2. Len(c) = k \/ Len(c) > k
      BY <1>2, <2>1
    <3>3. c[Len(c)].op \in Inner \cup {"flush"}
      BY <2>1, <2>2, <3>1, <3>2 DEF IsStack
    <3> QED
      BY <1>6, <3>1, <3>3
  <2> QED
    BY <2>3, <2>4
<1>13. IsStack(e)
  BY <1>3, <1>9, <1>11, <1>12 DEF IsStack
<1>14. c # <<>> => e[Len(e) - 1] = Last(c)
  <2>1. Len(e) - 1 = Len(c)
    BY <1>2, <1>3
  <2> QED
    BY <1>10, <2>1
<1> QED
  BY <1>3, <1>5, <1>7, <1>8, <1>13, <1>14 DEF Pushes

\* e is c without its top.
Pops(c, e) ==
  /\ IsStack(e) /\ Len(e) = Len(c) - 1
  /\ DOMAIN e = DOMAIN c \ {Len(c)}
  /\ \A k \in DOMAIN e : e[k] = c[k] /\ k \in DOMAIN c
  /\ e = <<>> <=> Len(c) = 1
  /\ e # <<>> => /\ Len(c) - 1 \in DOMAIN c
                 /\ Last(e) = c[Len(c) - 1]
                 /\ Called(Last(e), Last(c))

\* A function returns to its caller.
LEMMA Popped ==
  ASSUME NEW c, IsStack(c), c # <<>>, NEW e, e = Front(c)
  PROVE  Pops(c, e)
<1>1. PICK S : c \in Seq(S)
  BY DEF IsStack
<1>2. Len(c) \in Nat /\ DOMAIN c = 1 .. Len(c) /\ Len(c) > 0 /\ Last(c) = c[Len(c)]
  BY StackIs
<1>3. e = SubSeq(c, 1, Len(c) - 1)
  BY DEF Front
<1>4. e \in Seq(S) /\ Len(e) = Len(c) - 1 /\ DOMAIN e = 1 .. Len(c) - 1
  BY <1>1, <1>2, <1>3
<1>5. \A k \in DOMAIN e : e[k] = c[k] /\ k \in DOMAIN c
  BY <1>1, <1>2, <1>3, <1>4
<1>6. DOMAIN e = DOMAIN c \ {Len(c)}
  BY <1>2, <1>4
<1>7. e = <<>> <=> Len(c) = 1
  BY <1>2, <1>4
<1>8. \A k \in DOMAIN e : k > 1 => Called(e[k - 1], e[k])
  <2> SUFFICES ASSUME NEW k \in DOMAIN e, k > 1 PROVE Called(e[k - 1], e[k])
    OBVIOUS
  <2>1. k - 1 \in DOMAIN e
    BY <1>4
  <2>2. Called(c[k - 1], c[k])
    BY <1>5 DEF IsStack
  <2> QED
    BY <1>5, <2>1, <2>2
<1>9. IsStack(e)
  BY <1>4, <1>5, <1>8 DEF IsStack
<1>10. ASSUME e # <<>>
       PROVE  /\ Len(c) - 1 \in DOMAIN c
              /\ Last(e) = c[Len(c) - 1]
              /\ Called(Last(e), Last(c))
  <2>1. Len(c) - 1 \in DOMAIN e /\ Len(c) > 1
    BY <1>2, <1>4, <1>7, <1>10
  <2>2. Last(e) = c[Len(c) - 1]
    BY <1>4, <1>5, <2>1 DEF Last
  <2>3. Called(c[Len(c) - 1], c[Len(c)])
    BY <1>2, <2>1 DEF IsStack
  <2> QED
    BY <1>2, <1>5, <2>1, <2>2, <2>3
<1> QED
  BY <1>4, <1>5, <1>6, <1>7, <1>9, <1>10 DEF Pops

\* A stack of one frame.
LEMMA Started ==
  ASSUME NEW g, Framed(g)
  PROVE  /\ IsStack(<<g>>) /\ Len(<<g>>) = 1 /\ <<g>> # <<>> /\ Last(<<g>>) = g
         /\ DOMAIN <<g>> = {1} /\ <<g>>[1] = g
<1>1. <<g>> \in Seq({g}) /\ Len(<<g>>) = 1 /\ DOMAIN <<g>> = {1} /\ <<g>>[1] = g
  OBVIOUS
<1>2. PICK e : e = <<g>>
  OBVIOUS
<1>3. e \in Seq({g}) /\ Len(e) = 1 /\ DOMAIN e = {1} /\ e[1] = g
  BY <1>1, <1>2
<1>4. \A k, l \in DOMAIN e : ~(k > 1) /\ ~(l > k)
  BY <1>3
<1>5. IsStack(e)
  BY <1>3, <1>4 DEF IsStack
<1>6. Last(e) = g /\ e # <<>>
  BY <1>3 DEF Last
<1> QED
  BY <1>1, <1>2, <1>5, <1>6

\* No call runs.
LEMMA Emptied ==
  IsStack(<<>>) /\ DOMAIN <<>> = {} /\ Len(<<>>) = 0
<1>1. <<>> \in Seq({})
  OBVIOUS
<1> QED
  BY <1>1 DEF IsStack

\* Under a top that is no part of a write there is no write, under a flush no flush.
LEMMA Outer ==
  ASSUME NEW c, IsStack(c), c # <<>>, Last(c).op \notin Inner
  PROVE  \A k \in DOMAIN c : /\ c[k].op \notin Inner
                             /\ c[k].op = "flush" => k = Len(c)
<1> SUFFICES ASSUME NEW k \in DOMAIN c
             PROVE  c[k].op \notin Inner /\ (c[k].op = "flush" => k = Len(c))
  OBVIOUS
<1>1. Len(c) \in DOMAIN c /\ Last(c) = c[Len(c)] /\ DOMAIN c = 1 .. Len(c) /\ Len(c) \in Nat
  BY StackIs
<1>2. k = Len(c) \/ Len(c) > k
  BY <1>1
<1>3. Len(c) > k => c[k].op \notin Inner \cup {"flush"}
  BY <1>1 DEF IsStack
<1> QED
  BY <1>1, <1>2, <1>3

\* What nobody calls is at the bottom.
LEMMA Bottom ==
  ASSUME NEW c, IsStack(c)
  PROVE  \A k \in DOMAIN c : c[k].op \in {"truncate", "close", "read"} => k = 1
<1> SUFFICES ASSUME NEW k \in DOMAIN c, c[k].op \in {"truncate", "close", "read"}, k # 1
             PROVE  FALSE
  OBVIOUS
<1>1. k > 1
  BY StackIs
<1>2. Called(c[k - 1], c[k])
  BY <1>1 DEF IsStack
<1> QED
  BY <1>2 DEF Called

-----------------------------------------------------------------------------
\* The invariant

\* The handle writes to blocks.
W == file.writing /\ ~file.inline

Ent == Chain(disk, entry.head, entry.size)
Old == Chain(disk, file.ctz.head, file.ctz.size)

FileFields == {"ctz", "inline", "open", "append", "reading", "writing", "dirty",
               "erred", "pos", "off", "block", "cur", "cache", "stale", "misread"}

\* The device's own errors do not hit a block that is programmed or read in
\* the middle of a write.
Mild == Faults \subseteq {"erase", "copy", "flush"}

\* No cache has been left with what an error makes of it.
Settled == file.cache = "right" /\ ~file.stale /\ file.misread = Null

Laid ==
  DOMAIN disk = Blocks
    /\ \A b \in Blocks : DOMAIN disk[b] = {"prev", "data"} /\ disk[b].prev # Inline

Named ==
  /\ DOMAIN entry = {"head", "size", "buf"} /\ entry.size \in Nat
  /\ entry.head = Inline => entry.size <= InlineMax

Shape ==
  /\ DOMAIN disk = Blocks /\ window \subseteq Blocks /\ bad = {}
  /\ DOMAIN file = FileFields /\ DOMAIN file.cur = {"prev", "data"}
  /\ DOMAIN file.ctz = {"head", "size", "buf"}
  /\ entry.size \in Nat /\ file.ctz.size \in Nat
  /\ file.pos \in Nat /\ file.off \in Nat
  /\ \A b \in Blocks : DOMAIN disk[b] = {"prev", "data"} /\ disk[b].prev # Inline
  /\ file.cur.prev # Inline
  /\ DOMAIN entry = {"head", "size", "buf"}
  /\ file.open \/ calls = <<>>

\* What is kept in the directory is small.
Small ==
  /\ entry.head = Inline => entry.size <= InlineMax
  /\ file.ctz.head = Inline => file.ctz.size <= InlineMax
  /\ file.inline => file.ctz.head = Inline

\* What the handle needs is not free, and a clean handle has the entry's list.
Apart ==
  /\ (Old \cup Ent) \cap window = {}
  /\ ~file.dirty /\ file.ctz.head # Inline =>
       file.ctz.head = entry.head /\ file.ctz.size = entry.size

\* A block that is written to is in neither list, and with the blocks before it
\* holds what has been written.
Geometry ==
  W => /\ file.block \in Blocks /\ file.off <= BlockSize
       /\ file.off = 0 => file.pos = 0 \/ At("write", "prog")
       /\ file.off = BlockSize => disk[file.block] = file.cur
       /\ file.block \notin Old \cup Ent \cup window
       /\ \E q \in Nat : /\ file.pos = q * BlockSize + file.off
                         /\ Walk(View, file.block, q) \cap window = {}

\* A write goes on that will get over the end of what was inline.
Mid ==
  /\ At("write", "loop") \/ At("write", "prog")
  /\ file.ctz.head = Inline
  /\ file.off = file.pos /\ file.pos + Len(Top.data) >= file.ctz.size

\* A file that has left the directory is written over to its end, at least.
Pending ==
  ~file.inline /\ file.ctz.head = Inline =>
    file.writing /\ (file.pos >= file.ctz.size \/ Mid)

Running(f) == f.op = "write" /\ f.at # "begin"
Busy == file.writing \/ \E k \in DOMAIN calls : Running(calls[k])

\* Where a write may stand.
Standing ==
  /\ file.append => file.pos >= file.ctz.size
  /\ file.inline => file.pos <= InlineMax
  /\ file.writing \/ file.pos <= file.ctz.size

\* A truncate that waits will cut, a flush that waits writes.
Waits(f, size, w) ==
  /\ f.op = "truncate" /\ f.at = "cut" => f.n < size
  /\ f.op = "flush" /\ f.at # "begin" => w

Positions ==
  /\ Busy => Standing
  /\ \A k \in DOMAIN calls : Waits(calls[k], Size, W)

AtWrite ==
  Top.op = "write" =>
    /\ Top.at \in {"loop", "prog"} /\ file.inline =>
         file.pos + Len(Top.data) <= InlineMax
    /\ Top.at = "prog" => /\ file.writing /\ Len(Top.data) > 0
                          /\ file.inline \/ file.off < BlockSize
    /\ Top.at = "extend" =>
         /\ ~file.inline /\ Len(Top.data) > 0
         /\ file.writing => file.off = BlockSize
         /\ ~file.writing /\ file.pos # 0 =>
              /\ file.block = Find(disk, file.ctz.head, file.ctz.size, file.pos - 1)
              /\ file.cur.prev = Prev(disk, file.block)

AtOutline ==
  Top.op = "outline" =>
    /\ Top.at = "begin" /\ Len(calls) > 1
    /\ file.inline /\ file.off = file.pos /\ file.pos <= InlineMax
    /\ \/ /\ calls[Len(calls) - 1].op = "write"
          /\ file.pos + Len(calls[Len(calls) - 1].data) > InlineMax
       \/ calls[Len(calls) - 1].op = "sync" /\ file.pos = file.ctz.size

AtFlushed ==
  /\ Top.op \in Callers /\ Top.at = "flushed" => ~file.writing
  /\ Top.op = "truncate" /\ Top.at = "cut" => ~file.writing
  /\ Top.op = "flush" /\ Top.at = "drain" => file.pos >= file.ctz.size
  /\ Top.op = "flush" => Top.at # "assert"

Tops == calls # <<>> => AtWrite /\ AtOutline /\ AtFlushed

FileInv ==
  /\ IsStack(calls) /\ Shape /\ Small /\ Apart /\ Geometry /\ Pending
  /\ Positions /\ Tops

-----------------------------------------------------------------------------
\* What the invariant says in a state

\* What is programmed to a block of neither list is not seen in the lists.
LEMMA OutsideSame ==
  ASSUME NEW d, NEW e, NEW h, NEW size \in Nat, NEW b, DOMAIN d = Blocks,
         b \notin Chain(d, h, size), \A c \in Blocks : c # b => e[c] = d[c]
  PROVE  Chain(e, h, size) = Chain(d, h, size)
<1>1. \A c \in Chain(d, h, size) : d[c].prev = e[c].prev
  BY ChainBlocks
<1> QED
  BY <1>1, ChainSame

\* The view is the device but for the block written to.
LEMMA ViewIs ==
  ASSUME Shape
  PROVE  /\ \A c \in Blocks : c # file.block => View[c] = disk[c]
         /\ ~file.writing => View = disk
         /\ file.writing /\ file.block \in Blocks =>
              View[file.block] = file.cur /\ View = [disk EXCEPT ![file.block] = file.cur]
         /\ DOMAIN View = Blocks
BY DEF Shape, View

\* The length of what has been written tells how many blocks it has.
LEMMA WrittenIs ==
  ASSUME NEW d, NEW h, NEW p \in Nat, NEW q \in Nat, NEW r \in 1 .. BlockSize,
         p = q * BlockSize + r
  PROVE  p > 0 /\ Chain(d, h, p) = Walk(d, h, q)
<1>1. PICK n \in Nat : n = BlockSize /\ n > 0
  BY FileAssumption
<1>2. q * n \in Nat /\ q * n >= 0
  BY <1>1
<1>3. p > 0 /\ p - 1 \in Nat /\ r - 1 \in 0 .. n - 1 /\ p - 1 = q * n + (r - 1)
  BY <1>1, <1>2
<1>4. Index(p - 1) = q
  BY <1>1, <1>3, IndexIs
<1>5. Chain(d, h, p) = Walk(d, h, Index(p - 1))
  BY <1>3, ChainIs
<1> QED
  BY <1>3, <1>4, <1>5

\* The traversal sees the entry's list and the handle's.
LEMMA UsedHolds ==
  ASSUME Shape, Small, Apart, Geometry
  PROVE  Old \cup Ent \subseteq Used
<1>1. Ent \subseteq Used
  BY DEF Ent, Used
<1>2. CASE file.ctz.head = Inline
  <2>1. Inline \notin Blocks
    BY FileAssumption DEF Inline
  <2>2. Old = {}
    BY <1>2, <2>1, ChainNone DEF Old, Shape
  <2> QED
    BY <1>1, <2>2
<1>3. CASE file.ctz.head # Inline /\ ~file.dirty
  <2>1. Old = Ent
    BY <1>3 DEF Old, Ent, Apart
  <2> QED
    BY <1>1, <2>1
<1>4. CASE file.ctz.head # Inline /\ file.dirty
  <2>1. ~file.inline
    BY <1>4 DEF Small
  <2>2. file.writing => file.block \notin Old
    BY <2>1 DEF Geometry, W
  <2>3. file.ctz.size \in Nat /\ DOMAIN disk = Blocks
    BY DEF Shape
  <2>4. CASE file.writing
    <3>1. \A c \in Blocks : c # file.block => View[c] = disk[c]
      BY ViewIs
    <3>2. Chain(View, file.ctz.head, file.ctz.size) = Old
      BY <2>2, <2>3, <2>4, <3>1, OutsideSame DEF Old
    <3> QED
      BY <1>1, <1>4, <2>1, <3>2 DEF Used
  <2>5. CASE ~file.writing
    <3>1. View = disk
      BY <2>5, ViewIs
    <3> QED
      BY <1>1, <1>4, <2>1, <3>1 DEF Used, Old
  <2> QED
    BY <2>4, <2>5
<1> QED
  BY <1>2, <1>3, <1>4

\* Stands for what the allocator, the lists and the writing depend on.
Core == <<entry, disk, window, bad, file.open, file.ctz, file.inline, file.append,
          file.writing, file.dirty, file.pos, file.off, file.block, file.cur>>

\* What depends on the core stays as it is when the core does.
LEMMA Still ==
  ASSUME UNCHANGED Core
  PROVE  /\ W' = W /\ Size' = Size /\ View' = View /\ Ent' = Ent /\ Old' = Old
         /\ Standing' = Standing /\ Small' = Small /\ Apart' = Apart
<1>1. W' = W /\ Size' = Size /\ View' = View /\ Standing' = Standing
  BY DEF Core, W, Size, Larger, View, Standing
<1>2. Ent' = Ent /\ Old' = Old
  BY DEF Core, Ent, Old
<1>3. Small' = Small
  BY DEF Core, Small
<1>4. Apart' = Apart
  BY <1>2 DEF Core, Apart
<1> QED
  BY <1>1, <1>2, <1>3, <1>4

\* The block written to stays in place when the core does.
LEMMA StillGeometry ==
  ASSUME UNCHANGED Core, Geometry, ~At("write", "prog")
  PROVE  Geometry'
<1>1. W' = W /\ View' = View /\ Ent' = Ent /\ Old' = Old
  BY Still
<1> SUFFICES ASSUME W
             PROVE  /\ file'.block \in Blocks /\ file'.off <= BlockSize
                    /\ file'.off = 0 => file'.pos = 0
                    /\ file'.off = BlockSize => disk'[file'.block] = file'.cur
                    /\ file'.block \notin Old' \cup Ent' \cup window'
                    /\ \E q \in Nat : /\ file'.pos = q * BlockSize + file'.off
                                      /\ Walk(View', file'.block, q) \cap window' = {}
  BY <1>1 DEF Geometry
<1>2. /\ file.block \in Blocks /\ file.off <= BlockSize
      /\ file.off = 0 => file.pos = 0
      /\ file.off = BlockSize => disk[file.block] = file.cur
      /\ file.block \notin Old \cup Ent \cup window
      /\ \E q \in Nat : /\ file.pos = q * BlockSize + file.off
                        /\ Walk(View, file.block, q) \cap window = {}
  BY DEF Geometry
<1> QED
  BY <1>1, <1>2 DEF Core

\* So does what is pending.
LEMMA StillPending ==
  ASSUME UNCHANGED Core, Pending, Mid => Mid' \/ file.pos >= file.ctz.size
  PROVE  Pending'
BY DEF Pending, Core

\* The positions are kept by a step that ends no writing and cuts nothing off.
LEMMA PositionsKept ==
  ASSUME Positions, Busy /\ Standing => Standing', file.writing' => Standing',
         Size \in Nat, Size' \in Nat, Size <= Size', W => W',
         \A k \in DOMAIN calls' :
           \/ k \in DOMAIN calls /\ calls'[k] = calls[k]
           \/ /\ Running(calls'[k]) => Standing'
              /\ Waits(calls'[k], Size', W'),
         \A k \in DOMAIN calls : calls[k].n \in Nat
  PROVE  Positions'
<1>1. ASSUME NEW k \in DOMAIN calls', Running(calls'[k]) PROVE Standing'
  <2>1. CASE k \in DOMAIN calls /\ calls'[k] = calls[k]
    <3>1. Busy
      BY <1>1, <2>1 DEF Busy
    <3> QED
      BY <3>1 DEF Positions
  <2> QED
    BY <1>1, <2>1
<1>2. Busy' => Standing'
  BY <1>1 DEF Busy
<1>3. ASSUME NEW k \in DOMAIN calls' PROVE Waits(calls'[k], Size', W')
  <2>1. CASE k \in DOMAIN calls /\ calls'[k] = calls[k]
    <3>1. Waits(calls[k], Size, W) /\ calls[k].n \in Nat
      BY <2>1 DEF Positions
    <3> QED
      BY <2>1, <3>1 DEF Waits
  <2> QED
    BY <2>1
<1> QED
  BY <1>2, <1>3 DEF Positions

\* The frames that are pushed.
LEMMA PlainFrame ==
  ASSUME NEW op \in {"read", "sync", "close", "flush", "outline"},
         NEW g, g = Frame(op)
  PROVE  Framed(g) /\ g.op = op /\ g.at = "begin"
<1>1. <<>> \in Seq({})
  OBVIOUS
<1> QED
  BY <1>1 DEF Frame, Framed, Callers, Inner

\* A seek has a position.
LEMMA SeekFrame ==
  ASSUME NEW n \in Nat, NEW g, g = [Frame("seek") EXCEPT !.n = n]
  PROVE  Framed(g) /\ g.op = "seek" /\ g.at = "begin" /\ g.n = n
<1>1. <<>> \in Seq({})
  OBVIOUS
<1> QED
  BY <1>1 DEF Frame, Framed, Callers, Inner

\* So has a truncate.
LEMMA TruncateFrame ==
  ASSUME NEW n \in Nat, NEW g, g = [Frame("truncate") EXCEPT !.n = n]
  PROVE  Framed(g) /\ g.op = "truncate" /\ g.at = "begin" /\ g.n = n
<1>1. <<>> \in Seq({})
  OBVIOUS
<1> QED
  BY <1>1 DEF Frame, Framed, Callers, Inner

\* A fill has an end.
LEMMA FillFrame ==
  ASSUME NEW n, NEW g, g = [Frame("fill") EXCEPT !.back = n]
  PROVE  Framed(g) /\ g.op = "fill" /\ g.at = "begin"
<1>1. <<>> \in Seq({})
  OBVIOUS
<1> QED
  BY <1>1 DEF Frame, Framed, Callers, Inner

\* A write has data.
LEMMA WriteFrame ==
  ASSUME NEW S, NEW d \in Seq(S), NEW g, g = [Frame("write") EXCEPT !.data = d]
  PROVE  Framed(g) /\ g.op = "write" /\ g.at = "begin" /\ g.data = d
BY DEF Frame, Framed, Callers, Inner

\* The size is one.
LEMMA SizeIs ==
  ASSUME Shape
  PROVE  /\ Size \in Nat /\ file.ctz.size <= Size
         /\ file.writing => file.pos <= Size
         /\ ~file.writing => Size = file.ctz.size
BY DEF Shape, Size, Larger

\* What a step that leaves the core alone keeps.
LEMMA StillAll ==
  ASSUME FileInv, UNCHANGED Core, DOMAIN file' = FileFields,
         calls' = <<>> \/ file.open, ~At("write", "prog"),
         Mid => Mid' \/ file.pos >= file.ctz.size
  PROVE  Shape' /\ Small' /\ Apart' /\ Geometry' /\ Pending'
<1>1. Shape'
  BY DEF FileInv, Shape, Core
<1>2. Small' /\ Apart'
  BY Still DEF FileInv
<1>3. Geometry'
  BY StillGeometry DEF FileInv
<1>4. Pending'
  BY StillPending DEF FileInv
<1> QED
  BY <1>1, <1>2, <1>3, <1>4

\* The positions, when the core is left alone.
LEMMA StillPositions ==
  ASSUME FileInv, UNCHANGED Core,
         \A k \in DOMAIN calls' :
           \/ k \in DOMAIN calls /\ calls'[k] = calls[k]
           \/ /\ Running(calls'[k]) => Standing
              /\ Waits(calls'[k], Size, W)
  PROVE  Positions'
<1>1. Standing' = Standing /\ Size' = Size /\ W' = W
  BY Still
<1>2. file'.writing => Standing
  BY DEF FileInv, Core, Positions, Busy
<1>3. Size \in Nat
  BY SizeIs DEF FileInv
<1>4. \A k \in DOMAIN calls : calls[k].n \in Nat
  BY DEF FileInv, IsStack, Framed
<1>5. Positions
  BY DEF FileInv
<1> QED
  BY <1>1, <1>2, <1>3, <1>4, <1>5, PositionsKept

\* A function that has not begun asks nothing of the handle.
LEMMA TopsBegin ==
  ASSUME calls' # <<>> => Top'.at = "begin" /\ Top'.op # "outline"
  PROVE  Tops' /\ ~Mid'
BY DEF Tops, AtWrite, AtOutline, AtFlushed, Mid, At

\* Nor does the caller of anything but a flush and an outline.
LEMMA TopsReturn ==
  ASSUME NEW g, g.op \in {"write", "fill", "seek", "sync", "truncate", "close", "read"},
         calls' # <<>> => Called(Top', g)
  PROVE  Tops' /\ ~Mid'
<1>1. calls' # <<>> =>
        \/ Top'.op = "fill" /\ Top'.at = "begin"
        \/ Top'.op = "flush" /\ Top'.at = "copy"
        \/ Top'.op = "truncate" /\ Top'.at \in {"grow", "restored"}
        \/ Top'.op = "write" /\ Top'.at = "check"
        \/ Top'.op = "close" /\ Top'.at = "flushed"
  BY DEF Called
<1>2. Tops'
  BY <1>1 DEF Tops, AtWrite, AtOutline, AtFlushed, Callers
<1>3. ~Mid'
  BY <1>1 DEF Mid, At
<1> QED
  BY <1>2, <1>3

\* The function on the top.
LEMMA TopIs ==
  ASSUME FileInv, calls # <<>>
  PROVE  /\ Framed(Top) /\ Len(calls) \in DOMAIN calls /\ Top = calls[Len(calls)]
         /\ Waits(Top, Size, W) /\ file.open
         /\ AtWrite /\ AtOutline /\ AtFlushed
         /\ Running(Top) => Standing
         /\ Len(calls) \in Nat /\ IsStack(calls)
<1>1. /\ Framed(Top) /\ Len(calls) \in DOMAIN calls /\ Top = calls[Len(calls)]
      /\ IsStack(calls) /\ Len(calls) \in Nat
  BY StackIs DEF FileInv, Top
<1>2. Waits(Top, Size, W) /\ (Running(Top) => Standing)
  BY <1>1 DEF FileInv, Positions, Busy
<1> QED
  BY <1>1, <1>2 DEF FileInv, Shape, Tops

\* A step that enters a function and leaves the core alone.
LEMMA EnterHolds ==
  ASSUME FileInv, calls # <<>>, UNCHANGED Core, DOMAIN file' = FileFields,
         ~At("write", "prog"), ~Mid,
         NEW f, Framed(f), f.op = Top.op, NEW g, Framed(g), Called(f, g),
         Top.op \in Inner \cup {"flush"} => g.op \in Inner,
         g.at = "begin", g.op # "outline",
         Running(f) => Standing, Waits(f, Size, W),
         calls' = Append([calls EXCEPT ![Len(calls)] = f], g)
  PROVE  FileInv'
<1>1. IsStack(calls) /\ file.open
  BY TopIs
<1>2. PICK c : c = [calls EXCEPT ![Len(calls)] = f]
  OBVIOUS
<1>3. /\ IsStack(c) /\ DOMAIN c = DOMAIN calls /\ c # <<>> /\ Last(c) = f
      /\ \A k \in DOMAIN calls : c[k] = IF k = Len(calls) THEN f ELSE calls[k]
  BY <1>1, <1>2, Turned DEF Top, Turns
<1>4. PICK e : e = Append(c, g)
  OBVIOUS
<1>5. /\ IsStack(e) /\ e # <<>> /\ Last(e) = g
      /\ DOMAIN e = DOMAIN c \cup {Len(c) + 1}
      /\ \A k \in DOMAIN c : e[k] = c[k]
      /\ e[Len(c) + 1] = g
  <2>1. /\ IsStack(e) /\ e # <<>> /\ Last(e) = g /\ Len(e) = Len(c) + 1
        /\ DOMAIN e = DOMAIN c \cup {Len(c) + 1}
        /\ \A k \in DOMAIN c : e[k] = c[k]
    <3>1. Called(Last(c), g)
      BY <1>3
    <3>2. Last(c).op \in Inner \cup {"flush"} => g.op \in Inner
      BY <1>3
    <3>3. Pushes(c, g, e)
      BY <1>3, <1>4, <3>1, <3>2, Pushed
    <3> QED
      BY <1>3, <1>4, <3>1, <3>2, <3>3 DEF Pushes
  <2> QED
    BY <2>1, StackIs
<1>6. calls' = e
  BY <1>2, <1>4
<1>7. ~Running(g) /\ Waits(g, Size, W)
  BY DEF Running, Waits
<1>8. Positions'
  BY <1>3, <1>5, <1>6, <1>7, StillPositions
<1>9. Tops' /\ ~Mid'
  BY <1>5, <1>6, TopsBegin DEF Top
<1>10. Shape' /\ Small' /\ Apart' /\ Geometry' /\ Pending'
  BY <1>1, StillAll
<1> QED
  BY <1>5, <1>6, <1>8, <1>9, <1>10 DEF FileInv

\* A step that goes on in a function and leaves the core alone.
LEMMA ContinueHolds ==
  ASSUME FileInv, calls # <<>>, UNCHANGED Core, DOMAIN file' = FileFields,
         ~At("write", "prog"), Mid => Mid' \/ file.pos >= file.ctz.size,
         NEW f, Framed(f), f.op = Top.op,
         Running(f) => Standing, Waits(f, Size, W),
         calls' = [calls EXCEPT ![Len(calls)] = f],
         Top' = f => Tops'
  PROVE  FileInv'
<1>1. IsStack(calls) /\ file.open
  BY TopIs
<1>2. PICK c : c = [calls EXCEPT ![Len(calls)] = f]
  OBVIOUS
<1>3. /\ IsStack(c) /\ DOMAIN c = DOMAIN calls /\ c # <<>> /\ Last(c) = f
      /\ \A k \in DOMAIN calls : c[k] = IF k = Len(calls) THEN f ELSE calls[k]
  BY <1>1, <1>2, Turned DEF Top, Turns
<1>4. calls' = c
  BY <1>2
<1>5. Positions'
  BY <1>3, <1>4, StillPositions
<1>6. Shape' /\ Small' /\ Apart' /\ Geometry' /\ Pending'
  BY <1>1, StillAll
<1>7. Tops'
  BY <1>3, <1>4 DEF Top
<1> QED
  BY <1>3, <1>4, <1>5, <1>6, <1>7 DEF FileInv

\* A step that returns and leaves the core alone.
LEMMA ReturnHolds ==
  ASSUME FileInv, calls # <<>>, UNCHANGED Core, DOMAIN file' = FileFields,
         ~At("write", "prog"), Mid => file.pos >= file.ctz.size,
         calls' = Front(calls),
         calls' # <<>> /\ Called(Top', Top) => Tops'
  PROVE  FileInv'
<1>1. IsStack(calls) /\ file.open
  BY TopIs
<1>2. PICK c : c = Front(calls)
  OBVIOUS
<1>3. /\ IsStack(c) /\ \A k \in DOMAIN c : c[k] = calls[k] /\ k \in DOMAIN calls
      /\ c # <<>> => Called(Last(c), Last(calls))
  <2>1. Pops(calls, c)
    BY <1>1, <1>2, Popped
  <2> QED
    BY <2>1 DEF Pops
<1>4. calls' = c
  BY <1>2
<1>5. Positions'
  BY <1>3, <1>4, StillPositions
<1>6. Shape' /\ Small' /\ Apart' /\ Geometry' /\ Pending'
  BY <1>1, StillAll
<1>7. Tops'
  BY <1>3, <1>4 DEF Tops, Top
<1> QED
  BY <1>3, <1>4, <1>5, <1>6, <1>7 DEF FileInv

-----------------------------------------------------------------------------
\* The steps that leave the core alone

\* A frame that moves on keeps its arguments.
LEMMA TurnIs ==
  ASSUME NEW f, Framed(f), NEW a,
         f.op \in {"flush", "truncate"} => f.at # "begin" \/ a = "begin",
         NEW e, e = [f EXCEPT !.at = a]
  PROVE  /\ Framed(e) /\ e.op = f.op /\ e.at = a
         /\ e.n = f.n /\ e.data = f.data /\ e.back = f.back
<1>1. /\ DOMAIN e = {"op", "at", "n", "data", "back"} /\ e.op = f.op /\ e.at = a
      /\ e.n = f.n /\ e.data = f.data /\ e.back = f.back
  BY DEF Framed
<1>2. Framed(e)
  BY <1>1 DEF Framed
<1> QED
  BY <1>1, <1>2

\* A function that is no write calls another one.
LEMMA Enters ==
  ASSUME FileInv, calls # <<>>, UNCHANGED Core, DOMAIN file' = FileFields,
         Top.op # "write", NEW a, a # "cut",
         Top.op \in {"flush", "truncate"} => Top.at # "begin",
         NEW g, Framed(g), g.at = "begin", g.op # "outline",
         \A f : f.op = Top.op /\ f.at = a => Called(f, g),
         Top.op \in Inner \cup {"flush"} => g.op \in Inner,
         calls' = Append(GoTo(a), g)
  PROVE  FileInv'
<1>1. Framed(Top) /\ Waits(Top, Size, W)
  BY TopIs
<1>2. PICK f : f = [Top EXCEPT !.at = a]
  OBVIOUS
<1>3. Framed(f) /\ f.op = Top.op /\ f.at = a
  BY <1>1, <1>2, TurnIs
<1>4. calls' = Append([calls EXCEPT ![Len(calls)] = f], g)
  <2>1. Top = calls[Len(calls)] /\ Len(calls) \in DOMAIN calls
    BY TopIs
  <2> QED
    BY <1>2, <2>1 DEF GoTo
<1>5. ~Running(f) /\ Waits(f, Size, W)
  BY <1>1, <1>3 DEF Running, Waits
<1>6. ~At("write", "prog") /\ ~Mid
  BY DEF At, Mid
<1>7. Called(f, g)
  BY <1>3
<1> QED
  BY <1>3, <1>4, <1>5, <1>6, <1>7, EnterHolds

\* A function that is no write goes on.
LEMMA Continues ==
  ASSUME FileInv, calls # <<>>, UNCHANGED Core, DOMAIN file' = FileFields,
         Top.op # "write", NEW f, Framed(f), f.op = Top.op, f.at # "cut",
         f.op = "flush" => W,
         calls' = [calls EXCEPT ![Len(calls)] = f],
         Top' = f => Tops'
  PROVE  FileInv'
<1>1. ~Running(f) /\ Waits(f, Size, W)
  BY DEF Running, Waits
<1>2. ~At("write", "prog") /\ ~Mid
  BY DEF At, Mid
<1> QED
  BY <1>1, <1>2, ContinueHolds

\* Anything but a flush and an outline returns.
LEMMA Returns ==
  ASSUME FileInv, calls # <<>>, UNCHANGED Core, DOMAIN file' = FileFields,
         Top.op \in {"write", "fill", "seek", "sync", "truncate", "close", "read"},
         ~At("write", "prog"), Mid => file.pos >= file.ctz.size,
         calls' = Front(calls)
  PROVE  FileInv'
<1>1. Called(Top', Top) => Tops'
  BY TopsReturn
<1> QED
  BY <1>1, ReturnHolds

\* A hole is filled cell by cell.
LEMMA FillHolds ==
  ASSUME FileInv, Fill
  PROVE  FileInv'
<1>1. calls # <<>> /\ Top.op = "fill" /\ Top.at = "begin"
  BY DEF Fill, At
<1>2. UNCHANGED Core /\ DOMAIN file' = FileFields
  BY DEF Fill, Kept, alloc, Core, FileInv, Shape
<1>3. CASE file.pos < Top.back
  <2>1. PICK g : g = [Frame("write") EXCEPT !.data = <<0>>]
    OBVIOUS
  <2>2. <<0>> \in Seq({0})
    OBVIOUS
  <2>3. Framed(g) /\ g.op = "write" /\ g.at = "begin"
    BY <2>1, <2>2, WriteFrame
  <2>4. calls' = Append(GoTo("begin"), g)
    BY <1>3, <2>1 DEF Fill, Enter
  <2>5. \A f : f.op = Top.op /\ f.at = "begin" => Called(f, g)
    BY <1>1, <2>3 DEF Called
  <2> QED
    BY <1>1, <1>2, <2>3, <2>4, <2>5, Enters DEF Inner
<1>4. CASE ~(file.pos < Top.back)
  <2>1. calls' = Front(calls)
    BY <1>4 DEF Fill, Return
  <2>2. ~At("write", "prog") /\ ~Mid
    BY <1>1 DEF At, Mid
  <2> QED
    BY <1>1, <1>2, <2>1, <2>2, Returns
<1> QED
  BY <1>3, <1>4

\* A flush copies from the old list, and only where there is one.
LEMMA CopyHolds ==
  ASSUME FileInv, Copy
  PROVE  FileInv'
<1>1. /\ calls # <<>> /\ Top.op = "flush" /\ Top.at = "copy"
      /\ Framed(Top) /\ Waits(Top, Size, W) /\ Len(calls) \in DOMAIN calls
      /\ Top = calls[Len(calls)] /\ IsStack(calls)
  BY TopIs DEF Copy, At
<1>2. UNCHANGED Core /\ DOMAIN file' = FileFields
  BY DEF Copy, Kept, alloc, Core, FileInv, Shape
<1>3. W
  BY <1>1 DEF Waits
<1>4. CASE file.pos >= file.ctz.size /\ Continue("drain")
  <2>1. PICK f : f = [Top EXCEPT !.at = "drain"]
    OBVIOUS
  <2>2. Framed(f) /\ f.op = Top.op /\ f.at = "drain"
    BY <1>1, <2>1, TurnIs
  <2>3. calls' = [calls EXCEPT ![Len(calls)] = f]
    BY <1>1, <1>4, <2>1 DEF Continue, GoTo
  <2>4. Top' = f => Tops'
    BY <1>1, <1>2, <1>4, <2>2 DEF Tops, AtWrite, AtOutline, AtFlushed, Core, Callers
  <2> QED
    BY <1>1, <1>2, <1>3, <2>2, <2>3, <2>4, Continues
<1>5. CASE /\ file.pos < file.ctz.size /\ file.ctz.head # Inline
           /\ Enter("copy", [Frame("write") EXCEPT !.data =
                <<Cell(disk, file.ctz.head, file.ctz.size, file.pos)>>])
  <2>1. PICK d : d = <<Cell(disk, file.ctz.head, file.ctz.size, file.pos)>>
    OBVIOUS
  <2>2. d \in Seq({Cell(disk, file.ctz.head, file.ctz.size, file.pos)})
    BY <2>1
  <2>3. PICK g : g = [Frame("write") EXCEPT !.data = d]
    OBVIOUS
  <2>4. Framed(g) /\ g.op = "write" /\ g.at = "begin"
    BY <2>2, <2>3, WriteFrame
  <2>5. calls' = Append(GoTo("copy"), g)
    BY <1>5, <2>1, <2>3 DEF Enter
  <2>6. \A f : f.op = Top.op /\ f.at = "copy" => Called(f, g)
    BY <1>1, <2>4 DEF Called
  <2> QED
    BY <1>1, <1>2, <2>4, <2>5, <2>6, Enters DEF Inner
<1>6. ~(file.pos < file.ctz.size /\ file.ctz.head = Inline)
  <2>1. ~Mid
    BY <1>1 DEF Mid, At
  <2> QED
    BY <1>3, <2>1 DEF FileInv, Pending, W, Shape
<1> QED
  BY <1>4, <1>5, <1>6 DEF Copy

\* A function flushes before it begins.
LEMMA FlushHolds ==
  ASSUME FileInv, Flush
  PROVE  FileInv'
<1>1. calls # <<>> /\ Top.op \in Callers /\ Top.at = "begin"
  BY DEF Flush, Callers
<1>2. UNCHANGED Core /\ DOMAIN file' = FileFields
  BY DEF Flush, Kept, alloc, Core, FileInv, Shape
<1>3. PICK g : g = Frame("flush")
  OBVIOUS
<1>4. Framed(g) /\ g.op = "flush" /\ g.at = "begin"
  BY <1>3, PlainFrame
<1>5. calls' = Append(GoTo("flushed"), g)
  BY <1>3 DEF Flush, Enter
<1>6. \A f : f.op = Top.op /\ f.at = "flushed" => Called(f, g)
  BY <1>1, <1>4 DEF Called
<1> QED
  BY <1>1, <1>2, <1>4, <1>5, <1>6, Enters DEF Inner, Callers

\* lfs_file_close syncs first.
LEMMA CloseBeginHolds ==
  ASSUME FileInv, CloseBegin
  PROVE  FileInv'
<1>1. calls # <<>> /\ Top.op = "close" /\ Top.at = "begin"
  BY DEF CloseBegin, At
<1>2. UNCHANGED Core /\ DOMAIN file' = FileFields
  BY DEF CloseBegin, Kept, alloc, Core, FileInv, Shape
<1>3. PICK g : g = Frame("sync")
  OBVIOUS
<1>4. Framed(g) /\ g.op = "sync" /\ g.at = "begin"
  BY <1>3, PlainFrame
<1>5. calls' = Append(GoTo("flushed"), g)
  BY <1>3 DEF CloseBegin, Enter
<1>6. \A f : f.op = Top.op /\ f.at = "flushed" => Called(f, g)
  BY <1>1, <1>4 DEF Called
<1> QED
  BY <1>1, <1>2, <1>4, <1>5, <1>6, Enters DEF Inner

\* lfs_file_truncate writes zeros at the end.
LEMMA GrowHolds ==
  ASSUME FileInv, Grow
  PROVE  FileInv'
<1>1. /\ calls # <<>> /\ Top.op = "truncate" /\ Top.at = "grow"
      /\ Framed(Top) /\ Len(calls) \in DOMAIN calls /\ Top = calls[Len(calls)]
  BY TopIs DEF Grow, At
<1>2. UNCHANGED Core /\ DOMAIN file' = FileFields
  BY DEF Grow, Kept, alloc, Core, FileInv, Shape
<1>3. CASE file.pos < Top.n
  <2>1. PICK g : g = [Frame("write") EXCEPT !.data = <<0>>]
    OBVIOUS
  <2>2. <<0>> \in Seq({0})
    OBVIOUS
  <2>3. Framed(g) /\ g.op = "write" /\ g.at = "begin"
    BY <2>1, <2>2, WriteFrame
  <2>4. calls' = Append(GoTo("grow"), g)
    BY <1>3, <2>1 DEF Grow, Enter
  <2>5. \A f : f.op = Top.op /\ f.at = "grow" => Called(f, g)
    BY <1>1, <2>3 DEF Called
  <2> QED
    BY <1>1, <1>2, <2>3, <2>4, <2>5, Enters DEF Inner
<1>4. CASE ~(file.pos < Top.n)
  <2>1. PICK f : f = [Top EXCEPT !.at = "back"]
    OBVIOUS
  <2>2. Framed(f) /\ f.op = Top.op /\ f.at = "back"
    BY <1>1, <2>1, TurnIs
  <2>3. calls' = [calls EXCEPT ![Len(calls)] = f]
    BY <1>1, <1>4, <2>1 DEF Grow, Continue, GoTo
  <2>4. Top' = f => Tops'
    BY <1>1, <2>2 DEF Tops, AtWrite, AtOutline, AtFlushed, Callers
  <2> QED
    BY <1>1, <1>2, <2>2, <2>3, <2>4, Continues
<1> QED
  BY <1>3, <1>4

\* lfs_file_truncate seeks back to where the file stood.
LEMMA RestoreHolds ==
  ASSUME FileInv, Restore
  PROVE  FileInv'
<1>1. calls # <<>> /\ Top.op = "truncate" /\ Top.at = "back" /\ Framed(Top)
  BY TopIs DEF Restore, At
<1>2. UNCHANGED Core /\ DOMAIN file' = FileFields
  BY DEF Restore, Kept, alloc, Core, FileInv, Shape
<1>3. PICK n \in Nat : n = Top.back
  BY <1>1 DEF Framed
<1>4. PICK g : g = [Frame("seek") EXCEPT !.n = n]
  OBVIOUS
<1>5. Framed(g) /\ g.op = "seek" /\ g.at = "begin"
  BY <1>4, SeekFrame
<1>6. calls' = Append(GoTo("restored"), g)
  BY <1>3, <1>4 DEF Restore, Enter
<1>7. \A f : f.op = Top.op /\ f.at = "restored" => Called(f, g)
  BY <1>1, <1>5 DEF Called
<1> QED
  BY <1>1, <1>2, <1>5, <1>6, <1>7, Enters DEF Inner

\* lfs_file_truncate returns.
LEMMA TruncatedHolds ==
  ASSUME FileInv, Truncated
  PROVE  FileInv'
<1>1. calls # <<>> /\ Top.op = "truncate" /\ ~At("write", "prog") /\ ~Mid
  BY DEF Truncated, At, Mid
<1>2. UNCHANGED Core /\ DOMAIN file' = FileFields
  BY DEF Truncated, Kept, alloc, Core, FileInv, Shape
<1>3. calls' = Front(calls)
  BY DEF Truncated, Return
<1> QED
  BY <1>1, <1>2, <1>3, Returns

\* lfs_file_sync returns without a commit left to make.
LEMMA SyncedHolds ==
  ASSUME FileInv, Synced
  PROVE  FileInv'
<1>1. calls # <<>> /\ Top.op = "sync" /\ ~At("write", "prog") /\ ~Mid
  BY DEF Synced, At, Mid
<1>2. UNCHANGED Core /\ DOMAIN file' = FileFields
  BY DEF Synced, Kept, alloc, Core, FileInv, Shape
<1>3. calls' = Front(calls)
  BY DEF Synced, Return
<1> QED
  BY <1>1, <1>2, <1>3, Returns

\* lfs_file_write returns when its data is programmed.
LEMMA WriteEndsHolds ==
  ASSUME FileInv, WriteEnds
  PROVE  FileInv'
<1>1. calls # <<>> /\ Top.op = "write" /\ Top.at = "loop" /\ ~At("write", "prog")
  BY DEF WriteEnds, At
<1>2. UNCHANGED Core /\ DOMAIN file' = FileFields
  BY DEF WriteEnds, Kept, alloc, Core, FileInv, Shape
<1>3. Mid => file.pos >= file.ctz.size
  <2>1. Len(Top.data) = 0
    BY DEF WriteEnds
  <2> QED
    BY <2>1 DEF Mid, FileInv, Shape
<1>4. calls' = Front(calls)
  BY DEF WriteEnds, Return
<1> QED
  BY <1>1, <1>2, <1>3, <1>4, Returns

\* A stack of two frames.
LEMMA TwoFrames ==
  ASSUME NEW f, NEW g
  PROVE  Append(<<f>>, g) = <<f, g>>
<1>1. PICK c : c = <<f>>
  OBVIOUS
<1>2. PICK e : e = <<f, g>>
  OBVIOUS
<1>3. c \in Seq({f, g}) /\ Len(c) = 1 /\ c[1] = f
  BY <1>1
<1>4. e \in Seq({f, g}) /\ Len(e) = 2 /\ e[1] = f /\ e[2] = g
  BY <1>2
<1>5. PICK a : a = Append(c, g)
  OBVIOUS
<1>6. a \in Seq({f, g}) /\ Len(a) = 2 /\ a[1] = f /\ a[2] = g
  <2>0. PICK S : S = {f, g} /\ c \in Seq(S) /\ g \in S
    BY <1>3
  <2>1. a \in Seq(S) /\ Len(a) = Len(c) + 1
    BY <1>5, <2>0
  <2>2. a[1] = c[1]
    BY <1>3, <1>5, <2>0
  <2>3. a[Len(c) + 1] = g
    <3>1. Len(c) \in Nat
      BY <1>3
    <3> QED
      BY ONLY <1>5, <2>0, <3>1
  <2> QED
    BY <1>3, <2>0, <2>1, <2>2, <2>3
<1>7. a = e
  BY <1>4, <1>6
<1> QED
  BY <1>1, <1>2, <1>5, <1>7

\* A truncate finds out what it has to do.
LEMMA TruncateBeginHolds ==
  ASSUME FileInv, TruncateBegin
  PROVE  FileInv'
<1>1. /\ calls # <<>> /\ Top.op = "truncate" /\ Top.at = "begin"
      /\ Framed(Top) /\ Len(calls) \in DOMAIN calls /\ Top = calls[Len(calls)]
      /\ IsStack(calls) /\ Waits(Top, Size, W)
  BY TopIs DEF TruncateBegin, At
<1>2. UNCHANGED Core /\ DOMAIN file' = FileFields /\ file.pos \in Nat
  BY DEF TruncateBegin, Kept, alloc, Core, FileInv, Shape
<1>3. Len(calls) = 1
  BY <1>1, Bottom
<1>4. PICK f : f = [Top EXCEPT !.back = file.pos,
                               !.at = CASE Top.n < Size -> "cut"
                                        [] Top.n > Size -> "grow"
                                        [] OTHER -> "back"]
  OBVIOUS
<1>5. /\ f.op = Top.op /\ f.n = Top.n /\ f.back = file.pos /\ f.data = Top.data
      /\ DOMAIN f = {"op", "at", "n", "data", "back"}
      /\ f.at = CASE Top.n < Size -> "cut"
                  [] Top.n > Size -> "grow"
                  [] OTHER -> "back"
  BY <1>1, <1>4 DEF Framed
<1>6. Framed(f)
  BY <1>1, <1>2, <1>5 DEF Framed
<1>7. Size \in Nat /\ Top.n \in Nat
  BY <1>1, SizeIs DEF FileInv, Framed
<1>8. /\ Top.n < Size => f.at = "cut"
      /\ Top.n > Size => f.at = "grow"
      /\ Top.n = Size => f.at = "back"
  BY <1>5, <1>7
<1>9. Waits(f, Size, W) /\ ~Running(f)
  BY <1>1, <1>5, <1>7, <1>8 DEF Waits, Running
<1>10. [calls EXCEPT ![Len(calls)] = f] = <<f>>
  <2>1. PICK S : calls \in Seq(S)
    BY <1>1 DEF IsStack
  <2>2. PICK c : c = [calls EXCEPT ![1] = f]
    OBVIOUS
  <2>3. c \in Seq(S \cup {f}) /\ Len(c) = 1 /\ c[1] = f
    BY <1>3, <2>1, <2>2
  <2>4. c = <<f>>
    BY <2>3
  <2> QED
    BY <1>3, <2>2, <2>4
<1>11. ~At("write", "prog") /\ ~Mid
  BY <1>1 DEF At, Mid
<1>12. Top.n < Size \/ Top.n > Size \/ Top.n = Size
  BY <1>7
<1>13. CASE Top.n < Size
  <2>1. PICK g : g = Frame("flush")
    OBVIOUS
  <2>2. Framed(g) /\ g.op = "flush" /\ g.at = "begin"
    BY <2>1, PlainFrame
  <2>3. calls' = <<f, g>>
    <3>1. ~(Top.n > Size)
      BY <1>7, <1>13
    <3> QED
      BY <1>4, <1>13, <2>1, <3>1 DEF TruncateBegin
  <2>4. calls' = Append([calls EXCEPT ![Len(calls)] = f], g)
    <3>1. Append(<<f>>, g) = <<f, g>>
      BY TwoFrames
    <3> QED
      BY <1>10, <2>3, <3>1
  <2>5. Called(f, g)
    BY <1>1, <1>5, <1>8, <1>13, <2>2 DEF Called
  <2> QED
    BY <1>1, <1>2, <1>5, <1>6, <1>9, <1>11, <2>2, <2>4, <2>5, EnterHolds DEF Inner
<1>14. CASE Top.n > Size /\ file.pos # Size
  <2>1. PICK g : g = [Frame("seek") EXCEPT !.n = Size]
    OBVIOUS
  <2>2. Framed(g) /\ g.op = "seek" /\ g.at = "begin"
    BY <1>7, <2>1, SeekFrame
  <2>3. ~(Top.n < Size)
    BY <1>7, <1>14
  <2>4. calls' = <<f, g>>
    BY <1>4, <1>14, <2>1, <2>3 DEF TruncateBegin
  <2>5. calls' = Append([calls EXCEPT ![Len(calls)] = f], g)
    <3>1. Append(<<f>>, g) = <<f, g>>
      BY TwoFrames
    <3> QED
      BY <1>10, <2>4, <3>1
  <2>6. Called(f, g)
    BY <1>1, <1>5, <1>8, <1>14, <2>2 DEF Called
  <2> QED
    BY <1>1, <1>2, <1>5, <1>6, <1>9, <1>11, <2>2, <2>5, <2>6, EnterHolds DEF Inner
<1>15. CASE Top.n >= Size /\ ~(Top.n > Size /\ file.pos # Size)
  <2>1. ~(Top.n < Size)
    BY <1>7, <1>15
  <2>2. calls' = <<f>>
    BY <1>4, <1>15, <2>1 DEF TruncateBegin
  <2>3. calls' = [calls EXCEPT ![Len(calls)] = f]
    BY <1>10, <2>2
  <2>4. f.at # "cut"
    BY <1>7, <1>8, <1>12, <2>1
  <2>5. Top' = f => Tops'
    BY <1>1, <1>5, <2>4 DEF Tops, AtWrite, AtOutline, AtFlushed, Callers
  <2> QED
    BY <1>1, <1>2, <1>5, <1>6, <2>3, <2>4, <2>5, Continues
<1> QED
  BY <1>7, <1>12, <1>13, <1>14, <1>15

-----------------------------------------------------------------------------
\* Calls, failures and the allocator's bitmap

\* A call is made.
LEMMA CallHolds ==
  ASSUME FileInv, NEW g, Framed(g), g.at = "begin", g.op # "outline", Call(g)
  PROVE  FileInv'
<1>1. calls = <<>> /\ calls' = <<g>> /\ file.open
  BY DEF Call
<1>2. UNCHANGED Core /\ DOMAIN file' = FileFields
  BY DEF Call, alloc, Core, FileInv, Shape
<1>3. PICK c : c = <<g>>
  OBVIOUS
<1>4. IsStack(c) /\ Last(c) = g /\ DOMAIN c = {1} /\ c[1] = g
  BY <1>3, Started
<1>5. calls' = c
  BY <1>1, <1>3
<1>6. ~At("write", "prog") /\ ~Mid
  BY <1>1 DEF At, Mid
<1>7. ~Running(g) /\ Waits(g, Size, W)
  BY DEF Running, Waits
<1>8. Positions'
  BY <1>2, <1>4, <1>5, <1>7, StillPositions
<1>9. Tops' /\ ~Mid'
  BY <1>4, <1>5, TopsBegin DEF Top
<1>10. Shape' /\ Small' /\ Apart' /\ Geometry' /\ Pending'
  BY <1>1, <1>2, <1>6, StillAll
<1> QED
  BY <1>4, <1>5, <1>8, <1>9, <1>10 DEF FileInv

\* What a fresh handle is.
LEMMA FreshIs ==
  /\ DOMAIN Fresh = FileFields /\ DOMAIN Fresh.cur = {"prev", "data"}
  /\ DOMAIN Fresh.ctz = {"head", "size", "buf"}
  /\ Fresh.ctz.head = Inline /\ Fresh.ctz.size = 0
  /\ Fresh.pos = 0 /\ Fresh.off = 0 /\ Fresh.cur.prev = Null
  /\ Fresh.inline /\ ~Fresh.writing /\ ~Fresh.open /\ ~Fresh.append
BY DEF Fresh, Erased, FileFields

\* Nothing is left to do for a handle that is closed, whatever has become of the
\* device and the entry on the way.
LEMMA FreshApart ==
  ASSUME FileInv, file' = Fresh, calls' = <<>>, window' \subseteq window, bad' = bad,
         Laid', Named', Ent' \cap window = {}
  PROVE  FileInv'
<1>1. IsStack(calls') /\ DOMAIN calls' = {}
  BY Emptied
<1>2. Shape'
  BY FreshIs DEF FileInv, Shape, Inline, Null, Laid, Named
<1>3. ~W' /\ ~Busy'
  BY <1>1, FreshIs DEF W, Busy
<1>4. Small'
  BY FreshIs, FileAssumption DEF Small, Named
<1>5. Old' = {}
  <2>1. Inline \notin Blocks /\ 0 \in Nat
    BY FileAssumption DEF Inline
  <2>2. Chain(disk', Inline, 0) = {}
    BY <2>1, ChainNone
  <2> QED
    BY <2>2, FreshIs DEF Old
<1>6. Apart'
  BY <1>5, FreshIs DEF Apart
<1>7. Geometry'
  BY <1>3 DEF Geometry
<1>8. Pending'
  BY FreshIs DEF Pending
<1>9. Positions'
  BY <1>1, <1>3 DEF Positions
<1>10. Tops'
  BY DEF Tops
<1> QED
  BY <1>1, <1>2, <1>4, <1>6, <1>7, <1>8, <1>9, <1>10 DEF FileInv

LEMMA FreshHolds ==
  ASSUME FileInv, file' = Fresh, calls' = <<>>, window' \subseteq window,
         UNCHANGED <<entry, disk, bad>>
  PROVE  FileInv'
<1>1. Laid' /\ Named'
  BY DEF FileInv, Shape, Small, Laid, Named
<1>2. Ent' \cap window = {}
  BY DEF FileInv, Apart, Ent
<1> QED
  BY <1>1, <1>2, FreshApart

\* The calls end, and the core stays as it is.
LEMMA EndsHolds ==
  ASSUME FileInv, calls' = <<>>, UNCHANGED Core, DOMAIN file' = FileFields,
         ~At("write", "prog"), Mid => file.pos >= file.ctz.size
  PROVE  FileInv'
<1>1. IsStack(calls') /\ DOMAIN calls' = {}
  BY Emptied
<1>2. Positions'
  BY <1>1, StillPositions
<1>3. Tops'
  BY DEF Tops
<1>4. Shape' /\ Small' /\ Apart' /\ Geometry' /\ Pending'
  BY StillAll
<1> QED
  BY <1>1, <1>2, <1>3, <1>4 DEF FileInv

\* What a handle is after an error.
Erred == [file EXCEPT !.erred =
            @ \/ \E k \in DOMAIN calls : calls[k].op \in {"write", "sync"}]

\* The calls end with an error that has left something on the device, or in the
\* directory.
LEMMA ErredHolds ==
  ASSUME FileInv, calls' = <<>>, file' = Erred, window' \subseteq window, bad' = bad,
         ~At("write", "prog"), Mid => file.pos >= file.ctz.size,
         Laid', Named', Ent' \cap window = {}, Old' = Old, Geometry',
         file.dirty \/ entry' = entry
  PROVE  FileInv'
<1>1. IsStack(calls') /\ DOMAIN calls' = {}
  BY Emptied
<1>2. DOMAIN file = FileFields
  BY DEF FileInv, Shape
<1>3. /\ DOMAIN file' = FileFields /\ file'.ctz = file.ctz /\ file'.inline = file.inline
      /\ file'.open = file.open /\ file'.append = file.append
      /\ file'.writing = file.writing /\ file'.dirty = file.dirty
      /\ file'.pos = file.pos /\ file'.off = file.off /\ file'.block = file.block
      /\ file'.cur = file.cur
  BY <1>2 DEF Erred, FileFields
<1>4. Shape'
  BY <1>3 DEF FileInv, Shape, Laid, Named
<1>5. Small'
  BY <1>3 DEF FileInv, Small, Named
<1>6. Apart'
  <2>1. (Old' \cup Ent') \cap window' = {}
    BY DEF FileInv, Apart
  <2>2. ~file.dirty /\ file.ctz.head # Inline =>
          file.ctz.head = entry.head /\ file.ctz.size = entry.size
    BY DEF FileInv, Apart
  <2> QED
    BY <1>3, <2>1, <2>2 DEF Apart
<1>7. Pending'
  BY <1>3 DEF FileInv, Pending
<1>8. Positions'
  <2>1. Busy' => Busy
    BY <1>1, <1>3 DEF Busy
  <2>2. Standing' = Standing
    BY <1>3 DEF Standing
  <2> QED
    BY <1>1, <2>1, <2>2 DEF FileInv, Positions
<1>9. Tops'
  BY DEF Tops
<1> QED
  BY <1>1, <1>4, <1>5, <1>6, <1>7, <1>8, <1>9 DEF FileInv

\* An error goes up through all callers.
LEMMA FailsHolds ==
  ASSUME FileInv, Fails, UNCHANGED <<entry, disk, bad, alloc>>,
         ~At("write", "prog"), Mid => file.pos >= file.ctz.size
  PROVE  FileInv'
<1>1. calls' = <<>>
  BY DEF Fails, FailsWith
<1>2. CASE file' = Fresh
  BY <1>1, <1>2, FreshHolds DEF alloc
<1>3. CASE file' = Erred
  <2>1. UNCHANGED Core /\ DOMAIN file' = FileFields
    BY <1>3 DEF alloc, Core, FileInv, Shape, Erred
  <2> QED
    BY <1>1, <2>1, EndsHolds
<1> QED
  BY <1>2, <1>3 DEF Fails, FailsWith, Erred

\* The device is full.
LEMMA NoSpaceHolds ==
  ASSUME FileInv, NoSpace
  PROVE  FileInv'
<1>1. ~At("write", "prog") /\ ~Mid
  BY DEF NoSpace, Allocating, At, Mid
<1> QED
  BY <1>1, FailsHolds DEF NoSpace

\* The old list cannot be read while it is copied.
LEMMA CopyFailsHolds ==
  ASSUME FileInv, CopyFails
  PROVE  FileInv'
<1>1. ~At("write", "prog") /\ ~Mid
  BY DEF CopyFails, At, Mid
<1> QED
  BY <1>1, FailsHolds DEF CopyFails

\* The block that was allocated has been erased, or not.
LEMMA EraseFailsHolds ==
  ASSUME FileInv, EraseFails
  PROVE  FileInv'
<1>1. /\ ~At("write", "prog") /\ ~Mid /\ calls' = <<>> /\ UNCHANGED <<entry, bad>>
      /\ file' = Fresh \/ file' = Erred
  BY DEF EraseFails, Allocating, At, Mid, Fails, FailsWith, Erred
<1>2. PICK b \in window : /\ window' = window \ {b}
                         /\ disk' \in {disk, [disk EXCEPT ![b] = Erased]}
  BY DEF EraseFails, Take
<1>3. /\ b \in Blocks /\ b \notin Old \cup Ent /\ DOMAIN disk = Blocks
      /\ entry.size \in Nat /\ file.ctz.size \in Nat
      /\ (Old \cup Ent) \cap window = {}
  BY DEF FileInv, Shape, Apart
<1>4. \A c \in Blocks : c # b => disk'[c] = disk[c]
  BY <1>2, <1>3
<1>5. Laid' /\ Named'
  <2>1. Erased.prev # Inline /\ DOMAIN Erased = {"prev", "data"}
    BY DEF Erased, Inline, Null
  <2> QED
    BY <1>1, <1>2, <1>3, <2>1 DEF Laid, Named, FileInv, Shape, Small
<1>6. Chain(disk', entry.head, entry.size) = Chain(disk, entry.head, entry.size)
  BY <1>3, <1>4, OutsideSame DEF Ent
<1>7. Ent' = Ent
  BY <1>1, <1>6 DEF Ent
<1>8. CASE file' = Fresh
  BY <1>1, <1>2, <1>3, <1>5, <1>7, <1>8, FreshApart
<1>9. CASE file' = Erred
  <2>1. DOMAIN file = FileFields
    BY DEF FileInv, Shape
  <2>2. /\ file'.ctz = file.ctz /\ file'.inline = file.inline
        /\ file'.writing = file.writing /\ file'.pos = file.pos
        /\ file'.off = file.off /\ file'.block = file.block /\ file'.cur = file.cur
    BY <1>9, <2>1 DEF Erred, FileFields
  <2>3. Chain(disk', file.ctz.head, file.ctz.size)
          = Chain(disk, file.ctz.head, file.ctz.size)
    BY <1>3, <1>4, OutsideSame DEF Old
  <2>4. Old' = Old /\ W' = W
    BY <2>2, <2>3 DEF Old, W
  <2>5. Geometry'
    <3> SUFFICES ASSUME W
                 PROVE  /\ file'.block \in Blocks /\ file'.off <= BlockSize
                        /\ file'.off = 0 => file'.pos = 0
                        /\ file'.off = BlockSize => disk'[file'.block] = file'.cur
                        /\ file'.block \notin Old' \cup Ent' \cup window'
                        /\ \E q \in Nat : /\ file'.pos = q * BlockSize + file'.off
                                          /\ Walk(View', file'.block, q) \cap window' = {}
      BY <2>4 DEF Geometry
    <3>1. /\ file.block \in Blocks /\ file.off <= BlockSize
          /\ file.off = 0 => file.pos = 0
          /\ file.off = BlockSize => disk[file.block] = file.cur
          /\ file.block \notin Old \cup Ent \cup window
      BY <1>1 DEF FileInv, Geometry
    <3>2. PICK q \in Nat : /\ file.pos = q * BlockSize + file.off
                          /\ Walk(View, file.block, q) \cap window = {}
      BY DEF FileInv, Geometry
    <3>3. PICK v, e : v = View /\ e = View'
      OBVIOUS
    <3>4. \A c \in Blocks : c # b => v[c] = e[c]
      <4>1. v = [disk EXCEPT ![file.block] = file.cur]
        BY <3>1, <3>3 DEF View, W
      <4>2. e = [disk' EXCEPT ![file.block] = file.cur]
        BY <2>2, <3>1, <3>3 DEF View, W
      <4>3. DOMAIN disk' = Blocks
        BY <1>2, <1>3
      <4> QED
        BY <1>3, <1>4, <4>1, <4>2, <4>3
    <3>5. \A c \in Walk(v, file.block, q) : v[c].prev = e[c].prev
      BY <3>2, <3>3, <3>4 DEF Walk
    <3>6. Walk(e, file.block, q) = Walk(v, file.block, q)
      BY <3>5, WalkSame
    <3>7. Walk(e, file.block, q) \cap window' = {}
      BY <1>2, <3>2, <3>3, <3>6
    <3> QED
      BY <1>2, <1>4, <1>7, <2>2, <2>4, <3>1, <3>2, <3>3, <3>7
  <2> QED
    BY <1>1, <1>2, <1>3, <1>5, <1>7, <1>9, <2>4, <2>5, ErredHolds
<1> QED
  BY <1>1, <1>8, <1>9

\* The block of the handle has been programmed with what its cache holds, or not.
LEMMA FlushFailsHolds ==
  ASSUME FileInv, FlushFails
  PROVE  FileInv'
<1>1. /\ calls # <<>> /\ Top.op = "flush" /\ Top.at = "drain"
      /\ Waits(Top, Size, W) /\ UNCHANGED <<entry, bad, window>>
      /\ ~At("write", "prog") /\ ~Mid /\ calls' = <<>>
      /\ file' = Fresh \/ file' = Erred
      /\ disk' \in {disk, [disk EXCEPT ![file.block] = file.cur]}
  BY TopIs DEF FlushFails, At, Mid, alloc, Fails, FailsWith, Erred
<1>2. W
  BY <1>1 DEF Waits
<1>3. /\ file.block \in Blocks /\ file.off <= BlockSize
      /\ file.off = 0 => file.pos = 0
      /\ file.off = BlockSize => disk[file.block] = file.cur
      /\ file.block \notin Old \cup Ent \cup window
      /\ \E q \in Nat : /\ file.pos = q * BlockSize + file.off
                        /\ Walk(View, file.block, q) \cap window = {}
  BY <1>1, <1>2 DEF FileInv, Geometry
<1>4. /\ DOMAIN disk = Blocks /\ entry.size \in Nat /\ file.ctz.size \in Nat
      /\ (Old \cup Ent) \cap window = {} /\ DOMAIN file = FileFields
      /\ DOMAIN file.cur = {"prev", "data"} /\ file.cur.prev # Inline
  BY DEF FileInv, Shape, Apart
<1>5. \A c \in Blocks : c # file.block => disk'[c] = disk[c]
  BY <1>1, <1>4
<1>6. Laid' /\ Named'
  BY <1>1, <1>3, <1>4 DEF Laid, Named, FileInv, Shape, Small
<1>7. Chain(disk', entry.head, entry.size) = Chain(disk, entry.head, entry.size)
  BY <1>3, <1>4, <1>5, OutsideSame DEF Ent
<1>8. Ent' = Ent
  BY <1>1, <1>7 DEF Ent
<1>9. CASE file' = Fresh
  BY <1>1, <1>4, <1>6, <1>8, <1>9, FreshApart
<1>10. CASE file' = Erred
  <2>1. /\ file'.ctz = file.ctz /\ file'.inline = file.inline
        /\ file'.writing = file.writing /\ file'.pos = file.pos
        /\ file'.off = file.off /\ file'.block = file.block /\ file'.cur = file.cur
    BY <1>4, <1>10 DEF Erred, FileFields
  <2>2. Chain(disk', file.ctz.head, file.ctz.size)
          = Chain(disk, file.ctz.head, file.ctz.size)
    BY <1>3, <1>4, <1>5, OutsideSame DEF Old
  <2>3. Old' = Old /\ W' = W
    BY <2>1, <2>2 DEF Old, W
  <2>4. View' = View
    <3>1. View = [disk EXCEPT ![file.block] = file.cur]
      BY <1>2, <1>3 DEF View, W
    <3>2. View' = [disk' EXCEPT ![file.block] = file.cur]
      BY <1>2, <1>3, <2>1 DEF View, W
    <3> QED
      BY <1>1, <1>3, <1>4, <3>1, <3>2
  <2>5. Geometry'
    BY <1>1, <1>3, <1>4, <1>8, <2>1, <2>3, <2>4 DEF Geometry
  <2> QED
    BY <1>1, <1>4, <1>6, <1>8, <1>10, <2>3, <2>5, ErredHolds
<1> QED
  BY <1>1, <1>9, <1>10

\* The commit of a sync fails, and may have landed.
LEMMA CommitFailsHolds ==
  ASSUME FileInv, CommitFails
  PROVE  FileInv'
<1>1. /\ ~At("write", "prog") /\ ~Mid /\ calls' = <<>> /\ UNCHANGED <<disk, bad, window>>
      /\ file' = Fresh \/ file' = Erred
      /\ entry' \in {entry, file.ctz} /\ file.dirty
  BY DEF CommitFails, Committable, At, Mid, alloc, Fails, FailsWith, Erred
<1>2. Laid' /\ Named'
  BY <1>1 DEF Laid, Named, FileInv, Shape, Small
<1>3. Ent' = Ent \/ Ent' = Old
  BY <1>1 DEF Ent, Old
<1>4. Ent' \cap window = {}
  BY <1>3 DEF FileInv, Apart
<1>5. CASE file' = Fresh
  BY <1>1, <1>2, <1>4, <1>5, FreshApart
<1>6. CASE file' = Erred
  <2>1. DOMAIN file = FileFields
    BY DEF FileInv, Shape
  <2>2. /\ file'.ctz = file.ctz /\ file'.inline = file.inline
        /\ file'.writing = file.writing /\ file'.pos = file.pos
        /\ file'.off = file.off /\ file'.block = file.block /\ file'.cur = file.cur
    BY <1>6, <2>1 DEF Erred, FileFields
  <2>3. Old' = Old /\ W' = W /\ View' = View
    BY <1>1, <2>2 DEF Old, W, View
  <2>4. Geometry'
    BY <1>1, <1>3, <2>2, <2>3 DEF FileInv, Geometry
  <2> QED
    BY <1>1, <1>2, <1>4, <1>6, <2>3, <2>4, ErredHolds
<1> QED
  BY <1>1, <1>5, <1>6

\* The process ends.
LEMMA CrashHolds ==
  ASSUME FileInv, Crash
  PROVE  FileInv'
BY FreshHolds DEF Crash, Kept

\* Another user of the file system acknowledges what it was given.
LEMMA AckElsewhereHolds ==
  ASSUME FileInv, AckElsewhere
  PROVE  FileInv'
<1>1. calls' = <<>> /\ ~At("write", "prog") /\ ~Mid
  BY DEF AckElsewhere, At, Mid
<1>2. UNCHANGED Core /\ DOMAIN file' = FileFields
  BY DEF AckElsewhere, Core, FileInv, Shape
<1> QED
  BY <1>1, <1>2, EndsHolds

\* What the bitmap finds free is not needed.
LEMMA RefillHolds ==
  ASSUME FileInv, Refill
  PROVE  FileInv'
<1>1. /\ window' \subseteq Blocks \ Used
      /\ UNCHANGED <<entry, disk, bad, flight, file, calls, ops, ret>>
  BY DEF Refill
<1>2. /\ W' = W /\ View' = View /\ Ent' = Ent /\ Old' = Old /\ Size' = Size
      /\ Standing' = Standing /\ Busy' = Busy /\ Mid' = Mid
      /\ At("write", "prog")' = At("write", "prog")
  BY <1>1 DEF W, View, Ent, Old, Size, Larger, Standing, Busy, Mid, At, Top
<1>3. IsStack(calls') /\ Shape' /\ Small' /\ Pending'
  BY <1>1, <1>2 DEF FileInv, Shape, Small, Pending
<1>4. Positions' /\ Tops'
  BY <1>1, <1>2
     DEF FileInv, Positions, Tops, AtWrite, AtOutline, AtFlushed, Top
<1>5. Apart'
  <2>1. Old \cup Ent \subseteq Used
    BY UsedHolds DEF FileInv
  <2> QED
    BY <1>1, <1>2, <2>1 DEF FileInv, Apart
<1>6. ASSUME W
      PROVE  /\ file.block \in Blocks /\ file.off = BlockSize
             /\ file.block \notin window'
             /\ \E q \in Nat : /\ file.pos = q * BlockSize + file.off
                               /\ Walk(View, file.block, q) \cap window' = {}
  <2>1. calls # <<>> /\ Framed(Top) /\ AtWrite /\ AtOutline
    BY TopIs DEF Refill, Allocating
  <2>2. Top.op = "write" /\ Top.at = "extend"
    BY <1>6, <2>1 DEF Refill, Allocating, At, AtOutline, W, Framed, Callers, Inner
  <2>3. file.off = BlockSize
    BY <1>6, <2>1, <2>2 DEF AtWrite, W
  <2>4. PICK q \in Nat : file.pos = q * BlockSize + file.off
    BY <1>6 DEF FileInv, Geometry
  <2>5. BlockSize \in 1 .. BlockSize /\ file.pos \in Nat
    BY FileAssumption DEF FileInv, Shape
  <2>6. Chain(View, file.block, file.pos) = Walk(View, file.block, q)
    BY <2>3, <2>4, <2>5, WrittenIs
  <2>7. Walk(View, file.block, q) \subseteq Used
    BY <1>6, <2>6 DEF Used, W
  <2>8. file.block \in Blocks
    BY <1>6 DEF FileInv, Geometry
  <2>9. file.block \in Walk(View, file.block, q)
    BY <2>8, WalkFirst
  <2> QED
    BY <1>1, <2>3, <2>4, <2>7, <2>8, <2>9
<1>7. Geometry'
  <2>1. W => file.off # 0 /\ file.block \notin Old \cup Ent
    BY <1>6, FileAssumption DEF FileInv, Geometry
  <2>2. W => (file.off = BlockSize => disk[file.block] = file.cur)
    BY DEF FileInv, Geometry
  <2>3. BlockSize <= BlockSize
    BY FileAssumption
  <2> QED
    BY <1>1, <1>2, <1>6, <2>1, <2>2, <2>3 DEF Geometry
<1> QED
  BY <1>3, <1>4, <1>5, <1>7 DEF FileInv

-----------------------------------------------------------------------------
\* The steps that do not write

\* A handle is opened on the entry's list, or on none.
LEMMA OpenHolds ==
  ASSUME FileInv, NEW trunc \in BOOLEAN, NEW append \in BOOLEAN, Open(trunc, append)
  PROVE  FileInv'
<1>1. /\ ~file.open /\ UNCHANGED <<entry, disk, bad, window, calls>>
      /\ file' = [Fresh EXCEPT !.open = TRUE, !.append = append, !.dirty = trunc,
                           !.inline = trunc \/ entry.head = Inline,
                           !.ctz = IF trunc THEN @ ELSE entry]
  BY DEF Open, alloc
<1>2. /\ DOMAIN file' = FileFields /\ file'.cur = Fresh.cur /\ file'.open
      /\ file'.pos = 0 /\ file'.off = 0 /\ ~file'.writing
      /\ file'.dirty = trunc
      /\ file'.inline <=> (trunc \/ entry.head = Inline)
      /\ file'.ctz = IF trunc THEN Fresh.ctz ELSE entry
  BY <1>1 DEF Fresh, FileFields
<1>3. calls = <<>> /\ calls' = <<>>
  BY <1>1 DEF FileInv, Shape
<1>4. IsStack(calls') /\ DOMAIN calls' = {}
  BY <1>3, Emptied
<1>5. Shape'
  BY <1>1, <1>2, <1>3, FreshIs DEF FileInv, Shape, Inline, Null
<1>6. ~W' /\ ~Busy' /\ Ent' = Ent
  BY <1>1, <1>2, <1>4 DEF W, Busy, Ent
<1>7. Small'
  BY <1>1, <1>2, FreshIs, FileAssumption DEF FileInv, Small
<1>8. Old' \subseteq Ent
  <2>1. CASE trunc
    <3>1. Inline \notin Blocks /\ 0 \in Nat
      BY FileAssumption DEF Inline
    <3>2. Chain(disk', Inline, 0) = {}
      BY <3>1, ChainNone
    <3> QED
      BY <1>2, <2>1, <3>2, FreshIs DEF Old
  <2>2. CASE ~trunc
    BY <1>1, <1>2, <2>2 DEF Old, Ent
  <2> QED
    BY <2>1, <2>2
<1>9. Apart'
  BY <1>1, <1>2, <1>6, <1>8, FreshIs DEF FileInv, Apart
<1>10. Geometry' /\ Positions'
  BY <1>4, <1>6 DEF Geometry, Positions
<1>11. Pending' /\ Tops'
  BY <1>2, <1>3, FreshIs DEF Pending, Tops
<1> QED
  BY <1>4, <1>5, <1>7, <1>9, <1>10, <1>11 DEF FileInv

\* The caller of a flush goes on with a handle that does not write.
LEMMA FlushReturns ==
  ASSUME FileInv, calls # <<>>, Top.op = "flush", calls' = Front(calls),
         ~file'.writing, Size' = Size
  PROVE  IsStack(calls') /\ Positions' /\ Tops' /\ file.open
<1>1. IsStack(calls) /\ file.open /\ Top = Last(calls)
  BY TopIs DEF Top
<1>2. Pops(calls, calls')
  BY <1>1, Popped
<1>3. /\ IsStack(calls') /\ DOMAIN calls' = DOMAIN calls \ {Len(calls)}
      /\ \A k \in DOMAIN calls' : calls'[k] = calls[k] /\ k \in DOMAIN calls
      /\ calls' # <<>> => Called(Last(calls'), Top)
  BY <1>1, <1>2 DEF Pops
<1>4. \A k \in DOMAIN calls : /\ calls[k].op \notin Inner
                              /\ calls[k].op = "flush" => k = Len(calls)
  <2>1. Last(calls).op \notin Inner
    BY <1>1 DEF Inner
  <2> QED
    BY <1>1, <2>1, Outer
<1>5. \A k \in DOMAIN calls' : calls'[k].op # "write" /\ calls'[k].op # "flush"
  BY <1>3, <1>4 DEF Inner
<1>6. ~Busy'
  BY <1>5 DEF Busy, Running
<1>7. \A k \in DOMAIN calls' : Waits(calls'[k], Size', W')
  BY <1>3, <1>5 DEF FileInv, Positions, Waits
<1>8. Positions'
  BY <1>6, <1>7 DEF Positions
<1>9. Tops'
  BY <1>3 DEF Tops, AtWrite, AtOutline, AtFlushed, Called, Callers, Top
<1> QED
  BY <1>1, <1>3, <1>8, <1>9

\* lfs_file_flush of a file that is not written, is inline, or is a list.
LEMMA FlushBeginHolds ==
  ASSUME FileInv, FlushBegin
  PROVE  FileInv'
<1>1. /\ calls # <<>> /\ Top.op = "flush" /\ Top.at = "begin"
      /\ Framed(Top) /\ Len(calls) \in DOMAIN calls /\ Top = calls[Len(calls)]
      /\ UNCHANGED <<entry, disk, bad, window>>
  BY TopIs DEF FlushBegin, At, Kept, alloc
<1>2. ~At("write", "prog") /\ ~Mid
  BY <1>1 DEF At, Mid
<1>3. CASE ~file.writing /\ file' = [file EXCEPT !.reading = FALSE] /\ Return(Nothing)
  <2>1. UNCHANGED Core /\ DOMAIN file' = FileFields
    BY <1>1, <1>3 DEF Core, FileInv, Shape
  <2>2. calls' = Front(calls) /\ ~file'.writing
    BY <1>3, <2>1 DEF Return, Core
  <2>3. Size' = Size
    BY <2>1, Still
  <2>4. Tops'
    BY <1>1, <2>2, <2>3, FlushReturns
  <2> QED
    BY <1>1, <1>2, <2>1, <2>2, <2>4, ReturnHolds
<1>4. CASE /\ file.writing /\ file.inline
           /\ file' = [file EXCEPT !.ctz.size = Larger(@, file.pos),
                                   !.writing = FALSE, !.dirty = TRUE]
           /\ Return(Nothing)
  <2>1. /\ DOMAIN file' = FileFields /\ DOMAIN file'.ctz = {"head", "size", "buf"}
        /\ file'.ctz.head = file.ctz.head
        /\ file'.ctz.size = Larger(file.ctz.size, file.pos)
        /\ ~file'.writing /\ file'.dirty /\ file'.inline = file.inline
        /\ file'.pos = file.pos /\ file'.off = file.off /\ file'.cur = file.cur
        /\ file'.open = file.open
    BY <1>4 DEF FileInv, Shape, FileFields
  <2>2. calls' = Front(calls)
    BY <1>4 DEF Return
  <2>3. Size' = Size
    BY <1>4, <2>1 DEF Size, Larger, FileInv, Shape
  <2>4. IsStack(calls') /\ Positions' /\ Tops' /\ file.open
    BY <1>1, <2>1, <2>2, <2>3, FlushReturns
  <2>5. Shape'
    BY <1>1, <2>1, <2>4 DEF FileInv, Shape, Larger
  <2>6. file.pos <= InlineMax /\ file.ctz.head = Inline /\ file.ctz.size <= InlineMax
    BY <1>4 DEF FileInv, Positions, Busy, Standing, Small
  <2>7. Small'
    BY <1>1, <2>1, <2>6 DEF FileInv, Small, Larger
  <2>8. Inline \notin Blocks
    BY FileAssumption DEF Inline
  <2>9. Old' = {} /\ Ent' = Ent
    <3>1. file'.ctz.size \in Nat
      BY <2>5 DEF Shape
    <3>2. Chain(disk', Inline, file'.ctz.size) = {}
      BY <2>8, <3>1, ChainNone
    <3> QED
      BY <1>1, <2>1, <2>6, <3>2 DEF Old, Ent
  <2>10. Apart'
    BY <1>1, <2>1, <2>9 DEF FileInv, Apart
  <2>11. Geometry' /\ Pending'
    BY <1>4, <2>1 DEF Geometry, Pending, W
  <2> QED
    BY <2>4, <2>5, <2>7, <2>10, <2>11 DEF FileInv
<1>5. CASE /\ file.writing /\ ~file.inline
           /\ calls' = [GoTo("copy") EXCEPT ![Len(calls)].back = file.pos]
           /\ UNCHANGED <<file, ret>>
  <2>1. UNCHANGED Core /\ DOMAIN file' = FileFields /\ file.pos \in Nat
    BY <1>1, <1>5 DEF Core, FileInv, Shape
  <2>2. PICK f : f = [Top EXCEPT !.at = "copy", !.back = file.pos]
    OBVIOUS
  <2>3. /\ DOMAIN f = {"op", "at", "n", "data", "back"} /\ f.op = Top.op
        /\ f.at = "copy" /\ f.n = Top.n /\ f.data = Top.data /\ f.back = file.pos
    BY <1>1, <2>2 DEF Framed
  <2>4. Framed(f)
    BY <1>1, <2>1, <2>3 DEF Framed
  <2>5. calls' = [calls EXCEPT ![Len(calls)] = f]
    BY <1>1, <1>5, <2>2 DEF GoTo
  <2>6. Top' = f => Tops'
    BY <1>1, <2>3 DEF Tops, AtWrite, AtOutline, AtFlushed, Callers
  <2> QED
    BY <1>1, <1>5, <2>1, <2>3, <2>4, <2>5, <2>6, Continues DEF W
<1> QED
  BY <1>3, <1>4, <1>5 DEF FlushBegin

\* The entry is the handle's list from now on.
LEMMA CommitHolds ==
  ASSUME FileInv, Commit
  PROVE  FileInv'
<1>1. /\ calls # <<>> /\ Top.op = "sync" /\ Top.at = "flushed"
      /\ AtFlushed /\ UNCHANGED <<disk, bad, window, calls>>
      /\ entry' = file.ctz /\ file' = [file EXCEPT !.dirty = FALSE]
  BY TopIs DEF Commit, At, alloc
<1>2. ~file.writing
  BY <1>1 DEF AtFlushed, Callers
<1>3. /\ DOMAIN file' = FileFields /\ ~file'.dirty
      /\ file'.ctz = file.ctz /\ file'.inline = file.inline
      /\ file'.writing = file.writing /\ file'.append = file.append
      /\ file'.pos = file.pos /\ file'.off = file.off /\ file'.cur = file.cur
      /\ file'.open = file.open /\ file'.block = file.block
  BY <1>1 DEF FileInv, Shape, FileFields
<1>4. Shape' /\ Small'
  BY <1>1, <1>3 DEF FileInv, Shape, Small
<1>5. Old' = Old /\ Ent' = Old /\ W' = W /\ Size' = Size /\ Standing' = Standing
  BY <1>1, <1>3 DEF Old, Ent, W, Size, Larger, Standing
<1>6. Apart'
  BY <1>1, <1>3, <1>5 DEF FileInv, Apart
<1>7. Geometry' /\ Pending'
  BY <1>1, <1>2, <1>3, <1>5 DEF FileInv, Geometry, Pending, W, Mid, At, Top
<1>8. Positions'
  BY <1>1, <1>3, <1>5 DEF FileInv, Positions, Busy
<1>9. Tops'
  BY <1>1, <1>2, <1>3 DEF Tops, AtWrite, AtOutline, AtFlushed, Callers, Top
<1> QED
  BY <1>1, <1>4, <1>6, <1>7, <1>8, <1>9 DEF FileInv

\* lfs_file_close drops the handle.
LEMMA ClosedHolds ==
  ASSUME FileInv, Closed
  PROVE  FileInv'
<1>1. /\ calls # <<>> /\ Top.op = "close" /\ IsStack(calls)
      /\ Len(calls) \in DOMAIN calls /\ Top = calls[Len(calls)]
  BY TopIs DEF Closed, At
<1>2. Len(calls) = 1
  BY <1>1, Bottom
<1>3. calls' = Front(calls)
  BY DEF Closed, Return
<1>4. Pops(calls, calls')
  BY <1>1, <1>3, Popped
<1>5. calls' = <<>>
  BY <1>2, <1>4 DEF Pops
<1> QED
  BY <1>5, FreshHolds DEF Closed, Kept, alloc

\* A handle that does not write moves to another position, and the call returns.
LEMMA MovesHold ==
  ASSUME FileInv, calls # <<>>, Top.op \in {"seek", "read"}, calls' = Front(calls),
         UNCHANGED <<entry, disk, bad, window>>, ~file.writing,
         DOMAIN file' = FileFields, file'.pos \in Nat, file'.off \in Nat,
         ~file'.writing, file'.ctz = file.ctz, file'.inline = file.inline,
         file'.dirty = file.dirty, file'.open = file.open, file'.cur = file.cur
  PROVE  FileInv'
<1>1. IsStack(calls) /\ file.open /\ Top = Last(calls)
  BY TopIs DEF Top
<1>2. Pops(calls, calls')
  BY <1>1, Popped
<1>3. /\ IsStack(calls')
      /\ calls' # <<>> => Called(Last(calls'), Top)
      /\ \A k \in DOMAIN calls' : calls'[k] = calls[k] /\ k \in DOMAIN calls
  BY <1>1, <1>2 DEF Pops
<1>4. \A k \in DOMAIN calls : /\ calls[k].op \notin Inner
                              /\ calls[k].op = "flush" => k = Len(calls)
  <2>1. Last(calls).op \notin Inner
    BY <1>1 DEF Inner
  <2> QED
    BY <1>1, <2>1, Outer
<1>5. Len(calls) \in DOMAIN calls /\ Top = calls[Len(calls)]
  BY TopIs
<1>6. \A k \in DOMAIN calls' : calls'[k].op # "write" /\ calls'[k].op # "flush"
  BY <1>3, <1>4, <1>5 DEF Inner
<1>7. Size' = Size /\ ~W' /\ Ent' = Ent /\ Old' = Old
  BY DEF Size, W, Ent, Old
<1>8. Shape' /\ Small'
  BY <1>1 DEF FileInv, Shape, Small
<1>9. Apart' /\ Geometry' /\ Pending'
  BY <1>7 DEF FileInv, Apart, Geometry, Pending
<1>10. ~Busy'
  BY <1>6 DEF Busy, Running
<1>11. \A k \in DOMAIN calls' : Waits(calls'[k], Size', W')
  BY <1>3, <1>6, <1>7 DEF FileInv, Positions, Waits
<1>12. Positions'
  BY <1>10, <1>11 DEF Positions
<1>13. Tops'
  BY <1>3, TopsReturn DEF Top
<1> QED
  BY <1>3, <1>8, <1>9, <1>12, <1>13 DEF FileInv

\* lfs_file_seek moves the position of a file that has been flushed.
LEMMA MoveHolds ==
  ASSUME FileInv, Move
  PROVE  FileInv'
<1>1. /\ calls # <<>> /\ Top.op = "seek" /\ Top.at = "flushed" /\ Framed(Top)
      /\ AtFlushed /\ UNCHANGED <<entry, disk, bad, window>>
      /\ calls' = Front(calls) /\ file' = [file EXCEPT !.pos = Top.n]
  BY TopIs DEF Move, At, Kept, alloc, Return
<1>2. ~file.writing /\ Top.n \in Nat
  BY <1>1 DEF AtFlushed, Callers, Framed
<1>3. /\ DOMAIN file' = FileFields /\ file'.pos \in Nat /\ file'.off \in Nat
      /\ ~file'.writing /\ file'.ctz = file.ctz /\ file'.inline = file.inline
      /\ file'.dirty = file.dirty /\ file'.open = file.open /\ file'.cur = file.cur
  BY <1>1, <1>2 DEF FileInv, Shape, FileFields
<1> QED
  BY <1>1, <1>2, <1>3, MovesHold

\* lfs_file_read of a cell moves on by one.
LEMMA FetchHolds ==
  ASSUME FileInv, Fetch
  PROVE  FileInv'
<1>1. /\ calls # <<>> /\ Top.op = "read" /\ AtFlushed
      /\ Top.at = "flushed" \/ ~file.writing
      /\ UNCHANGED <<entry, disk, bad, window>> /\ calls' = Front(calls)
  BY TopIs DEF Fetch, Fetching, At, Kept, alloc, Return
<1>2. ~file.writing
  BY <1>1 DEF AtFlushed, Callers
<1>3. file.pos \in Nat /\ file.pos + 1 \in Nat /\ file.off + 1 \in Nat
  BY DEF FileInv, Shape
<1>4. PICK r \in Nat : file.pos % BlockSize = r /\ r + 1 \in Nat
  BY <1>3, IndexSplit
<1>5. /\ DOMAIN file' = FileFields /\ file'.pos \in Nat /\ file'.off \in Nat
      /\ ~file'.writing /\ file'.ctz = file.ctz /\ file'.inline = file.inline
      /\ file'.dirty = file.dirty /\ file'.open = file.open /\ file'.cur = file.cur
  <2>1. CASE UNCHANGED file
    BY <1>2, <2>1 DEF FileInv, Shape
  <2>2. CASE file' = [file EXCEPT !.pos = @ + 1, !.reading = TRUE]
    BY <1>2, <1>3, <2>2 DEF FileInv, Shape, FileFields
  <2>3. CASE \E b, at, st : /\ at = file.off \/ at = file.pos % BlockSize
                            /\ file' = [file EXCEPT !.pos = @ + 1, !.reading = TRUE,
                                           !.stale = st, !.block = b, !.off = at + 1]
    <3>1. PICK b, at, st : /\ at = file.off \/ at = file.pos % BlockSize
                           /\ file' = [file EXCEPT !.pos = @ + 1, !.reading = TRUE,
                                          !.stale = st, !.block = b, !.off = at + 1]
      BY <2>3
    <3>2. at + 1 \in Nat
      BY <1>3, <1>4, <3>1
    <3> QED
      BY <1>2, <1>3, <3>1, <3>2 DEF FileInv, Shape, FileFields
  <2>4. \/ UNCHANGED file
        \/ file' = [file EXCEPT !.pos = @ + 1, !.reading = TRUE]
        \/ \E b, at, st : /\ at = file.off \/ at = file.pos % BlockSize
                          /\ file' = [file EXCEPT !.pos = @ + 1, !.reading = TRUE,
                                         !.stale = st, !.block = b, !.off = at + 1]
    BY DEF Fetch
  <2> QED
    BY <2>1, <2>2, <2>3, <2>4
<1> QED
  BY <1>1, <1>2, <1>5, MovesHold

\* What is cut off leaves a part of the list.
LEMMA CutHolds ==
  ASSUME FileInv, Cut
  PROVE  FileInv'
<1>1. /\ calls # <<>> /\ Top.op = "truncate" /\ Top.at = "cut" /\ Framed(Top)
      /\ Len(calls) \in DOMAIN calls /\ Top = calls[Len(calls)] /\ Top = Last(calls)
      /\ IsStack(calls) /\ Waits(Top, Size, W) /\ AtFlushed /\ file.open
      /\ UNCHANGED <<entry, disk, bad, window>>
  BY TopIs DEF Cut, At, Kept, alloc, Top
<1>2. /\ file' = [file EXCEPT
           !.ctz.head = IF file.inline THEN Inline
                        ELSE Find(disk, file.ctz.head, file.ctz.size, Top.n),
           !.ctz.size = Top.n, !.dirty = TRUE, !.reading = TRUE]
      /\ calls' = GoTo("back")
  BY DEF Cut, Continue
<1>3. ~file.writing /\ Top.n \in Nat /\ Top.n < Size /\ Size = file.ctz.size
  BY <1>1, SizeIs DEF AtFlushed, Waits, Framed, FileInv
<1>4. /\ DOMAIN file' = FileFields /\ DOMAIN file'.ctz = {"head", "size", "buf"}
      /\ file'.ctz.head = IF file.inline THEN Inline
                          ELSE Find(disk, file.ctz.head, file.ctz.size, Top.n)
      /\ file'.ctz.size = Top.n /\ file'.dirty
      /\ ~file'.writing /\ file'.inline = file.inline /\ file'.pos = file.pos
      /\ file'.off = file.off /\ file'.cur = file.cur /\ file'.open = file.open
  BY <1>2, <1>3 DEF FileInv, Shape, FileFields
<1>5. Shape'
  BY <1>1, <1>3, <1>4 DEF FileInv, Shape
<1>6. ~file.inline => file.ctz.head # Inline
  BY <1>3 DEF FileInv, Pending
<1>7. /\ file.ctz.size \in Nat \ {0}
      /\ \A b \in Blocks : disk[b].prev # Inline
  BY <1>3 DEF FileInv, Shape
<1>8. file'.ctz.head = Inline => file.inline
  BY <1>3, <1>4, <1>6, <1>7, FindOutside
<1>9. Small'
  BY <1>1, <1>3, <1>4, <1>7, <1>8, FileAssumption DEF FileInv, Small
<1>10. Old' \subseteq Old /\ Ent' = Ent
  <2>1. CASE file.inline
    <3>1. Inline \notin Blocks
      BY FileAssumption DEF Inline
    <3>2. Chain(disk', Inline, Top.n) = {}
      BY <1>3, <3>1, ChainNone
    <3> QED
      BY <1>1, <1>4, <2>1, <3>2 DEF Old, Ent
  <2>2. CASE ~file.inline
    <3>1. PICK h, s, n : h = file.ctz.head /\ s = file.ctz.size /\ n = Top.n
      OBVIOUS
    <3>2. Chain(disk, Find(disk, h, s, n), n) \subseteq Chain(disk, h, s)
      <4>1. s \in Nat /\ n \in Nat /\ n < s
        BY <1>3, <1>7, <3>1
      <4> QED
        BY <4>1, CutPart
    <3> QED
      BY <1>1, <1>4, <2>2, <3>1, <3>2 DEF Old, Ent
  <2> QED
    BY <2>1, <2>2
<1>11. Apart'
  BY <1>1, <1>4, <1>10 DEF FileInv, Apart
<1>12. Geometry' /\ Pending'
  BY <1>4, <1>8 DEF Geometry, Pending, W
<1>13. PICK f : f = [Top EXCEPT !.at = "back"]
  OBVIOUS
<1>14. Framed(f) /\ f.op = Top.op /\ f.at = "back"
  BY <1>1, <1>13, TurnIs
<1>15. calls' = [calls EXCEPT ![Len(calls)] = f]
  BY <1>1, <1>2, <1>13 DEF GoTo
<1>16. Turns(calls, f, calls')
  BY <1>1, <1>14, <1>15, Turned
<1>17. Len(calls) = 1
  BY <1>1, Bottom
<1>18. /\ IsStack(calls') /\ DOMAIN calls' = DOMAIN calls /\ Top' = f
       /\ \A k \in DOMAIN calls : calls'[k] = f
  <2>1. DOMAIN calls = 1 .. Len(calls)
    BY <1>1, StackIs
  <2> QED
    BY <1>16, <1>17, <2>1 DEF Turns, Top
<1>19. Positions'
  BY <1>1, <1>4, <1>14, <1>18 DEF Positions, Busy, Running, Waits
<1>20. Tops'
  BY <1>1, <1>14, <1>18 DEF Tops, AtWrite, AtOutline, AtFlushed, Callers
<1> QED
  BY <1>5, <1>9, <1>11, <1>12, <1>18, <1>19, <1>20 DEF FileInv

-----------------------------------------------------------------------------
\* The steps that write

\* What has been written is the handle's list from now on.
LEMMA DrainHolds ==
  ASSUME FileInv, Drain
  PROVE  FileInv'
<1>1. /\ calls # <<>> /\ Top.op = "flush" /\ Top.at = "drain" /\ Framed(Top)
      /\ Waits(Top, Size, W) /\ AtFlushed /\ UNCHANGED <<entry, bad, window>>
  BY TopIs DEF Drain, At, alloc
<1>2. W /\ file.block \notin bad /\ file.pos >= file.ctz.size /\ Top.back \in Nat
  BY <1>1 DEF Waits, FileInv, Shape, AtFlushed, Framed
<1>3. /\ disk' = [disk EXCEPT ![file.block] = file.cur]
      /\ file' = [file EXCEPT
           !.ctz = [head |-> file.block, size |-> file.pos, buf |-> <<>>],
           !.writing = FALSE, !.dirty = TRUE,
           !.pos = Top.back, !.block = Null, !.off = 0, !.cur = Erased,
           !.cache = "right", !.misread = Null]
      /\ calls' = Front(calls)
  BY <1>2 DEF Drain, Return
<1>4. /\ DOMAIN file' = FileFields /\ DOMAIN file'.ctz = {"head", "size", "buf"}
      /\ file'.ctz.head = file.block /\ file'.ctz.size = file.pos
      /\ ~file'.writing /\ file'.dirty /\ file'.inline = file.inline
      /\ file'.pos = Top.back /\ file'.off = 0 /\ file'.cur = Erased
      /\ file'.open = file.open
  BY <1>3 DEF FileInv, Shape, FileFields
<1>5. /\ file.block \in Blocks
      /\ file.off = 0 => file.pos = 0
      /\ file.block \notin Old \cup Ent \cup window /\ file.off <= BlockSize
  BY <1>1, <1>2 DEF FileInv, Geometry, At
<1>6. PICK q \in Nat : /\ file.pos = q * BlockSize + file.off
                       /\ Walk(View, file.block, q) \cap window = {}
  BY <1>2 DEF FileInv, Geometry
<1>7. Size' = Size
  BY <1>2, <1>4 DEF Size, Larger, W, FileInv, Shape
<1>8. IsStack(calls') /\ Positions' /\ Tops' /\ file.open
  BY <1>1, <1>3, <1>4, <1>7, FlushReturns
<1>9. Shape'
  <2>1. DOMAIN disk' = Blocks /\ \A c \in Blocks : disk'[c] \in {disk[c], file.cur}
    BY <1>3, <1>5 DEF FileInv, Shape
  <2>2. DOMAIN Erased = {"prev", "data"} /\ Erased.prev # Inline /\ 0 \in Nat
    BY DEF Erased, Null, Inline
  <2> QED
    BY <1>1, <1>2, <1>4, <1>8, <2>1, <2>2 DEF FileInv, Shape
<1>10. file.block # Inline
  BY <1>5, FileAssumption DEF Inline
<1>11. Small'
  BY <1>1, <1>2, <1>4, <1>10 DEF FileInv, Small, W
<1>12. Ent' = Ent
  <2>1. /\ DOMAIN disk = Blocks /\ \A c \in Blocks : c # file.block => disk'[c] = disk[c]
        /\ entry.size \in Nat
    BY <1>3 DEF FileInv, Shape
  <2>2. Chain(disk', entry.head, entry.size) = Chain(disk, entry.head, entry.size)
    BY <1>5, <2>1, OutsideSame DEF Ent
  <2> QED
    BY <1>1, <2>2 DEF Ent
<1>13. Old' \cap window = {}
  <2>1. View = disk'
    BY <1>2, <1>3, <1>5 DEF View, W
  <2>2. Old' = Chain(disk', file.block, file.pos)
    BY <1>4 DEF Old
  <2>3. CASE file.off = 0
    BY <1>5, <2>2, <2>3, ChainIs
  <2>4. CASE file.off # 0
    <3>1. file.off \in 1 .. BlockSize /\ file.pos \in Nat
      BY <1>5, <2>4 DEF FileInv, Shape
    <3>2. Chain(disk', file.block, file.pos) = Walk(disk', file.block, q)
      BY <1>6, <3>1, WrittenIs
    <3> QED
      BY <1>6, <2>1, <2>2, <3>2
  <2> QED
    BY <2>3, <2>4
<1>14. Apart'
  BY <1>1, <1>4, <1>12, <1>13 DEF FileInv, Apart
<1>15. Geometry' /\ Pending'
  BY <1>4, <1>10 DEF Geometry, Pending, W
<1> QED
  BY <1>8, <1>9, <1>11, <1>14, <1>15 DEF FileInv

\* An inline file is to be moved to a block.
LEMMA OutlineEnters ==
  ASSUME FileInv, calls # <<>>, file.inline,
         UNCHANGED <<entry, disk, bad, window>>,
         file' = [file EXCEPT !.off = file.pos],
         NEW f, Framed(f), f.op = Top.op, Running(f) => Standing,
         calls' = Append([calls EXCEPT ![Len(calls)] = f], Frame("outline")),
         file.pos <= InlineMax,
         \/ /\ f.op = "write" /\ f.at = "loop"
            /\ file.pos + Len(f.data) > InlineMax
         \/ /\ f.op = "sync" /\ f.at = "begin" /\ file.pos = file.ctz.size
  PROVE  FileInv'
<1>1. IsStack(calls) /\ file.open
  BY TopIs
<1>2. PICK c : c = [calls EXCEPT ![Len(calls)] = f]
  OBVIOUS
<1>3. Turns(calls, f, c)
  BY <1>1, <1>2, Turned DEF Top
<1>4. PICK g : g = Frame("outline")
  OBVIOUS
<1>5. Framed(g) /\ g.op = "outline" /\ g.at = "begin"
  BY <1>4, PlainFrame
<1>6. IsStack(c) /\ Last(c) = f /\ c # <<>> /\ Called(f, g) /\ g.op \in Inner
  BY <1>3, <1>5 DEF Turns, Called, Inner
<1>7. Pushes(c, g, calls')
  BY <1>2, <1>4, <1>5, <1>6, Pushed
<1>8. /\ IsStack(calls') /\ Top' = g /\ calls'[Len(calls') - 1] = f
      /\ DOMAIN calls' = DOMAIN calls \cup {Len(c) + 1}
      /\ \A k \in DOMAIN calls : calls'[k] = IF k = Len(calls) THEN f ELSE calls[k]
      /\ Len(calls') = Len(c) + 1
  BY <1>3, <1>6, <1>7 DEF Turns, Pushes, Top
<1>9. Len(c) \in Nat /\ Len(c) > 0 /\ calls'[Len(c) + 1] = g
  <2>1. Len(c) \in Nat /\ Len(c) > 0
    BY <1>6, StackIs
  <2>2. Last(calls') = calls'[Len(calls')]
    BY DEF Last
  <2> QED
    BY <1>8, <2>1, <2>2 DEF Top
<1>10. /\ DOMAIN file' = FileFields /\ file'.ctz = file.ctz /\ file'.inline = file.inline
       /\ file'.open = file.open /\ file'.append = file.append
       /\ file'.writing = file.writing /\ file'.dirty = file.dirty
       /\ file'.pos = file.pos /\ file'.off = file.pos /\ file'.cur = file.cur
  BY DEF FileInv, Shape, FileFields
<1>11. /\ Size' = Size /\ W' = W /\ Ent' = Ent /\ Old' = Old /\ ~W
       /\ Standing' = Standing
  BY <1>10 DEF Size, Larger, W, Ent, Old, Standing
<1>12. Shape' /\ Small'
  BY <1>1, <1>10 DEF FileInv, Shape, Small
<1>13. Apart' /\ Geometry' /\ Pending'
  BY <1>10, <1>11 DEF FileInv, Apart, Geometry, Pending
<1>14. Positions'
  <2>1. Positions /\ Size \in Nat
    BY SizeIs DEF FileInv
  <2>2. \A k \in DOMAIN calls : calls[k].n \in Nat
    BY DEF FileInv, IsStack, Framed
  <2>3. file'.writing => Standing'
    BY <1>10, <1>11, <2>1 DEF Positions, Busy
  <2>4. ~Running(g) /\ Waits(g, Size', W') /\ Waits(f, Size', W')
    BY <1>5 DEF Running, Waits
  <2>5. \A k \in DOMAIN calls' :
          \/ k \in DOMAIN calls /\ calls'[k] = calls[k]
          \/ /\ Running(calls'[k]) => Standing'
             /\ Waits(calls'[k], Size', W')
    BY <1>8, <1>9, <1>11, <2>4
  <2> QED
    BY <1>11, <2>1, <2>2, <2>3, <2>5, PositionsKept
<1>15. AtOutline'
  BY <1>5, <1>8, <1>9, <1>10 DEF AtOutline
<1>16. Tops'
  BY <1>5, <1>8, <1>15 DEF Tops, AtWrite, AtFlushed, Callers
<1> QED
  BY <1>8, <1>12, <1>13, <1>14, <1>16 DEF FileInv

\* A directory without room for an inline file has it moved to a block, to its end.
LEMMA CommitFullHolds ==
  ASSUME FileInv, ~FullElsewhere, CommitFull
  PROVE  FileInv'
<1>1. /\ calls # <<>> /\ Top.op = "sync" /\ Top.at = "flushed" /\ Framed(Top)
      /\ Len(calls) \in DOMAIN calls /\ Top = calls[Len(calls)]
      /\ UNCHANGED <<entry, disk, bad, window>>
      /\ file.inline /\ file.pos = file.ctz.size
      /\ calls' = Append(GoTo("begin"), Frame("outline"))
  BY TopIs DEF CommitFull, At, Kept, Enter
<1>7. file' = [file EXCEPT !.off = file.pos]
  BY <1>1 DEF CommitFull, FileInv, Shape
<1>2. PICK f : f = [Top EXCEPT !.at = "begin"]
  OBVIOUS
<1>3. Framed(f) /\ f.op = Top.op /\ f.at = "begin"
  BY <1>1, <1>2, TurnIs
<1>4. calls' = Append([calls EXCEPT ![Len(calls)] = f], Frame("outline"))
  BY <1>1, <1>2 DEF GoTo
<1>5. file.pos <= InlineMax
  BY <1>1 DEF FileInv, Small
<1>6. ~Running(f)
  BY <1>3 DEF Running
<1> QED
  BY <1>1, <1>3, <1>4, <1>5, <1>6, <1>7, OutlineEnters

\* lfs_file_write moves an inline file that grows too large to a block.
LEMMA CheckHolds ==
  ASSUME FileInv, Check
  PROVE  FileInv'
<1>1. /\ calls # <<>> /\ Top.op = "write" /\ Top.at = "check" /\ Framed(Top)
      /\ Len(calls) \in DOMAIN calls /\ Top = calls[Len(calls)]
      /\ UNCHANGED <<entry, disk, bad, window>>
  BY TopIs DEF Check, At, Kept, alloc
<1>2. Standing
  BY <1>1, TopIs DEF Running
<1>3. PICK f : f = [Top EXCEPT !.at = "loop"]
  OBVIOUS
<1>4. Framed(f) /\ f.op = Top.op /\ f.at = "loop" /\ f.data = Top.data
  BY <1>1, <1>3, TurnIs
<1>5. file.pos \in Nat /\ file.ctz.size \in Nat /\ Len(Top.data) \in Nat
  <2>1. PICK S : Top.data \in Seq(S)
    BY <1>1 DEF Framed
  <2>2. Len(Top.data) \in Nat
    BY <2>1
  <2> QED
    BY <2>2 DEF FileInv, Shape
<1>6. CASE /\ file.inline
           /\ Larger(file.pos + Len(Top.data), file.ctz.size) > InlineMax
           /\ file' = [file EXCEPT !.off = file.pos]
           /\ Enter("loop", Frame("outline"))
  <2>1. calls' = Append([calls EXCEPT ![Len(calls)] = f], Frame("outline"))
    BY <1>1, <1>3, <1>6 DEF Enter, GoTo
  <2>2. file.pos <= InlineMax /\ file.ctz.size <= InlineMax
    BY <1>2, <1>6 DEF FileInv, Small, Standing
  <2>3. file.pos + Len(f.data) > InlineMax
    BY <1>4, <1>5, <1>6, <2>2, FileAssumption DEF Larger
  <2> QED
    BY <1>1, <1>2, <1>4, <1>6, <2>1, <2>2, <2>3, OutlineEnters
<1>7. CASE /\ ~file.inline
                \/ Larger(file.pos + Len(Top.data), file.ctz.size) <= InlineMax
           /\ Continue("loop") /\ UNCHANGED <<alloc, file>>
  <2>1. UNCHANGED Core /\ DOMAIN file' = FileFields
    BY <1>1, <1>7 DEF Core, alloc, FileInv, Shape
  <2>2. calls' = [calls EXCEPT ![Len(calls)] = f]
    BY <1>1, <1>3, <1>7 DEF Continue, GoTo
  <2>3. ~At("write", "prog") /\ ~Mid
    BY <1>1 DEF At, Mid
  <2>4. file.inline => file.pos + Len(f.data) <= InlineMax
    BY <1>4, <1>5, <1>7, FileAssumption DEF Larger
  <2>5. Top' = f => Tops'
    BY <1>1, <1>4, <2>1, <2>4
       DEF Tops, AtWrite, AtOutline, AtFlushed, Callers, Core
  <2>6. Waits(f, Size, W)
    BY <1>1, <1>4 DEF Waits
  <2> QED
    BY <1>1, <1>2, <1>4, <2>1, <2>2, <2>3, <2>5, <2>6, ContinueHolds
<1> QED
  BY <1>6, <1>7 DEF Check

\* A handle that does not write may stand anywhere.
LEMMA StandsElsewhere ==
  ASSUME FileInv, calls # <<>>, ~file.writing,
         UNCHANGED <<entry, disk, bad, window>>,
         NEW p \in Nat, file' = [file EXCEPT !.reading = FALSE, !.pos = p]
  PROVE  /\ Shape' /\ Small' /\ Apart' /\ Geometry' /\ Pending'
         /\ Size' = Size /\ W' = W /\ ~file'.writing /\ file'.pos = p
         /\ file'.ctz = file.ctz /\ file'.inline = file.inline
         /\ file'.append = file.append
<1>1. /\ DOMAIN file' = FileFields /\ file'.ctz = file.ctz /\ file'.inline = file.inline
      /\ file'.open = file.open /\ file'.append = file.append
      /\ file'.writing = file.writing /\ file'.dirty = file.dirty
      /\ file'.pos = p /\ file'.off = file.off /\ file'.cur = file.cur
  BY DEF FileInv, Shape, FileFields
<1>2. file.open
  BY TopIs
<1>3. Shape' /\ Small'
  BY <1>1, <1>2 DEF FileInv, Shape, Small
<1>4. Size' = Size /\ W' = W /\ ~W /\ Ent' = Ent /\ Old' = Old
  BY <1>1 DEF Size, W, Ent, Old
<1>5. Apart' /\ Geometry' /\ Pending'
  BY <1>1, <1>4 DEF FileInv, Apart, Geometry, Pending
<1> QED
  BY <1>1, <1>3, <1>4, <1>5

\* lfs_file_write begins at the position, or the end, or with a hole to fill.
LEMMA WriteBeginHolds ==
  ASSUME FileInv, WriteBegin
  PROVE  FileInv'
<1>1. /\ calls # <<>> /\ Top.op = "write" /\ Top.at = "begin" /\ Framed(Top)
      /\ Len(calls) \in DOMAIN calls /\ Top = calls[Len(calls)] /\ Top = Last(calls)
      /\ IsStack(calls) /\ UNCHANGED <<entry, disk, bad, window>>
  BY TopIs DEF WriteBegin, At, Kept, alloc, Top
<1>2. ~At("write", "prog") /\ ~Mid
  BY <1>1 DEF At, Mid
<1>3. file.pos \in Nat /\ file.ctz.size \in Nat
  BY DEF FileInv, Shape
<1>4. PICK start \in Nat :
        start = IF file.append /\ file.pos < file.ctz.size
                THEN file.ctz.size ELSE file.pos
  BY <1>3
<1>5. Busy => start = file.pos
  BY <1>3, <1>4 DEF FileInv, Positions, Standing
<1>6. PICK f : f = [Top EXCEPT !.at = "check"]
  OBVIOUS
<1>7. Framed(f) /\ f.op = Top.op /\ f.at = "check"
  BY <1>1, <1>6, TurnIs
<1>8. Waits(f, Size, W) /\ Running(f)
  BY <1>1, <1>7 DEF Waits, Running
<1>9. \/ /\ file' = [file EXCEPT !.reading = FALSE, !.pos = start]
         /\ calls' = Front(calls)
      \/ /\ ~file.writing
         /\ file' = [file EXCEPT !.reading = FALSE, !.pos = file.ctz.size]
         /\ calls' = Append([calls EXCEPT ![Len(calls)] = f],
                            [Frame("fill") EXCEPT !.back = start])
      \/ /\ file.writing \/ start <= file.ctz.size
         /\ file' = [file EXCEPT !.reading = FALSE, !.pos = start]
         /\ calls' = [calls EXCEPT ![Len(calls)] = f]
  BY <1>1, <1>4, <1>6 DEF WriteBegin, Return, Enter, Continue, GoTo
<1>10. CASE file.writing
  <2>1. start = file.pos /\ Standing
    BY <1>5, <1>10 DEF FileInv, Positions, Busy
  <2>2. file' = [file EXCEPT !.reading = FALSE, !.pos = start]
    BY <1>9, <1>10
  <2>3. UNCHANGED Core /\ DOMAIN file' = FileFields
    BY <1>1, <2>1, <2>2 DEF Core, FileInv, Shape, FileFields
  <2>4. CASE calls' = Front(calls)
    BY <1>1, <1>2, <2>3, <2>4, Returns
  <2>5. CASE calls' = [calls EXCEPT ![Len(calls)] = f]
    <3>1. Top' = f => Tops'
      BY <1>1, <1>7 DEF Tops, AtWrite, AtOutline, AtFlushed, Callers
    <3> QED
      BY <1>1, <1>2, <1>7, <1>8, <2>1, <2>3, <2>5, <3>1, ContinueHolds
  <2> QED
    BY <1>9, <1>10, <2>4, <2>5
<1>11. CASE ~file.writing
  <2>1. Positions /\ Size \in Nat /\ Size <= Size
    BY SizeIs DEF FileInv
  <2>2. \A k \in DOMAIN calls : calls[k].n \in Nat
    BY DEF FileInv, IsStack, Framed
  <2>3. CASE /\ file' = [file EXCEPT !.reading = FALSE, !.pos = start]
             /\ calls' = Front(calls)
    <3>1. /\ Shape' /\ Small' /\ Apart' /\ Geometry' /\ Pending'
          /\ Size' = Size /\ W' = W /\ ~file'.writing /\ file'.pos = start
          /\ file'.ctz = file.ctz /\ file'.inline = file.inline
          /\ file'.append = file.append
      BY <1>1, <1>11, <2>3, StandsElsewhere
    <3>2. Pops(calls, calls')
      BY <1>1, <2>3, Popped
    <3>3. /\ IsStack(calls')
          /\ calls' # <<>> => Called(Last(calls'), Top)
          /\ \A k \in DOMAIN calls' : k \in DOMAIN calls /\ calls'[k] = calls[k]
      BY <1>1, <3>2 DEF Pops
    <3>4. Busy /\ Standing => Standing'
      BY <1>5, <1>11, <3>1 DEF Standing
    <3>5. Positions'
      BY <2>1, <2>2, <3>1, <3>3, <3>4, PositionsKept
    <3>6. Tops'
      BY <1>1, <3>3, TopsReturn DEF Top
    <3> QED
      BY <3>1, <3>3, <3>5, <3>6 DEF FileInv
  <2>4. CASE /\ file' = [file EXCEPT !.reading = FALSE, !.pos = file.ctz.size]
             /\ calls' = Append([calls EXCEPT ![Len(calls)] = f],
                                [Frame("fill") EXCEPT !.back = start])
    <3>1. /\ Shape' /\ Small' /\ Apart' /\ Geometry' /\ Pending'
          /\ Size' = Size /\ W' = W /\ ~file'.writing /\ file'.pos = file.ctz.size
          /\ file'.ctz = file.ctz /\ file'.inline = file.inline
          /\ file'.append = file.append
      BY <1>1, <1>3, <1>11, <2>4, StandsElsewhere
    <3>2. Standing'
      BY <1>3, <3>1 DEF Standing, FileInv, Small
    <3>3. PICK g : g = [Frame("fill") EXCEPT !.back = start]
      OBVIOUS
    <3>4. Framed(g) /\ g.op = "fill" /\ g.at = "begin"
      BY <3>3, FillFrame
    <3>5. PICK c : c = [calls EXCEPT ![Len(calls)] = f]
      OBVIOUS
    <3>6. Turns(calls, f, c)
      BY <1>1, <1>7, <3>5, Turned
    <3>7. IsStack(c) /\ Last(c) = f /\ c # <<>> /\ Called(f, g) /\ g.op \in Inner
      BY <1>1, <1>7, <3>4, <3>6 DEF Turns, Called, Inner
    <3>8. Pushes(c, g, calls')
      BY <2>4, <3>3, <3>4, <3>5, <3>7, Pushed
    <3>9. /\ IsStack(calls') /\ Last(calls') = g /\ Len(calls') = Len(c) + 1
          /\ DOMAIN calls' = DOMAIN calls \cup {Len(c) + 1}
          /\ \A k \in DOMAIN calls : calls'[k] = IF k = Len(calls) THEN f ELSE calls[k]
      BY <3>6, <3>8 DEF Turns, Pushes
    <3>10. calls'[Len(c) + 1] = g
      BY <3>9 DEF Last
    <3>11. Waits(f, Size', W') /\ Waits(g, Size', W')
      BY <1>8, <3>1, <3>4 DEF Waits
    <3>12. \A k \in DOMAIN calls' :
             \/ k \in DOMAIN calls /\ calls'[k] = calls[k]
             \/ /\ Running(calls'[k]) => Standing'
                /\ Waits(calls'[k], Size', W')
      BY <3>2, <3>9, <3>10, <3>11
    <3>13. Positions'
      BY <2>1, <2>2, <3>1, <3>2, <3>12, PositionsKept
    <3>14. Tops'
      BY <3>4, <3>9, TopsBegin DEF Top
    <3> QED
      BY <3>1, <3>9, <3>13, <3>14 DEF FileInv
  <2>5. CASE /\ start <= file.ctz.size
             /\ file' = [file EXCEPT !.reading = FALSE, !.pos = start]
             /\ calls' = [calls EXCEPT ![Len(calls)] = f]
    <3>1. /\ Shape' /\ Small' /\ Apart' /\ Geometry' /\ Pending'
          /\ Size' = Size /\ W' = W /\ ~file'.writing /\ file'.pos = start
          /\ file'.ctz = file.ctz /\ file'.inline = file.inline
          /\ file'.append = file.append
      BY <1>1, <1>11, <2>5, StandsElsewhere
    <3>2. Standing'
      BY <1>3, <1>4, <2>5, <3>1, FileAssumption DEF Standing, FileInv, Small
    <3>3. Turns(calls, f, calls')
      BY <1>1, <1>7, <2>5, Turned
    <3>4. /\ IsStack(calls') /\ Last(calls') = f /\ DOMAIN calls' = DOMAIN calls
          /\ \A k \in DOMAIN calls : calls'[k] = IF k = Len(calls) THEN f ELSE calls[k]
      BY <3>3 DEF Turns
    <3>5. Waits(f, Size', W')
      BY <1>8, <3>1 DEF Waits
    <3>6. \A k \in DOMAIN calls' :
            \/ k \in DOMAIN calls /\ calls'[k] = calls[k]
            \/ /\ Running(calls'[k]) => Standing'
               /\ Waits(calls'[k], Size', W')
      BY <3>2, <3>4, <3>5
    <3>7. Positions'
      BY <2>1, <2>2, <3>1, <3>2, <3>6, PositionsKept
    <3>8. Tops'
      BY <1>1, <1>7, <3>4 DEF Tops, AtWrite, AtOutline, AtFlushed, Callers, Top
    <3> QED
      BY <3>1, <3>4, <3>7, <3>8 DEF FileInv
  <2> QED
    BY <1>9, <1>11, <2>3, <2>4, <2>5
<1> QED
  BY <1>10, <1>11

\* A write goes on: the block it starts in is known, or is looked up.
LEMMA NeedsBlockHolds ==
  ASSUME FileInv, NeedsBlock
  PROVE  FileInv'
<1>1. /\ calls # <<>> /\ Top.op = "write" /\ Top.at = "loop" /\ Framed(Top)
      /\ Len(calls) \in DOMAIN calls /\ Top = calls[Len(calls)] /\ Top = Last(calls)
      /\ IsStack(calls) /\ AtWrite /\ Waits(Top, Size, W) /\ file.open
      /\ UNCHANGED <<entry, disk, bad, window>> /\ Top.data # <<>>
  BY TopIs DEF NeedsBlock, At, Kept, alloc, Top
<1>2. Standing
  BY <1>1, TopIs DEF Running
<1>3. /\ file.pos \in Nat /\ file.ctz.size \in Nat
      /\ Len(Top.data) \in Nat /\ Len(Top.data) > 0
  <2>1. PICK S : Top.data \in Seq(S)
    BY <1>1 DEF Framed
  <2>2. Len(Top.data) \in Nat /\ Len(Top.data) > 0
    BY <1>1, <2>1
  <2> QED
    BY <2>2 DEF FileInv, Shape
<1>4. ~At("write", "prog")
  BY <1>1 DEF At
<1>5. ASSUME NEW a, NEW f, f = [Top EXCEPT !.at = a]
      PROVE  /\ Framed(f) /\ f.op = "write" /\ f.at = a /\ f.data = Top.data
             /\ Waits(f, Size, W) /\ Waits(f, Size', W')
  <2>1. Framed(f) /\ f.op = "write" /\ f.at = a /\ f.data = Top.data
    BY <1>1, <1>5, TurnIs
  <2> QED
    BY <2>1 DEF Waits
<1>6. CASE /\ file.writing /\ (file.inline \/ file.off < BlockSize)
           /\ Continue("prog") /\ UNCHANGED <<alloc, file>>
  <2>1. UNCHANGED Core /\ DOMAIN file' = FileFields
    BY <1>1, <1>6 DEF Core, alloc, FileInv, Shape
  <2>2. PICK f : f = [Top EXCEPT !.at = "prog"]
    OBVIOUS
  <2>3. /\ Framed(f) /\ f.op = "write" /\ f.at = "prog" /\ f.data = Top.data
        /\ Waits(f, Size, W)
    BY <1>5, <2>2
  <2>4. calls' = [calls EXCEPT ![Len(calls)] = f]
    BY <1>1, <1>6, <2>2 DEF Continue, GoTo
  <2>5. Turns(calls, f, calls')
    BY <1>1, <2>3, <2>4, Turned
  <2>6. Top' = f /\ calls' # <<>>
    BY <2>5 DEF Turns, Top
  <2>7. Mid => Mid'
    BY <2>1, <2>3, <2>6 DEF Mid, At, Core
  <2>8. Tops'
    BY <1>1, <1>3, <1>6, <2>1, <2>3, <2>6
       DEF Tops, AtWrite, AtOutline, AtFlushed, Callers, Core
  <2> QED
    BY <1>1, <1>2, <1>4, <2>1, <2>3, <2>4, <2>7, <2>8, ContinueHolds
<1>7. CASE /\ ~file.writing /\ file.inline
           /\ file' = [file EXCEPT !.writing = TRUE, !.off = file.pos]
           /\ Continue("prog")
  <2>1. PICK f : f = [Top EXCEPT !.at = "prog"]
    OBVIOUS
  <2>2. /\ Framed(f) /\ f.op = "write" /\ f.at = "prog" /\ f.data = Top.data
        /\ Waits(f, Size', W')
    BY <1>5, <2>1
  <2>3. calls' = [calls EXCEPT ![Len(calls)] = f]
    BY <1>1, <1>7, <2>1 DEF Continue, GoTo
  <2>4. Turns(calls, f, calls')
    BY <1>1, <2>2, <2>3, Turned
  <2>5. /\ IsStack(calls') /\ Top' = f /\ calls' # <<>> /\ DOMAIN calls' = DOMAIN calls
        /\ \A k \in DOMAIN calls : calls'[k] = IF k = Len(calls) THEN f ELSE calls[k]
    BY <2>4 DEF Turns, Top
  <2>6. /\ DOMAIN file' = FileFields /\ file'.ctz = file.ctz /\ file'.inline = file.inline
        /\ file'.open = file.open /\ file'.append = file.append
        /\ file'.writing /\ file'.dirty = file.dirty
        /\ file'.pos = file.pos /\ file'.off = file.pos /\ file'.cur = file.cur
    BY <1>7 DEF FileInv, Shape, FileFields
  <2>7. Shape' /\ Small'
    BY <1>1, <2>6 DEF FileInv, Shape, Small
  <2>8. /\ ~W' /\ ~W /\ Ent' = Ent /\ Old' = Old /\ Standing'
        /\ Size \in Nat /\ Size' \in Nat /\ Size <= Size'
    BY <1>1, <1>2, <1>3, <1>7, <2>6 DEF W, Ent, Old, Standing, Size, Larger
  <2>9. Apart' /\ Geometry' /\ Pending'
    BY <1>1, <1>7, <2>6, <2>8 DEF FileInv, Apart, Geometry, Pending
  <2>10. Positions'
    <3>1. Positions /\ \A k \in DOMAIN calls : calls[k].n \in Nat
      BY DEF FileInv, IsStack, Framed
    <3>2. \A k \in DOMAIN calls' :
            \/ k \in DOMAIN calls /\ calls'[k] = calls[k]
            \/ /\ Running(calls'[k]) => Standing'
               /\ Waits(calls'[k], Size', W')
      BY <2>2, <2>5, <2>8
    <3> QED
      BY <2>8, <3>1, <3>2, PositionsKept
  <2>11. Tops'
    BY <1>1, <1>3, <1>7, <2>2, <2>5, <2>6
       DEF Tops, AtWrite, AtOutline, AtFlushed, Callers
  <2> QED
    BY <2>5, <2>7, <2>9, <2>10, <2>11 DEF FileInv
<1>8. CASE /\ ~file.inline
           /\ file.writing /\ file.off = BlockSize
           /\ file' = file
           /\ Continue("extend")
  <2>1. UNCHANGED Core /\ DOMAIN file' = FileFields
    BY <1>1, <1>8 DEF Core, FileInv, Shape
  <2>2. PICK f : f = [Top EXCEPT !.at = "extend"]
    OBVIOUS
  <2>3. /\ Framed(f) /\ f.op = "write" /\ f.at = "extend" /\ f.data = Top.data
        /\ Waits(f, Size, W)
    BY <1>5, <2>2
  <2>4. calls' = [calls EXCEPT ![Len(calls)] = f]
    BY <1>1, <1>8, <2>2 DEF Continue, GoTo
  <2>5. Top' = f => Tops'
    BY <1>1, <1>3, <1>8, <2>1, <2>3
       DEF Tops, AtWrite, AtOutline, AtFlushed, Callers, Core
  <2>6. Mid => file.pos >= file.ctz.size
    BY <1>3, <1>8, FileAssumption DEF Mid, FileInv, Small
  <2> QED
    BY <1>1, <1>2, <1>4, <2>1, <2>3, <2>4, <2>5, <2>6, ContinueHolds
<1>9. CASE /\ ~file.inline /\ ~file.writing
           /\ \E b : /\ b = IF file.pos = 0 THEN Null
                            ELSE Find(disk, file.ctz.head, file.ctz.size, file.pos - 1)
                     /\ file' = [file EXCEPT !.block = b,
                                   !.cur = IF b \in Blocks THEN disk[b] ELSE Erased]
           /\ Continue("extend")
  <2>1. PICK b : /\ b = IF file.pos = 0 THEN Null
                        ELSE Find(disk, file.ctz.head, file.ctz.size, file.pos - 1)
                 /\ file' = [file EXCEPT !.block = b,
                               !.cur = IF b \in Blocks THEN disk[b] ELSE Erased]
    BY <1>9
  <2>2. PICK f : f = [Top EXCEPT !.at = "extend"]
    OBVIOUS
  <2>3. /\ Framed(f) /\ f.op = "write" /\ f.at = "extend" /\ f.data = Top.data
        /\ Waits(f, Size', W')
    BY <1>5, <2>2
  <2>4. calls' = [calls EXCEPT ![Len(calls)] = f]
    BY <1>1, <1>9, <2>2 DEF Continue, GoTo
  <2>5. Turns(calls, f, calls')
    BY <1>1, <2>3, <2>4, Turned
  <2>6. /\ IsStack(calls') /\ Top' = f /\ calls' # <<>> /\ DOMAIN calls' = DOMAIN calls
        /\ \A k \in DOMAIN calls : calls'[k] = IF k = Len(calls) THEN f ELSE calls[k]
    BY <2>5 DEF Turns, Top
  <2>7. /\ DOMAIN file' = FileFields /\ file'.ctz = file.ctz /\ file'.inline = file.inline
        /\ file'.open = file.open /\ file'.append = file.append
        /\ file'.writing = file.writing /\ file'.dirty = file.dirty
        /\ file'.pos = file.pos /\ file'.off = file.off
        /\ file'.block = b
        /\ file'.cur = IF b \in Blocks THEN disk[b] ELSE Erased
    BY <2>1 DEF FileInv, Shape, FileFields
  <2>8. /\ DOMAIN file'.cur = {"prev", "data"} /\ file'.cur.prev # Inline
        /\ file'.cur.prev = Prev(disk, b)
    BY <2>7 DEF FileInv, Shape, Erased, Null, Inline, Prev
  <2>9. Shape' /\ Small'
    BY <1>1, <2>7, <2>8 DEF FileInv, Shape, Small
  <2>10. /\ ~W' /\ W' = W /\ Ent' = Ent /\ Old' = Old /\ Standing' = Standing
         /\ Size' = Size
    BY <1>1, <1>9, <2>7 DEF W, Ent, Old, Standing, Size, Larger
  <2>11. Apart' /\ Geometry' /\ Pending'
    BY <1>1, <1>9, <2>7, <2>10 DEF FileInv, Apart, Geometry, Pending
  <2>12. Positions'
    <3>1. Positions /\ \A k \in DOMAIN calls : calls[k].n \in Nat
      BY DEF FileInv, IsStack, Framed
    <3>2. \A k \in DOMAIN calls' :
            \/ k \in DOMAIN calls /\ calls'[k] = calls[k]
            \/ /\ Running(calls'[k]) => Standing'
               /\ Waits(calls'[k], Size', W')
      BY <1>2, <2>3, <2>6, <2>10
    <3>3. Size \in Nat /\ Size <= Size
      BY SizeIs DEF FileInv
    <3> QED
      BY <1>2, <2>10, <3>1, <3>2, <3>3, PositionsKept
  <2>13. AtWrite'
    BY <1>1, <1>3, <1>9, <2>1, <2>3, <2>6, <2>7, <2>8 DEF AtWrite
  <2>14. Tops'
    BY <2>3, <2>6, <2>13 DEF Tops, AtOutline, AtFlushed, Callers
  <2> QED
    BY <2>6, <2>9, <2>11, <2>12, <2>14 DEF FileInv
<1> QED
  BY <1>1, <1>6, <1>7, <1>8, <1>9 DEF NeedsBlock

\* A new block goes before blocks that are not free.
LEMMA WalkGrows ==
  ASSUME NEW d, NEW e, NEW b \in Blocks, NEW p, NEW n \in Nat, NEW free,
         b \in free, Walk(d, p, n - 1) \cap free = {},
         \A c \in Blocks : c # b => e[c].prev = d[c].prev,
         e[b].prev = p
  PROVE  Walk(e, b, n) \cap (free \ {b}) = {}
<1>1. PICK m \in Int : m = n - 1
  OBVIOUS
<1>2. Walk(d, p, m) \subseteq Blocks
  BY DEF Walk
<1>3. \A c \in Walk(d, p, m) : d[c].prev = e[c].prev
  BY <1>1, <1>2
<1>4. Walk(e, p, m) = Walk(d, p, m)
  BY <1>3, WalkSame
<1>5. Walk(e, b, n) = {b} \cup Walk(e, e[b].prev, n - 1)
  BY WalkStep
<1> QED
  BY <1>1, <1>4, <1>5

\* What a block that is added is, and what stands before it.
Added(b) ==
  /\ DOMAIN file' = FileFields /\ file'.ctz = file.ctz /\ file'.inline = file.inline
  /\ file'.open = file.open /\ file'.append = file.append
  /\ file'.writing /\ file'.dirty = file.dirty /\ file'.pos = file.pos
  /\ file'.block = b /\ DOMAIN file'.cur = {"prev", "data"}
  /\ file'.cur.prev # Inline /\ file'.off \in 0 .. BlockSize - 1
  /\ \E q \in Nat : /\ file.pos = q * BlockSize + file'.off
                    /\ Walk(disk, file'.cur.prev, q - 1) \cap window = {}

\* The block that is added continues what is there.
LEMMA ExtendAdds ==
  ASSUME FileInv, At("write", "extend"), NEW b \in window,
         file' = [Extended(b, file.pos) EXCEPT !.writing = TRUE]
  PROVE  Added(b)
<1>1. /\ calls # <<>> /\ Top.op = "write" /\ Top.at = "extend"
      /\ AtWrite /\ Standing
  BY TopIs DEF At, Running
<1>2. PICK n \in Nat \ {0} : n = BlockSize
  BY FileAssumption
<1>3. /\ DOMAIN file = FileFields /\ DOMAIN file.cur = {"prev", "data"}
      /\ file.pos \in Nat /\ file.ctz.size \in Nat /\ file.cur.prev # Inline
      /\ DOMAIN disk = Blocks /\ \A c \in Blocks : disk[c].prev # Inline
  BY DEF FileInv, Shape
<1>4. Inline \notin Blocks /\ Null \notin Blocks /\ Null # Inline
  BY FileAssumption DEF Inline, Null
<1>5. CASE file.pos = 0
  <2>1. file' = [file EXCEPT !.block = b, !.off = 0, !.cur = Erased, !.writing = TRUE]
    BY <1>5 DEF Extended
  <2>2. /\ DOMAIN file' = FileFields /\ file'.ctz = file.ctz /\ file'.inline = file.inline
        /\ file'.open = file.open /\ file'.append = file.append
        /\ file'.writing /\ file'.dirty = file.dirty /\ file'.pos = file.pos
        /\ file'.block = b /\ file'.off = 0 /\ file'.cur = Erased
    BY <1>3, <2>1 DEF FileFields
  <2>3. Walk(disk, Null, 0 - 1) = {}
    BY <1>4, WalkNone
  <2>4. file.pos = 0 * BlockSize + 0 /\ 0 \in 0 .. BlockSize - 1 /\ 0 \in Nat
    BY <1>2, <1>5
  <2>5. Erased.prev = Null /\ DOMAIN Erased = {"prev", "data"}
    BY DEF Erased
  <2>6. \E q \in Nat : /\ file.pos = q * BlockSize + 0
                       /\ Walk(disk, Null, q - 1) \cap window = {}
    BY <2>3, <2>4
  <2> QED
    BY <1>4, <2>2, <2>4, <2>5, <2>6 DEF Added
<1>6. CASE file.pos # 0
  <2>1. PICK p \in Nat : p = file.pos - 1 /\ file.pos = p + 1
    BY <1>3, <1>6
  <2>2. PICK i \in Nat, r \in 0 .. n - 1 : /\ i = Index(p) /\ p = i * n + r
                                          /\ p % BlockSize = r
    BY <1>2, IndexSplit
  <2>3. ~file.writing =>
          /\ file.block = Find(disk, file.ctz.head, file.ctz.size, p)
          /\ file.cur.prev = Prev(disk, file.block)
          /\ file.block # Inline
          /\ Walk(disk, file.block, i) \cap window = {}
    <3> SUFFICES ASSUME ~file.writing
                 PROVE  /\ file.block = Find(disk, file.ctz.head, file.ctz.size, p)
                        /\ file.cur.prev = Prev(disk, file.block)
                        /\ file.block # Inline
                        /\ Walk(disk, file.block, i) \cap window = {}
      OBVIOUS
    <3>1. /\ file.block = Find(disk, file.ctz.head, file.ctz.size, p)
          /\ file.cur.prev = Prev(disk, file.block) /\ ~file.inline
      BY <1>1, <1>6, <2>1 DEF AtWrite
    <3>2. p < file.ctz.size /\ file.ctz.size \in Nat \ {0}
      BY <1>1, <1>3, <2>1 DEF Standing
    <3>3. file.ctz.head # Inline
      BY <3>1 DEF FileInv, Pending
    <3>4. file.block # Inline
      BY <1>3, <3>1, <3>2, <3>3, FindOutside
    <3>5. Walk(disk, file.block, i) \subseteq Old
      BY <2>2, <3>1, <3>2, FindPart DEF Old
    <3>6. Old \cap window = {}
      BY DEF FileInv, Apart
    <3> QED
      BY <3>1, <3>4, <3>5, <3>6
  <2>4. file.writing =>
          /\ r = n - 1 /\ file.block \in Blocks
          /\ Walk(disk, file.block, i) \cap window = {}
    <3> SUFFICES ASSUME file.writing
                 PROVE  /\ r = n - 1 /\ file.block \in Blocks
                        /\ Walk(disk, file.block, i) \cap window = {}
      OBVIOUS
    <3>1. W /\ file.off = n /\ file.off = BlockSize
      BY <1>1, <1>2 DEF AtWrite, W
    <3>2. file.block \in Blocks /\ disk[file.block] = file.cur
      BY <3>1 DEF FileInv, Geometry
    <3>3. PICK q \in Nat : /\ file.pos = q * BlockSize + file.off
                           /\ Walk(View, file.block, q) \cap window = {}
      BY <3>1 DEF FileInv, Geometry
    <3>4. p = q * n + (n - 1) /\ n - 1 \in 0 .. n - 1
      BY <1>2, <2>1, <3>1, <3>3
    <3>5. Index(p) = q
      BY <1>2, <3>4, IndexIs
    <3>6. i = q
      BY <2>2, <3>5
    <3>7. r = n - 1
      <4>1. PICK x : x = i * n
        OBVIOUS
      <4>2. x \in Nat /\ p = x + r
        <5>1. i \in Nat /\ n \in Nat
          BY <2>2
        <5>2. x \in Nat
          BY ONLY <4>1, <5>1
        <5>3. p = i * n + r
          BY <2>2
        <5> QED
          BY ONLY <4>1, <5>2, <5>3
      <4>3. p = x + (n - 1)
        BY <3>4, <3>6, <4>1
      <4>4. n \in Nat /\ r \in Int
        BY <2>2
      <4> QED
        BY ONLY <4>2, <4>3, <4>4
    <3>8. Walk(disk, file.block, q) = Walk(View, file.block, q)
      <4>1. PICK v : v = View
        OBVIOUS
      <4>2. \A c \in Blocks : v[c] = disk[c]
        BY <3>1, <3>2, <4>1, ViewIs DEF W, FileInv
      <4>3. \A c \in Walk(v, file.block, q) : v[c].prev = disk[c].prev
        BY <4>2 DEF Walk
      <4>4. Walk(disk, file.block, q) = Walk(v, file.block, q)
        BY <4>3, WalkSame
      <4> QED
        BY <4>1, <4>4
    <3> QED
      BY <3>2, <3>3, <3>6, <3>7, <3>8
  <2>5. PICK filled \in 1 .. n : filled = r + 1
    BY <2>2
  <2>6. filled = ((file.pos - 1) % BlockSize) + 1
    BY <2>1, <2>2, <2>5
  <2>7. CASE filled < n
    <3>1. ~file.writing
      BY <2>4, <2>5, <2>7
    <3>2. file' = [[file EXCEPT !.block = b, !.off = filled, !.misread = Null,
                      !.cur.data = SubSeq(@, 1, filled)] EXCEPT !.writing = TRUE]
      <4>1. file.pos > 0 /\ file.pos # 0 /\ filled < BlockSize
        BY <1>2, <1>3, <1>6, <2>7
      <4>2. Extended(b, file.pos) =
              CASE file.pos = 0 -> [file EXCEPT !.block = b, !.off = 0, !.cur = Erased]
                [] file.pos > 0 /\ filled < BlockSize ->
                     [file EXCEPT !.block = b, !.off = filled, !.misread = Null,
                                  !.cur.data = SubSeq(@, 1, filled)]
                [] OTHER ->
                     [file EXCEPT !.block = b, !.off = 0,
                                  !.cur = [prev |-> file.block, data |-> <<>>]]
        BY <2>6 DEF Extended
      <4>3. Extended(b, file.pos) =
              [file EXCEPT !.block = b, !.off = filled, !.misread = Null,
                           !.cur.data = SubSeq(@, 1, filled)]
        BY <4>1, <4>2
      <4> QED
        BY <4>3
    <3>3. /\ DOMAIN file' = FileFields /\ file'.ctz = file.ctz
          /\ file'.inline = file.inline
          /\ file'.open = file.open /\ file'.append = file.append
          /\ file'.writing /\ file'.dirty = file.dirty /\ file'.pos = file.pos
          /\ file'.block = b /\ file'.off = filled
          /\ DOMAIN file'.cur = {"prev", "data"} /\ file'.cur.prev = file.cur.prev
      <4>1. PICK c : c = [file.cur EXCEPT !.data = SubSeq(@, 1, filled)]
        OBVIOUS
      <4>2. DOMAIN c = {"prev", "data"} /\ c.prev = file.cur.prev
        BY <1>3, <4>1
      <4>3. PICK e : e = [file EXCEPT !.block = b, !.off = filled, !.misread = Null,
                            !.cur.data = SubSeq(@, 1, filled)]
        OBVIOUS
      <4>4. e = [file EXCEPT !.block = b, !.off = filled, !.misread = Null, !.cur = c]
        BY <1>3, <4>1, <4>3 DEF FileFields
      <4>5. file' = [e EXCEPT !.writing = TRUE]
        BY <3>2, <4>3
      <4>6. /\ DOMAIN e = FileFields /\ e.ctz = file.ctz /\ e.inline = file.inline
            /\ e.open = file.open /\ e.append = file.append
            /\ e.dirty = file.dirty /\ e.pos = file.pos
            /\ e.block = b /\ e.off = filled /\ e.cur = c
        BY <1>3, <4>4 DEF FileFields
      <4> QED
        BY <4>2, <4>5, <4>6 DEF FileFields
    <3>4. file.pos = i * BlockSize + filled /\ filled \in 0 .. BlockSize - 1
      BY <1>2, <2>1, <2>2, <2>5, <2>7
    <3>5. Walk(disk, file.cur.prev, i - 1) \cap window = {}
      <4>1. CASE file.block \in Blocks
        <5>1. Walk(disk, file.block, i) =
                {file.block} \cup Walk(disk, disk[file.block].prev, i - 1)
          BY <4>1, WalkStep
        <5>2. file.cur.prev = disk[file.block].prev
          BY <2>3, <3>1, <4>1 DEF Prev
        <5> QED
          BY <2>3, <3>1, <5>1, <5>2
      <4>2. CASE file.block \notin Blocks
        <5>1. file.cur.prev = Null
          BY <2>3, <3>1, <4>2 DEF Prev
        <5>2. i - 1 \in Int
          OBVIOUS
        <5>3. Walk(disk, Null, i - 1) = {}
          BY <1>4, <5>2, WalkNone
        <5> QED
          BY <5>1, <5>3
      <4> QED
        BY <4>1, <4>2
    <3> QED
      BY <1>3, <3>3, <3>4, <3>5 DEF Added
  <2>8. CASE filled = n
    <3>1. file' = [[file EXCEPT !.block = b, !.off = 0,
                      !.cur = [prev |-> file.block, data |-> <<>>]]
                   EXCEPT !.writing = TRUE]
      <4>1. file.pos # 0 /\ ~(filled < BlockSize)
        BY <1>2, <1>6, <2>8
      <4> QED
        BY <2>6, <4>1 DEF Extended
    <3>2. /\ DOMAIN file' = FileFields /\ file'.ctz = file.ctz
          /\ file'.inline = file.inline
          /\ file'.open = file.open /\ file'.append = file.append
          /\ file'.writing /\ file'.dirty = file.dirty /\ file'.pos = file.pos
          /\ file'.block = b /\ file'.off = 0
          /\ file'.cur = [prev |-> file.block, data |-> <<>>]
      BY <1>3, <3>1 DEF FileFields
    <3>3. DOMAIN file'.cur = {"prev", "data"} /\ file'.cur.prev = file.block
      BY <3>2
    <3>4. file.block # Inline /\ Walk(disk, file.block, i) \cap window = {}
      BY <1>4, <2>3, <2>4
    <3>5. PICK q \in Nat : q = i + 1 /\ q - 1 = i
      OBVIOUS
    <3>6. file.pos = q * n + 0
      <4>1. (i + 1) * n = i * n + n
        OBVIOUS
      <4> QED
        BY <2>1, <2>2, <2>5, <2>8, <3>5, <4>1
    <3>7. 0 \in 0 .. BlockSize - 1
      BY <1>2
    <3> QED
      BY <1>2, <3>2, <3>3, <3>4, <3>5, <3>6, <3>7 DEF Added
  <2> QED
    BY <2>5, <2>7, <2>8
<1> QED
  BY <1>5, <1>6

\* lfs_ctz_extend makes a free block the one that is written to.
LEMMA ExtendHolds ==
  ASSUME FileInv, Extend
  PROVE  FileInv'
<1>1. /\ calls # <<>> /\ Top.op = "write" /\ Top.at = "extend" /\ Framed(Top)
      /\ Len(calls) \in DOMAIN calls /\ Top = calls[Len(calls)] /\ Top = Last(calls)
      /\ IsStack(calls) /\ AtWrite /\ Waits(Top, Size, W) /\ file.open
      /\ Standing /\ At("write", "extend")
  BY TopIs DEF Extend, At, Top, Running
<1>2. PICK b \in window :
        /\ window' = window \ {b} /\ disk' = [disk EXCEPT ![b] = Erased]
        /\ file' = [Extended(b, file.pos) EXCEPT !.writing = TRUE]
        /\ calls' = GoTo("prog") /\ UNCHANGED <<entry, bad>>
  BY DEF Extend, Take, Continue, FileInv, Shape
<1>3. Added(b)
  BY <1>1, <1>2, ExtendAdds
<1>4. /\ DOMAIN file' = FileFields /\ file'.ctz = file.ctz /\ file'.inline = file.inline
      /\ file'.open = file.open /\ file'.append = file.append
      /\ file'.writing /\ file'.dirty = file.dirty /\ file'.pos = file.pos
      /\ file'.block = b /\ DOMAIN file'.cur = {"prev", "data"}
      /\ file'.cur.prev # Inline /\ file'.off \in 0 .. BlockSize - 1
  BY <1>3 DEF Added
<1>5. PICK q \in Nat : /\ file.pos = q * BlockSize + file'.off
                       /\ Walk(disk, file'.cur.prev, q - 1) \cap window = {}
  BY <1>3 DEF Added
<1>6. /\ b \in Blocks /\ b \notin Old \cup Ent /\ DOMAIN disk = Blocks
      /\ entry.size \in Nat /\ file.ctz.size \in Nat /\ file.pos \in Nat
  BY DEF FileInv, Shape, Apart
<1>7. \A c \in Blocks : c # b => disk'[c] = disk[c]
  BY <1>2, <1>6
<1>8. Ent' = Ent /\ Old' = Old
  <2>1. Chain(disk', entry.head, entry.size) = Chain(disk, entry.head, entry.size)
    BY <1>6, <1>7, OutsideSame DEF Ent
  <2>2. Chain(disk', file.ctz.head, file.ctz.size)
          = Chain(disk, file.ctz.head, file.ctz.size)
    BY <1>6, <1>7, OutsideSame DEF Old
  <2> QED
    BY <1>2, <1>4, <2>1, <2>2 DEF Ent, Old
<1>9. Shape'
  <2>1. file'.off \in Nat
    BY <1>4, FileAssumption
  <2>2. Erased.prev # Inline /\ DOMAIN Erased = {"prev", "data"}
    BY DEF Erased, Inline, Null
  <2> QED
    BY <1>1, <1>2, <1>4, <2>1, <2>2 DEF FileInv, Shape
<1>10. Small'
  BY <1>2, <1>4 DEF FileInv, Small
<1>11. Apart'
  BY <1>2, <1>4, <1>8 DEF FileInv, Apart
<1>12. PICK f : f = [Top EXCEPT !.at = "prog"]
  OBVIOUS
<1>13. Framed(f) /\ f.op = "write" /\ f.at = "prog" /\ f.data = Top.data
  BY <1>1, <1>12, TurnIs
<1>14. calls' = [calls EXCEPT ![Len(calls)] = f]
  BY <1>1, <1>2, <1>12 DEF GoTo
<1>15. Turns(calls, f, calls')
  BY <1>1, <1>13, <1>14, Turned
<1>16. /\ IsStack(calls') /\ Top' = f /\ calls' # <<>> /\ DOMAIN calls' = DOMAIN calls
       /\ \A k \in DOMAIN calls : calls'[k] = IF k = Len(calls) THEN f ELSE calls[k]
  BY <1>15 DEF Turns, Top
<1>17. View' = [disk' EXCEPT ![b] = file'.cur]
  BY <1>4, <1>6 DEF View
<1>18. Walk(View', b, q) \cap window' = {}
  <2>1. PICK e : e = View'
    OBVIOUS
  <2>2. \A c \in Blocks : c # b => e[c].prev = disk[c].prev
    BY <1>2, <1>6, <1>7, <1>17, <2>1
  <2>3. e[b].prev = file'.cur.prev
    BY <1>2, <1>6, <1>17, <2>1
  <2>4. Walk(e, b, q) \cap (window \ {b}) = {}
    <3>1. PICK p : p = file'.cur.prev
      OBVIOUS
    <3>2. Walk(disk, p, q - 1) \cap window = {} /\ e[b].prev = p
      BY <1>5, <2>3, <3>1
    <3> QED
      BY <1>6, <2>2, <3>2, WalkGrows
  <2> QED
    BY <1>2, <2>1, <2>4
<1>19. Geometry'
  <2>1. /\ file'.off <= BlockSize /\ file'.off # BlockSize
    BY <1>4, FileAssumption
  <2>2. At("write", "prog")'
    BY <1>13, <1>16 DEF At
  <2>3. b \notin window'
    BY <1>2
  <2> QED
    BY <1>4, <1>5, <1>6, <1>8, <1>18, <2>1, <2>2, <2>3 DEF Geometry
<1>20. Pending'
  <2>1. ~Mid
    BY <1>1 DEF Mid, At
  <2> QED
    BY <1>4, <2>1 DEF FileInv, Pending
<1>21. Positions'
  <2>1. Positions /\ \A k \in DOMAIN calls : calls[k].n \in Nat
    BY DEF FileInv, IsStack, Framed
  <2>2. Standing' /\ (W => W')
    BY <1>1, <1>4 DEF Standing, W
  <2>3. Size \in Nat /\ Size' \in Nat /\ Size <= Size'
    BY <1>4, <1>6 DEF Size, Larger
  <2>4. Waits(f, Size', W')
    BY <1>13 DEF Waits
  <2>5. \A k \in DOMAIN calls' :
          \/ k \in DOMAIN calls /\ calls'[k] = calls[k]
          \/ /\ Running(calls'[k]) => Standing'
             /\ Waits(calls'[k], Size', W')
    BY <1>16, <2>2, <2>4
  <2> QED
    BY <2>1, <2>2, <2>3, <2>5, PositionsKept
<1>22. AtWrite'
  <2>1. file'.off < BlockSize
    BY <1>4, FileAssumption
  <2> QED
    BY <1>1, <1>4, <1>13, <1>16, <2>1 DEF AtWrite
<1>23. Tops'
  BY <1>13, <1>16, <1>22 DEF Tops, AtOutline, AtFlushed, Callers
<1> QED
  BY <1>9, <1>10, <1>11, <1>16, <1>19, <1>20, <1>21, <1>23 DEF FileInv

\* What a step of lfs_file_write's loop programs, and what it leaves.
Takes(m, cur, f) ==
  /\ Framed(f) /\ f.op = "write" /\ f.at = "loop"
  /\ Len(f.data) \in Nat /\ m + Len(f.data) = Len(Top.data)
  /\ file.inline => Len(f.data) = 0
  /\ ~file.inline => /\ m <= BlockSize - file.off
                     /\ Len(f.data) = 0 \/ m = BlockSize - file.off
  /\ DOMAIN cur = {"prev", "data"} /\ cur.prev = file.cur.prev
  /\ disk' = IF ~file.inline /\ file.off + m = BlockSize
             THEN [disk EXCEPT ![file.block] = cur] ELSE disk
  /\ calls' = [calls EXCEPT ![Len(calls)] = f]
  /\ DOMAIN file' = FileFields /\ DOMAIN file'.ctz = {"head", "size", "buf"}
  /\ file'.ctz.head = file.ctz.head /\ file'.ctz.size = file.ctz.size
  /\ file'.inline = file.inline /\ file'.open = file.open
  /\ file'.append = file.append /\ file'.writing = file.writing
  /\ file'.dirty = file.dirty /\ file'.block = file.block
  /\ file'.pos = file.pos + m /\ file'.off = file.off + m
  /\ file'.cur = IF file.inline THEN file.cur ELSE cur

\* A piece of data in a cache as it should be.
LEMMA ProgrammedIs ==
  ASSUME Settled, NEW d
  PROVE  /\ Programmed(d) = [file.cur EXCEPT !.data = SubSeq(@, 1, file.off) \o d]
         /\ Fills(d) <=> file.off + Len(d) = BlockSize
BY DEF Settled, Programmed, Fills

\* Some of the data is programmed, and the write stands behind it.
LEMMA ProgTakes ==
  ASSUME FileInv, Settled, Prog
  PROVE  /\ UNCHANGED <<entry, bad, window>>
         /\ \E m \in Nat \ {0} : \E cur, f : Takes(m, cur, f)
<1>1. /\ calls # <<>> /\ Top.op = "write" /\ Top.at = "prog" /\ Framed(Top)
      /\ Len(calls) \in DOMAIN calls /\ Top = calls[Len(calls)] /\ AtWrite
  BY TopIs DEF Prog, At
<1>2. file.writing /\ Len(Top.data) > 0 /\ (file.inline \/ file.off < BlockSize)
  BY <1>1 DEF AtWrite
<1>3. PICK S : Top.data \in Seq(S)
  BY <1>1 DEF Framed
<1>4. PICK t : t = Top.data
  OBVIOUS
<1>5. t \in Seq(S) /\ Len(t) \in Nat /\ Len(t) > 0
  BY <1>2, <1>3, <1>4
<1>6. PICK room : room = IF file.inline THEN Len(t) ELSE BlockSize - file.off
  OBVIOUS
<1>7. room \in Nat \ {0}
  BY <1>2, <1>5, <1>6, FileAssumption DEF FileInv, Shape
<1>8. PICK m \in Nat \ {0} : m = Smaller(room, Len(t)) /\ m <= Len(t) /\ m <= room
  BY <1>5, <1>7 DEF Smaller
<1>9. PICK d : d = SubSeq(t, 1, m)
  OBVIOUS
<1>10. Len(d) = m
  BY <1>5, <1>8, <1>9
<1>11. PICK rest : rest = SubSeq(t, m + 1, Len(t))
  OBVIOUS
<1>12. rest \in Seq(S) /\ Len(rest) = Len(t) - m
  <2>1. m + 1 \in 1 .. Len(t) + 1 /\ Len(t) \in m + 1 - 1 .. Len(t)
    BY <1>5, <1>8
  <2>2. /\ SubSeq(t, m + 1, Len(t)) \in Seq(S)
        /\ Len(SubSeq(t, m + 1, Len(t))) = Len(t) - (m + 1) + 1
    BY <1>5, <2>1, SubSeqProperties
  <2>3. Len(t) - (m + 1) + 1 = Len(t) - m
    BY <1>5
  <2> QED
    <3>1. Len(rest) = Len(t) - (m + 1) + 1 /\ rest \in Seq(S)
      BY <1>11, <2>2, Zenon
    <3> QED
      BY <2>3, <3>1
<1>13. PICK cur : cur = [file.cur EXCEPT !.data = SubSeq(@, 1, file.off) \o d]
  OBVIOUS
<1>14. DOMAIN cur = {"prev", "data"} /\ cur.prev = file.cur.prev
  BY <1>13 DEF FileInv, Shape
<1>15. bad = {}
  BY DEF FileInv, Shape
<1>29. Piece = d
  BY <1>4, <1>6, <1>8, <1>9 DEF Piece, Room
<1>30. Programmed(d) = cur /\ (Fills(d) <=> file.off + m = BlockSize)
  BY <1>10, <1>13, ProgrammedIs
<1>31. PICK c : c = IF ~file.inline /\ Fills(d) /\ file.off + Len(d) < BlockSize
                    THEN "blank" ELSE "right"
  OBVIOUS
<1>16. /\ file' = [file EXCEPT
             !.pos = @ + m, !.off = file.off + m,
             !.cur = IF file.inline THEN @ ELSE cur, !.cache = c,
             !.ctz.buf = IF file.inline THEN Spliced(@, file.off, d) ELSE @]
       /\ disk' = IF ~file.inline /\ file.off + m = BlockSize
                  THEN [disk EXCEPT ![file.block] = cur] ELSE disk
       /\ calls' = [GoTo("loop") EXCEPT ![Len(calls)].data = rest]
       /\ UNCHANGED <<entry, bad, window>>
  BY <1>4, <1>10, <1>11, <1>15, <1>29, <1>30, <1>31 DEF Prog
<1>17. PICK z : z = [file.ctz EXCEPT !.buf =
                       IF file.inline THEN Spliced(@, file.off, d) ELSE @]
  OBVIOUS
<1>18. /\ DOMAIN z = {"head", "size", "buf"}
       /\ z.head = file.ctz.head /\ z.size = file.ctz.size
  BY <1>17 DEF FileInv, Shape
<1>19. file' = [file EXCEPT !.pos = @ + m, !.off = @ + m,
                  !.cur = IF file.inline THEN @ ELSE cur, !.cache = c, !.ctz = z]
  BY <1>16, <1>17 DEF FileInv, Shape, FileFields
<1>20. /\ DOMAIN file' = FileFields /\ file'.ctz = z
       /\ file'.inline = file.inline /\ file'.open = file.open
       /\ file'.append = file.append /\ file'.writing = file.writing
       /\ file'.dirty = file.dirty /\ file'.block = file.block
       /\ file'.pos = file.pos + m /\ file'.off = file.off + m
       /\ file'.cur = IF file.inline THEN file.cur ELSE cur
  BY <1>19 DEF FileInv, Shape, FileFields
<1>21. PICK f : f = [Top EXCEPT !.at = "loop", !.data = rest]
  OBVIOUS
<1>22. /\ DOMAIN f = {"op", "at", "n", "data", "back"} /\ f.op = "write"
       /\ f.at = "loop" /\ f.n = Top.n /\ f.data = rest
  BY <1>1, <1>21 DEF Framed
<1>23. Framed(f)
  BY <1>1, <1>12, <1>22 DEF Framed
<1>24. calls' = [calls EXCEPT ![Len(calls)] = f]
  BY <1>1, <1>16, <1>21 DEF GoTo
<1>25. Len(f.data) \in Nat /\ m + Len(f.data) = Len(Top.data)
  BY <1>4, <1>5, <1>8, <1>12, <1>22
<1>26. file.inline => Len(f.data) = 0
  <2>1. file.inline => m = Len(t)
    BY <1>5, <1>6, <1>8 DEF Smaller
  <2>2. Len(f.data) = Len(t) - m
    BY <1>12, <1>22
  <2> QED
    BY <1>5, <2>1, <2>2
<1>27. ~file.inline => /\ m <= BlockSize - file.off
                       /\ Len(f.data) = 0 \/ m = BlockSize - file.off
  BY <1>4, <1>5, <1>6, <1>7, <1>8, <1>25 DEF Smaller
<1>28. Takes(m, cur, f)
  BY <1>14, <1>16, <1>18, <1>20, <1>22, <1>23, <1>24, <1>25, <1>26, <1>27 DEF Takes
<1> QED
  BY <1>16, <1>28

\* The block written to goes on holding what has been written.
LEMMA ProgGeometry ==
  ASSUME FileInv, NEW m \in Nat \ {0}, NEW cur, NEW f, Takes(m, cur, f),
         UNCHANGED window, At("write", "prog"), Ent' = Ent, Old' = Old
  PROVE  Geometry'
<1> SUFFICES ASSUME W'
             PROVE  /\ file'.block \in Blocks /\ file'.off <= BlockSize
                    /\ file'.off # 0
                    /\ file'.off = BlockSize => disk'[file'.block] = file'.cur
                    /\ file'.block \notin Old' \cup Ent' \cup window'
                    /\ \E q \in Nat : /\ file'.pos = q * BlockSize + file'.off
                                      /\ Walk(View', file'.block, q) \cap window' = {}
  BY DEF Geometry
<1>1. /\ W /\ file.writing /\ ~file.inline /\ file'.writing
      /\ file'.block = file.block /\ file'.cur = cur /\ cur.prev = file.cur.prev
      /\ file'.pos = file.pos + m /\ file'.off = file.off + m
      /\ m <= BlockSize - file.off
      /\ disk' = IF file.off + m = BlockSize
                 THEN [disk EXCEPT ![file.block] = cur] ELSE disk
  BY DEF Takes, W
<1>2. /\ DOMAIN disk = Blocks /\ file.pos \in Nat /\ file.off \in Nat
      /\ BlockSize \in Nat
  BY FileAssumption DEF FileInv, Shape
<1>3. file.block \in Blocks /\ file.block \notin Old \cup Ent \cup window
  BY <1>1 DEF FileInv, Geometry
<1>4. PICK q \in Nat : /\ file.pos = q * BlockSize + file.off
                       /\ Walk(View, file.block, q) \cap window = {}
  BY <1>1 DEF FileInv, Geometry
<1>5. file'.off <= BlockSize /\ file'.off # 0
  BY <1>1, <1>2
<1>6. file'.off = BlockSize => disk'[file'.block] = file'.cur
  BY <1>1, <1>2, <1>3
<1>7. file'.pos = q * BlockSize + file'.off
  <2>1. PICK x : x = q * BlockSize
    OBVIOUS
  <2>2. x \in Int
    BY <1>2, <2>1
  <2>3. file.pos = x + file.off
    BY <1>4, <2>1
  <2>4. file'.pos = x + file'.off
    BY <1>1, <1>2, <2>2, <2>3
  <2> QED
    BY <2>1, <2>4
<1>8. PICK v, e : v = View /\ e = View'
  OBVIOUS
<1>9. \A c \in Blocks : v[c].prev = e[c].prev
  <2>1. v[file.block] = file.cur /\ \A c \in Blocks : c # file.block => v[c] = disk[c]
    BY <1>1, <1>3, <1>8, ViewIs DEF FileInv
  <2>2. e = [disk' EXCEPT ![file.block] = cur]
    BY <1>1, <1>3, <1>8 DEF View
  <2>3. DOMAIN disk' = Blocks /\ \A c \in Blocks : c # file.block => disk'[c] = disk[c]
    BY <1>1, <1>2
  <2>4. e[file.block] = cur /\ \A c \in Blocks : c # file.block => e[c] = disk[c]
    BY <1>3, <2>2, <2>3
  <2> QED
    BY <1>1, <2>1, <2>4
<1>10. Walk(e, file.block, q) = Walk(v, file.block, q)
  <2>1. \A c \in Walk(v, file.block, q) : v[c].prev = e[c].prev
    BY <1>9 DEF Walk
  <2> QED
    BY <2>1, WalkSame
<1>11. Walk(View', file'.block, q) \cap window' = {}
  BY <1>1, <1>4, <1>8, <1>10
<1> QED
  BY <1>1, <1>3, <1>5, <1>6, <1>7, <1>11

\* lfs_bd_prog of a piece of the data.
LEMMA ProgHolds ==
  ASSUME FileInv, Settled, Prog
  PROVE  FileInv'
<1>1. /\ calls # <<>> /\ Top.op = "write" /\ Top.at = "prog" /\ Framed(Top)
      /\ Len(calls) \in DOMAIN calls /\ Top = calls[Len(calls)] /\ Top = Last(calls)
      /\ IsStack(calls) /\ AtWrite /\ file.open /\ Standing /\ At("write", "prog")
  BY TopIs DEF Prog, At, Top, Running
<1>2. UNCHANGED <<entry, bad, window>>
  BY ProgTakes
<1>3. PICK m \in Nat \ {0} : \E cur, f : Takes(m, cur, f)
  BY ProgTakes
<1>4. PICK cur, f : Takes(m, cur, f)
  BY <1>3
<1>5. /\ Framed(f) /\ f.op = "write" /\ f.at = "loop" /\ Len(f.data) \in Nat
      /\ m + Len(f.data) = Len(Top.data) /\ (file.inline => Len(f.data) = 0)
      /\ DOMAIN cur = {"prev", "data"} /\ cur.prev = file.cur.prev
      /\ calls' = [calls EXCEPT ![Len(calls)] = f]
  BY <1>4 DEF Takes
<1>6. /\ DOMAIN file' = FileFields /\ DOMAIN file'.ctz = {"head", "size", "buf"}
      /\ file'.ctz.head = file.ctz.head /\ file'.ctz.size = file.ctz.size
      /\ file'.inline = file.inline /\ file'.open = file.open
      /\ file'.append = file.append /\ file'.writing = file.writing
      /\ file'.dirty = file.dirty /\ file'.block = file.block
      /\ file'.pos = file.pos + m /\ file'.off = file.off + m
      /\ file'.cur = IF file.inline THEN file.cur ELSE cur
  BY <1>4 DEF Takes
<1>7. disk' = IF ~file.inline /\ file.off + m = BlockSize
              THEN [disk EXCEPT ![file.block] = cur] ELSE disk
  BY <1>4 DEF Takes
<1>8. /\ DOMAIN disk = Blocks /\ file.pos \in Nat /\ file.off \in Nat
      /\ entry.size \in Nat /\ file.ctz.size \in Nat /\ file.writing
      /\ file.cur.prev # Inline
  BY <1>1 DEF FileInv, Shape, AtWrite
<1>9. ~file.inline => file.block \in Blocks /\ file.block \notin Old \cup Ent
  BY <1>8 DEF FileInv, Geometry, W
<1>10. Turns(calls, f, calls')
  BY <1>1, <1>5, Turned
<1>11. /\ IsStack(calls') /\ Top' = f /\ calls' # <<>> /\ DOMAIN calls' = DOMAIN calls
       /\ \A k \in DOMAIN calls : calls'[k] = IF k = Len(calls) THEN f ELSE calls[k]
  BY <1>10 DEF Turns, Top
<1>12. Ent' = Ent /\ Old' = Old
  <2>1. CASE disk' = disk
    BY <1>2, <1>6, <2>1 DEF Ent, Old
  <2>2. CASE disk' # disk
    <3>1. ~file.inline /\ \A c \in Blocks : c # file.block => disk'[c] = disk[c]
      BY <1>7, <1>8, <2>2
    <3>2. Chain(disk', entry.head, entry.size) = Chain(disk, entry.head, entry.size)
      BY <1>8, <1>9, <3>1, OutsideSame DEF Ent
    <3>3. Chain(disk', file.ctz.head, file.ctz.size)
            = Chain(disk, file.ctz.head, file.ctz.size)
      BY <1>8, <1>9, <3>1, OutsideSame DEF Old
    <3> QED
      BY <1>2, <1>6, <3>2, <3>3 DEF Ent, Old
  <2> QED
    BY <2>1, <2>2
<1>13. Shape'
  <2>1. DOMAIN disk' = Blocks
    BY <1>7, <1>8
  <2>2. \A c \in Blocks : DOMAIN disk'[c] = {"prev", "data"} /\ disk'[c].prev # Inline
    BY <1>5, <1>7, <1>8 DEF FileInv, Shape
  <2>3. /\ DOMAIN file'.cur = {"prev", "data"} /\ file'.cur.prev # Inline
        /\ file'.pos \in Nat /\ file'.off \in Nat
    BY <1>5, <1>6, <1>8 DEF FileInv, Shape
  <2> QED
    BY <1>1, <1>2, <1>6, <2>1, <2>2, <2>3 DEF FileInv, Shape
<1>14. Small'
  BY <1>2, <1>6 DEF FileInv, Small
<1>15. Apart'
  BY <1>2, <1>6, <1>12 DEF FileInv, Apart
<1>16. Geometry'
  BY <1>1, <1>2, <1>4, <1>12, ProgGeometry
<1>17. Pending'
  <2> SUFFICES ASSUME ~file.inline, file.ctz.head = Inline
               PROVE  file'.pos >= file'.ctz.size \/ Mid'
    BY <1>6, <1>8 DEF Pending
  <2>1. file.pos >= file.ctz.size \/ Mid
    BY DEF FileInv, Pending
  <2>2. CASE file.pos >= file.ctz.size
    BY <1>6, <1>8, <2>2
  <2>3. CASE Mid
    <3>1. file.off = file.pos /\ file.pos + Len(Top.data) >= file.ctz.size
      BY <2>3 DEF Mid
    <3>2. At("write", "loop")'
      BY <1>5, <1>11 DEF At
    <3>3. file'.off = file'.pos
      BY <1>6, <3>1
    <3>4. file'.pos + Len(f.data) >= file'.ctz.size
      BY <1>5, <1>6, <1>8, <3>1
    <3> QED
      BY <1>6, <1>11, <3>2, <3>3, <3>4 DEF Mid
  <2> QED
    BY <2>1, <2>2, <2>3
<1>18. AtWrite'
  <2>1. file.inline => file'.pos + Len(f.data) <= InlineMax
    <3>1. file.inline => file.pos + Len(Top.data) <= InlineMax
      BY <1>1 DEF AtWrite
    <3>2. file'.pos + Len(f.data) = file.pos + Len(Top.data)
      BY <1>5, <1>6, <1>8
    <3> QED
      BY <3>1, <3>2
  <2> QED
    BY <1>5, <1>6, <1>11, <2>1 DEF AtWrite
<1>19. Standing'
  <2>1. file.inline => file'.pos <= InlineMax
    BY <1>1, <1>5, <1>6, <1>8 DEF AtWrite
  <2>2. file.append => file'.pos >= file.ctz.size
    BY <1>1, <1>6, <1>8 DEF Standing
  <2> QED
    BY <1>6, <1>8, <2>1, <2>2 DEF Standing
<1>20. Positions'
  <2>1. Positions /\ \A k \in DOMAIN calls : calls[k].n \in Nat
    BY DEF FileInv, IsStack, Framed
  <2>2. W => W'
    BY <1>6 DEF W
  <2>3. Size \in Nat /\ Size' \in Nat /\ Size <= Size'
    BY <1>6, <1>8 DEF Size, Larger
  <2>4. Waits(f, Size', W')
    BY <1>5 DEF Waits
  <2>5. \A k \in DOMAIN calls' :
          \/ k \in DOMAIN calls /\ calls'[k] = calls[k]
          \/ /\ Running(calls'[k]) => Standing'
             /\ Waits(calls'[k], Size', W')
    BY <1>11, <1>19, <2>4
  <2> QED
    BY <1>19, <2>1, <2>2, <2>3, <2>5, PositionsKept
<1>21. Tops'
  BY <1>5, <1>11, <1>18 DEF Tops, AtOutline, AtFlushed, Callers
<1> QED
  BY <1>11, <1>13, <1>14, <1>15, <1>16, <1>17, <1>20, <1>21 DEF FileInv

\* lfs_file_relocate, which only lfs_file_outline needs where no block is bad.
LEMMA RelocateHolds ==
  ASSUME FileInv, Relocate
  PROVE  FileInv'
<1>1. /\ calls # <<>> /\ Top.op \in {"relocate", "outline"} /\ Framed(Top)
      /\ Top = Last(calls) /\ IsStack(calls) /\ AtOutline /\ file.open
      /\ Len(calls) \in Nat
  BY TopIs DEF Relocate, At, Top
<1>2. Top.op = "outline"
  BY <1>1 DEF Framed, Callers, Inner
<1>3. /\ Len(calls) > 1 /\ file.inline /\ file.off = file.pos /\ file.pos <= InlineMax
      /\ \/ /\ calls[Len(calls) - 1].op = "write"
            /\ file.pos + Len(calls[Len(calls) - 1].data) > InlineMax
         \/ calls[Len(calls) - 1].op = "sync" /\ file.pos = file.ctz.size
  BY <1>1, <1>2 DEF AtOutline
<1>4. PICK b \in window :
        /\ window' = window \ {b} /\ disk' = [disk EXCEPT ![b] = Erased]
        /\ file' = [file EXCEPT
             !.block = b, !.writing = TRUE, !.inline = @ /\ Top.op # "outline",
             !.cache = "right",
             !.cur = [[Erased EXCEPT !.data = file.ctz.buf]
                        EXCEPT !.data = SubSeq(@, 1, file.off)]]
        /\ calls' = Front(calls) /\ UNCHANGED <<entry, bad>>
  <2>1. bad = {} /\ UNCHANGED <<entry, bad>>
    BY DEF Relocate, FileInv, Shape
  <2>5. ~(file.off > BlockSize)
    <3>1. file.off \in Nat /\ InlineMax \in Nat /\ BlockSize \in Nat /\ InlineMax < BlockSize
      BY FileAssumption DEF FileInv, Shape
    <3> QED
      BY <1>3, <3>1
  <2>2. PICK old : old = IF file.inline THEN [Erased EXCEPT !.data = file.ctz.buf]
                         ELSE file.cur
    OBVIOUS
  <2>3. old = [Erased EXCEPT !.data = file.ctz.buf]
    BY <1>3, <2>2
  <2>4. PICK b \in window :
          /\ window' = window \ {b} /\ disk' = [disk EXCEPT ![b] = Erased]
          /\ file' = [file EXCEPT
               !.block = b, !.writing = TRUE, !.inline = @ /\ Top.op # "outline",
               !.cache = "right", !.cur = [old EXCEPT !.data = SubSeq(@, 1, file.off)]]
          /\ calls' = Front(calls)
    BY <2>1, <2>2, <2>5, Zenon DEF Relocate, Take, Return
  <2> QED
    BY <2>1, <2>3, <2>4, Zenon
<1>5. PICK cur : cur = [[Erased EXCEPT !.data = file.ctz.buf]
                          EXCEPT !.data = SubSeq(@, 1, file.off)]
  OBVIOUS
<1>6. DOMAIN cur = {"prev", "data"} /\ cur.prev = Null
  BY <1>5 DEF Erased
<1>7. /\ DOMAIN file' = FileFields /\ file'.ctz = file.ctz /\ ~file'.inline
      /\ file'.open = file.open /\ file'.append = file.append
      /\ file'.writing /\ file'.dirty = file.dirty
      /\ file'.pos = file.pos /\ file'.off = file.off
      /\ file'.block = b /\ file'.cur = cur
  BY <1>2, <1>4, <1>5 DEF FileInv, Shape, FileFields
<1>8. /\ DOMAIN disk = Blocks /\ file.pos \in Nat /\ file.off \in Nat
      /\ entry.size \in Nat /\ file.ctz.size \in Nat /\ b \in Blocks
      /\ file.ctz.head = Inline /\ file.ctz.size <= InlineMax
      /\ b \notin Old \cup Ent
  BY <1>3 DEF FileInv, Shape, Small, Apart
<1>9. \A c \in Blocks : c # b => disk'[c] = disk[c]
  BY <1>4, <1>8
<1>10. Inline \notin Blocks /\ Null \notin Blocks /\ Null # Inline
  BY FileAssumption DEF Inline, Null
<1>11. InlineMax \in Nat /\ BlockSize \in Nat /\ InlineMax < BlockSize
  BY FileAssumption
<1>12. Ent' = Ent /\ Old' = {}
  <2>1. Chain(disk', entry.head, entry.size) = Chain(disk, entry.head, entry.size)
    BY <1>8, <1>9, OutsideSame DEF Ent
  <2>2. Chain(disk', Inline, file.ctz.size) = {}
    BY <1>8, <1>10, ChainNone
  <2> QED
    BY <1>4, <1>7, <1>8, <2>1, <2>2 DEF Ent, Old
<1>13. Shape'
  <2>1. Erased.prev # Inline /\ DOMAIN Erased = {"prev", "data"}
    BY <1>10 DEF Erased
  <2> QED
    BY <1>1, <1>4, <1>6, <1>7, <1>10, <2>1 DEF FileInv, Shape
<1>14. Small'
  BY <1>4, <1>7 DEF FileInv, Small
<1>15. Apart'
  BY <1>4, <1>7, <1>12 DEF FileInv, Apart
<1>16. Pops(calls, calls')
  BY <1>1, <1>4, Popped
<1>17. /\ IsStack(calls') /\ calls' # <<>> /\ Top' = calls[Len(calls) - 1]
       /\ Called(Top', Top)
       /\ \A k \in DOMAIN calls' : calls'[k] = calls[k] /\ k \in DOMAIN calls
       /\ Len(calls) - 1 \in DOMAIN calls
  BY <1>1, <1>3, <1>16 DEF Pops, Top
<1>18. \/ Top'.op = "write" /\ Top'.at = "loop"
       \/ Top'.op = "sync" /\ Top'.at = "begin"
  BY <1>2, <1>17 DEF Called
<1>19. Walk(View', b, 0) \cap window' = {}
  <2>1. PICK e : e = View'
    OBVIOUS
  <2>2. e = [disk' EXCEPT ![b] = cur]
    BY <1>7, <1>8, <2>1 DEF View
  <2>3. e[b].prev = Null /\ \A c \in Blocks : c # b => e[c].prev = disk[c].prev
    BY <1>4, <1>6, <1>8, <1>9, <2>2
  <2>4. Walk(disk, Null, 0 - 1) = {}
    BY <1>10, WalkNone
  <2>5. Walk(disk, Null, 0 - 1) \cap window = {} /\ 0 \in Nat
    BY <2>4
  <2>6. Walk(e, b, 0) \cap (window \ {b}) = {}
    BY <1>8, <2>3, <2>5, WalkGrows
  <2> QED
    BY <1>4, <2>1, <2>6
<1>20. Geometry'
  <2>1. file.pos = 0 * BlockSize + file.off
    BY <1>3, <1>8, <1>11
  <2>2. \E q \in Nat : /\ file'.pos = q * BlockSize + file'.off
                       /\ Walk(View', file'.block, q) \cap window' = {}
    BY <1>7, <1>19, <2>1
  <2>3. /\ file'.off <= BlockSize /\ file'.off # BlockSize
        /\ file'.off = 0 => file'.pos = 0
    BY <1>3, <1>7, <1>8, <1>11
  <2>4. file'.block \in Blocks /\ file'.block \notin Old' \cup Ent' \cup window'
    BY <1>4, <1>7, <1>8, <1>12
  <2> QED
    BY <2>2, <2>3, <2>4 DEF Geometry
<1>21. Pending'
  <2>1. CASE Top'.op = "write" /\ file.pos + Len(Top'.data) > InlineMax
    <3>1. Top' \in {calls[k] : k \in DOMAIN calls}
      BY <1>17
    <3>2. Framed(Top')
      BY <1>1, <3>1 DEF IsStack
    <3>3. PICK S : Top'.data \in Seq(S)
      BY <3>2 DEF Framed
    <3>4. Len(Top'.data) \in Nat
      BY <3>3
    <3>5. At("write", "loop")'
      BY <1>17, <1>18, <2>1 DEF At
    <3>6. file'.pos + Len(Top'.data) >= file'.ctz.size
      BY <1>7, <1>8, <1>11, <2>1, <3>4
    <3>7. Mid'
      BY <1>3, <1>7, <1>8, <3>5, <3>6 DEF Mid
    <3> QED
      BY <1>7, <3>7 DEF Pending
  <2>2. CASE file.pos = file.ctz.size
    BY <1>7, <1>8, <2>2 DEF Pending
  <2> QED
    BY <1>3, <1>17, <2>1, <2>2
<1>22. Standing'
  <2>1. file.append => file.pos >= file.ctz.size
    <3>1. CASE Top'.op = "write"
      <4>1. Running(Top')
        BY <1>18, <3>1 DEF Running
      <4>2. Busy
        BY <1>17, <4>1 DEF Busy
      <4> QED
        BY <4>2 DEF FileInv, Positions, Standing
    <3>2. CASE Top'.op = "sync"
      BY <1>3, <1>8, <1>17, <3>2
    <3> QED
      BY <1>18, <3>1, <3>2
  <2> QED
    BY <1>7, <2>1 DEF Standing
<1>23. Positions'
  <2>1. Positions /\ \A k \in DOMAIN calls : calls[k].n \in Nat
    BY DEF FileInv, IsStack, Framed
  <2>2. W => W'
    BY <1>7 DEF W
  <2>3. Size \in Nat /\ Size' \in Nat /\ Size <= Size'
    BY <1>7, <1>8 DEF Size, Larger
  <2> QED
    BY <1>17, <1>22, <2>1, <2>2, <2>3, PositionsKept
<1>24. Tops'
  BY <1>7, <1>18 DEF Tops, AtWrite, AtOutline, AtFlushed, Callers
<1> QED
  BY <1>13, <1>14, <1>15, <1>17, <1>20, <1>21, <1>23, <1>24 DEF FileInv

-----------------------------------------------------------------------------
\* The invariant holds

\* What the file is at the start.
LEMMA InitialEntry ==
  ASSUME Init
  PROVE  /\ DOMAIN entry = {"head", "size", "buf"}
         /\ entry.size \in Nat /\ entry.size <= MaxSize
         /\ entry.head # Inline => entry.size # 0
         /\ entry.head = Inline => entry.size <= InlineMax
<1>1. PICK order \in [1 .. MaxSize \div BlockSize + 1 -> Blocks] :
        entry \in Entries(Inline) \cup UNION {Entries(order[k]) : k \in DOMAIN order}
  BY DEF Init
<1>2. InlineMax \in Nat /\ MaxSize \in Nat /\ Inline \notin Blocks
  BY FileAssumption DEF Inline
<1>3. CASE entry \in Entries(Inline)
  <2>1. PICK n \in 0 .. Smaller(InlineMax, MaxSize) :
          entry = [head |-> Inline, size |-> n, buf |-> [k \in 1 .. n |-> MaxOps + k]]
    BY <1>3 DEF Entries
  <2>2. n \in Nat /\ n <= InlineMax /\ n <= MaxSize
    BY <1>2 DEF Smaller
  <2> QED
    BY <1>2, <2>1, <2>2
<1>4. ASSUME NEW k \in DOMAIN order, entry \in Entries(order[k])
      PROVE  /\ DOMAIN entry = {"head", "size", "buf"}
             /\ entry.size \in Nat /\ entry.size <= MaxSize /\ entry.size # 0
             /\ entry.head # Inline
  <2>1. order[k] \in Blocks /\ order[k] # Inline
    BY <1>2
  <2>2. PICK n \in InlineMax + 1 .. MaxSize :
          entry = [head |-> order[k], size |-> n, buf |-> <<>>]
    BY <1>4, <2>1 DEF Entries
  <2>3. n \in Nat /\ n <= MaxSize /\ n # 0
    BY <1>2
  <2> QED
    BY <2>1, <2>2, <2>3
<1> QED
  BY <1>1, <1>3, <1>4

\* No block of the file at the start goes back to the directory.
LEMMA InitialDisk ==
  ASSUME Init
  PROVE  /\ DOMAIN disk = Blocks
         /\ \A b \in Blocks : DOMAIN disk[b] = {"prev", "data"} /\ disk[b].prev # Inline
<1>1. PICK order \in [1 .. MaxSize \div BlockSize + 1 -> Blocks] :
        disk = [b \in Blocks |->
            IF entry.head # Inline
                 /\ \E k \in 1 .. Index(entry.size - 1) + 1 : order[k] = b
            THEN LET k == CHOOSE i \in DOMAIN order : order[i] = b IN
                 [prev |-> IF k = 1 THEN Null ELSE order[k - 1],
                  data |-> [i \in 1 .. Smaller(BlockSize,
                                          entry.size - (k - 1) * BlockSize) |->
                              MaxOps + (k - 1) * BlockSize + i]]
            ELSE Erased]
  BY DEF Init
<1>2. Inline \notin Blocks /\ Null # Inline
  BY FileAssumption DEF Inline, Null
<1>3. PICK n \in Nat : n = MaxSize \div BlockSize + 1
  <2>1. MaxSize \div BlockSize \in Nat
    BY FileAssumption, DivSplit
  <2> QED
    BY <2>1
<1>4. DOMAIN order = 1 .. n /\ \A k \in 1 .. n : order[k] \in Blocks
  BY <1>3
<1>5. DOMAIN disk = Blocks
  BY <1>1
<1>6. ASSUME NEW b \in Blocks
      PROVE  DOMAIN disk[b] = {"prev", "data"} /\ disk[b].prev # Inline
  <2>1. CASE entry.head # Inline
                 /\ \E k \in 1 .. Index(entry.size - 1) + 1 : order[k] = b
    <3>1. \E i \in DOMAIN order : order[i] = b
      <4>1. PICK k \in 1 .. Index(entry.size - 1) + 1 : order[k] = b
        BY <2>1
      <4>2. entry.size \in Nat /\ entry.size <= MaxSize /\ MaxSize \in Nat
        BY <2>1, InitialEntry, FileAssumption
      <4>3. entry.size # 0 => /\ Index(entry.size - 1) \in Nat
                              /\ Index(entry.size - 1) + 1 <= n
        <5> SUFFICES ASSUME entry.size # 0
                     PROVE  /\ Index(entry.size - 1) \in Nat
                            /\ Index(entry.size - 1) + 1 <= n
          OBVIOUS
        <5>1. PICK p \in Nat : p = entry.size - 1 /\ p <= MaxSize
          BY <4>2
        <5>2. Index(p) <= Index(MaxSize) /\ Index(p) \in Nat /\ Index(MaxSize) \in Nat
          BY <4>2, <5>1, IndexGrows, IndexSplit
        <5> QED
          BY <1>3, <5>1, <5>2 DEF Index
      <4>4. entry.size # 0
        BY <2>1, InitialEntry
      <4>5. k \in 1 .. n
        BY <1>3, <4>3, <4>4
      <4> QED
        BY <1>4, <4>1, <4>5
    <3>2. PICK k \in DOMAIN order : k = CHOOSE i \in DOMAIN order : order[i] = b
      BY <3>1
    <3>3. PICK data : disk[b] = [prev |-> IF k = 1 THEN Null ELSE order[k - 1],
                                 data |-> data]
      <4> DEFINE Held(j) == [i \in 1 .. Smaller(BlockSize,
                                          entry.size - (j - 1) * BlockSize) |->
                              MaxOps + (j - 1) * BlockSize + i]
                 Block(j) == [prev |-> IF j = 1 THEN Null ELSE order[j - 1],
                              data |-> Held(j)]
      <4>1. disk[b] = Block(CHOOSE i \in DOMAIN order : order[i] = b)
        BY <1>1, <2>1
      <4>2. disk[b] = Block(k)
        <5> HIDE DEF Block
        <5> QED
          BY <3>2, <4>1
      <4> QED
        BY <4>2
    <3>4. k # 1 => k - 1 \in 1 .. n
      BY <1>3, <1>4
    <3> QED
      BY <1>2, <1>4, <3>3, <3>4
  <2>2. CASE ~(entry.head # Inline
                 /\ \E k \in 1 .. Index(entry.size - 1) + 1 : order[k] = b)
    <3>1. disk[b] = Erased
      BY <1>1, <2>2
    <3> QED
      BY <1>2, <3>1 DEF Erased
  <2> QED
    BY <2>1, <2>2
<1> QED
  BY <1>5, <1>6

\* The invariant holds at the start.
LEMMA InitHolds ==
  ASSUME Init
  PROVE  FileInv
<1>1. bad = {} /\ window = {} /\ file = Fresh /\ calls = <<>>
  BY DEF Init
<1>2. IsStack(calls) /\ DOMAIN calls = {}
  BY <1>1, Emptied
<1>3. /\ DOMAIN file = FileFields /\ DOMAIN file.cur = {"prev", "data"}
      /\ DOMAIN file.ctz = {"head", "size", "buf"}
      /\ file.ctz.head = Inline /\ file.ctz.size = 0
      /\ file.pos = 0 /\ file.off = 0 /\ file.cur.prev = Null
      /\ file.inline /\ ~file.writing
  BY <1>1, FreshIs
<1>4. Shape
  BY <1>1, <1>3, InitialEntry, InitialDisk DEF Shape, Null, Inline
<1>5. Small
  BY <1>3, InitialEntry, FileAssumption DEF Small
<1>6. Apart
  BY <1>1, <1>3 DEF Apart
<1>7. Geometry /\ Pending
  BY <1>3 DEF Geometry, W, Pending
<1>8. Positions
  BY <1>2, <1>3 DEF Positions, Busy
<1>9. Tops
  BY <1>1 DEF Tops
<1> QED
  BY <1>2, <1>4, <1>5, <1>6, <1>7, <1>8, <1>9 DEF FileInv

\* A step that changes nothing.
LEMMA StutterHolds ==
  ASSUME FileInv, UNCHANGED vars
  PROVE  FileInv'
<1>1. UNCHANGED <<entry, disk, bad, window, file, calls>>
  BY DEF vars, alloc
<1>2. IsStack(calls') /\ Shape' /\ Small'
  BY <1>1 DEF FileInv, Shape, Small
<1>3. Ent' = Ent /\ Old' = Old /\ View' = View /\ W' = W /\ Size' = Size /\ Top' = Top
  BY <1>1 DEF Ent, Old, View, W, Size, Top
<1>4. Apart'
  BY <1>1, <1>3 DEF FileInv, Apart
<1>5. Geometry'
  BY <1>1, <1>3 DEF FileInv, Geometry, At
<1>6. Pending'
  BY <1>1, <1>3 DEF FileInv, Pending, Mid, At
<1>7. Positions'
  BY <1>1, <1>3 DEF FileInv, Positions, Busy, Standing
<1>8. Tops'
  BY <1>1, <1>3 DEF FileInv, Tops, AtWrite, AtOutline, AtFlushed
<1> QED
  BY <1>2, <1>4, <1>5, <1>6, <1>7, <1>8 DEF FileInv

\* The calls a program may make.
LEMMA APIHolds ==
  ASSUME FileInv, API
  PROVE  FileInv'
<1>1. ASSUME NEW trunc \in BOOLEAN, NEW append \in BOOLEAN, Open(trunc, append)
      PROVE  FileInv'
  BY <1>1, OpenHolds
<1>2. ASSUME NEW n \in 1 .. MaxWrite, Write(n) PROVE FileInv'
  <2>1. PICK d : d = [k \in 1 .. n |-> ops + 1]
    OBVIOUS
  <2>2. n \in Nat
    BY FileAssumption
  <2>3. d \in Seq({ops + 1})
    BY <2>1, <2>2
  <2>4. PICK g : g = [Frame("write") EXCEPT !.data = d]
    OBVIOUS
  <2>5. Framed(g) /\ g.op = "write" /\ g.at = "begin"
    BY <2>3, <2>4, WriteFrame
  <2>6. Call(g)
    BY <1>2, <2>1, <2>4 DEF Write
  <2> QED
    BY <2>5, <2>6, CallHolds
<1>3. ASSUME NEW p \in 0 .. MaxSize, Seek(p) PROVE FileInv'
  <2>1. PICK g : g = [Frame("seek") EXCEPT !.n = p]
    OBVIOUS
  <2>2. p \in Nat
    BY FileAssumption
  <2>3. Framed(g) /\ g.op = "seek" /\ g.at = "begin"
    BY <2>1, <2>2, SeekFrame
  <2>4. Call(g)
    BY <1>3, <2>1 DEF Seek
  <2> QED
    BY <2>3, <2>4, CallHolds
<1>4. ASSUME NEW n \in Cuts, Truncate(n) PROVE FileInv'
  <2>1. PICK g : g = [Frame("truncate") EXCEPT !.n = n]
    OBVIOUS
  <2>2. n \in Nat
    BY FileAssumption
  <2>3. Framed(g) /\ g.op = "truncate" /\ g.at = "begin"
    BY <2>1, <2>2, TruncateFrame
  <2>4. Call(g)
    BY <1>4, <2>1 DEF Truncate
  <2> QED
    BY <2>3, <2>4, CallHolds
<1>5. ASSUME NEW op \in {"read", "sync", "close"}, Call(Frame(op)) PROVE FileInv'
  <2>1. PICK g : g = Frame(op)
    OBVIOUS
  <2>2. Framed(g) /\ g.op = op /\ g.at = "begin"
    BY <2>1, PlainFrame
  <2> QED
    BY <1>5, <2>1, <2>2, CallHolds
<1> QED
  BY <1>1, <1>2, <1>3, <1>4, <1>5 DEF API, Read, Sync, Close

\* The caches are as they should be after every step that has no error in the
\* middle of a write or a read.
LEMMA SettledFresh ==
  ASSUME file' = Fresh
  PROVE  Settled'
BY DEF Fresh, Settled

LEMMA SettledFails ==
  ASSUME FileInv, Settled, Fails
  PROVE  Settled'
<1>1. CASE file' = Fresh
  BY <1>1, SettledFresh
<1>2. CASE file' = Erred
  BY <1>2 DEF FileInv, Shape, FileFields, Erred, Settled
<1> QED
  BY <1>1, <1>2 DEF Fails, FailsWith, Erred

LEMMA SettledAPI ==
  ASSUME FileInv, Settled, API
  PROVE  Settled'
<1>1. ASSUME NEW trunc \in BOOLEAN, NEW append \in BOOLEAN, Open(trunc, append)
      PROVE  Settled'
  BY <1>1 DEF Open, Fresh, Settled
<1>2. UNCHANGED file \/ \E trunc, append \in BOOLEAN : Open(trunc, append)
  BY DEF API, Write, Seek, Truncate, Read, Sync, Close, Call
<1> QED
  BY <1>1, <1>2 DEF Settled

LEMMA SettledWrite ==
  ASSUME FileInv, Settled,
         WriteBegin \/ Fill \/ Check \/ WriteEnds \/ NeedsBlock \/ Extend \/ Prog
  PROVE  Settled'
<1>1. DOMAIN file = FileFields
  BY DEF FileInv, Shape
<1>2. CASE WriteBegin
  BY <1>1, <1>2 DEF WriteBegin, FileFields, Settled
<1>3. CASE Fill \/ Check \/ WriteEnds
  BY <1>1, <1>3 DEF Fill, Check, WriteEnds, FileFields, Settled
<1>4. CASE NeedsBlock
  BY <1>1, <1>4 DEF NeedsBlock, FileFields, Settled
<1>5. CASE Extend
  <2>1. PICK b : file' = file \/ file' = [Extended(b, file.pos) EXCEPT !.writing = TRUE]
    BY <1>5 DEF Extend
  <2>2. /\ DOMAIN Extended(b, file.pos) = FileFields
        /\ Extended(b, file.pos).cache = file.cache
        /\ Extended(b, file.pos).stale = file.stale
        /\ Extended(b, file.pos).misread \in {file.misread, Null}
    BY <1>1 DEF Extended, FileFields
  <2> QED
    BY <2>1, <2>2 DEF FileFields, Settled
<1>6. CASE Prog
  <2>1. bad = {}
    BY DEF FileInv, Shape
  <2>2. /\ file'.stale = file.stale /\ file'.misread = file.misread
        /\ file'.cache = IF ~file.inline /\ Fills(Piece)
                              /\ file.off + Len(Piece) < BlockSize
                         THEN "blank" ELSE "right"
    BY <1>1, <1>6, <2>1 DEF Prog, FileFields
  <2>3. Fills(Piece) => file.off + Len(Piece) = BlockSize
    BY ProgrammedIs
  <2>4. BlockSize \in Nat
    BY FileAssumption
  <2> QED
    BY <2>2, <2>3, <2>4 DEF Settled
<1> QED
  BY <1>2, <1>3, <1>4, <1>5, <1>6

LEMMA SettledRelocate ==
  ASSUME FileInv, Settled, Relocate
  PROVE  Settled'
<1>1. DOMAIN file = FileFields
  BY DEF FileInv, Shape
<1>2. PICK b \in window :
        \/ UNCHANGED file
        \/ Fails
        \/ \E cur, inl : file' = [file EXCEPT !.block = b, !.writing = TRUE,
             !.inline = inl, !.cache = "right", !.cur = cur]
  <2>1. PICK old : old = IF file.inline THEN [Erased EXCEPT !.data = file.ctz.buf]
                         ELSE file.cur
    OBVIOUS
  <2>2. PICK cur, inl : /\ cur = [old EXCEPT !.data = SubSeq(@, 1, file.off)]
                        /\ inl = (file.inline /\ Top.op # "outline")
    OBVIOUS
  <2>3. PICK b \in window :
          \/ UNCHANGED file
          \/ Fails
          \/ file' = [file EXCEPT !.block = b, !.writing = TRUE,
               !.inline = @ /\ Top.op # "outline", !.cache = "right",
               !.cur = [old EXCEPT !.data = SubSeq(@, 1, file.off)]]
    BY <2>1, Zenon DEF Relocate
  <2>4. [file EXCEPT !.block = b, !.writing = TRUE,
               !.inline = @ /\ Top.op # "outline", !.cache = "right",
               !.cur = [old EXCEPT !.data = SubSeq(@, 1, file.off)]]
          = [file EXCEPT !.block = b, !.writing = TRUE,
               !.inline = inl, !.cache = "right", !.cur = cur]
    BY <1>1, <2>2 DEF FileFields
  <2> QED
    BY <2>3, <2>4
<1>3. CASE Fails
  BY <1>3, SettledFails
<1>4. CASE ~Fails
  BY <1>1, <1>2, <1>4 DEF FileFields, Settled
<1> QED
  BY <1>3, <1>4

LEMMA SettledOther ==
  ASSUME FileInv, Settled,
         \/ FlushBegin \/ Copy \/ Drain \/ Flush \/ Commit \/ CommitFull \/ Synced
         \/ CloseBegin \/ Closed \/ Move \/ Fetch \/ TruncateBegin \/ Cut \/ Grow
         \/ Restore \/ Truncated \/ Refill
  PROVE  Settled'
<1>1. DOMAIN file = FileFields
  BY DEF FileInv, Shape
<1>2. CASE FlushBegin
  BY <1>1, <1>2 DEF FlushBegin, FileFields, Settled
<1>3. CASE Copy \/ Flush \/ Synced \/ CloseBegin \/ TruncateBegin \/ Grow \/ Restore
           \/ Truncated \/ Refill
  BY <1>3 DEF Copy, Flush, Synced, CloseBegin, TruncateBegin, Grow, Restore, Truncated,
              Refill, Settled
<1>4. CASE Drain
  BY <1>1, <1>4 DEF Drain, FileFields, Settled
<1>5. CASE Commit \/ CommitFull \/ Move \/ Cut
  BY <1>1, <1>5 DEF Commit, CommitFull, Move, Cut, FileFields, Settled
<1>6. CASE Closed
  BY <1>6, SettledFresh DEF Closed
<1>7. CASE Fetch
  <2>1. \/ UNCHANGED file
        \/ file' = [file EXCEPT !.pos = @ + 1, !.reading = TRUE]
        \/ \E b, at : file' = [file EXCEPT !.pos = @ + 1, !.reading = TRUE,
                                 !.stale = @ /\ InBlock, !.block = b, !.off = at + 1]
    BY <1>7 DEF Fetch
  <2> QED
    BY <1>1, <2>1 DEF FileFields, Settled
<1> QED
  BY <1>2, <1>3, <1>4, <1>5, <1>6, <1>7

\* What cannot happen to caches as they should be, on such a device.
LEMMA MildIs ==
  ASSUME FileInv, Settled, Mild
  PROVE  /\ ~ProgFails /\ ~ExtendFails /\ ~ExtendMisread /\ ~CopyMisread
         /\ ~FetchFails /\ ~FetchStale
<1>1. Null \notin Blocks
  BY FileAssumption DEF Null
<1>2. "prog" \notin Faults /\ "read" \notin Faults
  BY DEF Mild
<1>3. ~ProgFails /\ ~ExtendFails /\ ~FetchFails
  BY <1>2 DEF ProgFails, ExtendFails, FetchFails
<1>4. ~CopyMisread /\ ~FetchStale /\ ~ExtendMisread
  BY <1>1 DEF CopyMisread, FetchStale, ExtendMisread, Settled
<1> QED
  BY <1>3, <1>4

\* The steps of the functions, where the directory fills up at the end of a
\* file only and the device's errors are mild.
LEMMA StepHolds ==
  ASSUME FileInv, Settled, Mild, ~FullElsewhere, Step
  PROVE  FileInv' /\ Settled'
<1>1. CASE WriteBegin \/ Fill \/ Check \/ WriteEnds \/ NeedsBlock \/ Extend \/ Prog
  BY <1>1, WriteBeginHolds, FillHolds, CheckHolds, WriteEndsHolds, NeedsBlockHolds,
     ExtendHolds, ProgHolds, SettledWrite
<1>2. CASE Relocate
  BY <1>2, RelocateHolds, SettledRelocate
<1>3. CASE Refill \/ FlushBegin \/ Copy \/ Drain \/ Flush
  BY <1>3, RefillHolds, FlushBeginHolds, CopyHolds, DrainHolds, FlushHolds, SettledOther
<1>4. CASE Commit \/ CommitFull \/ Synced \/ CloseBegin \/ Closed
  BY <1>4, CommitHolds, CommitFullHolds, SyncedHolds, CloseBeginHolds, ClosedHolds,
     SettledOther
<1>5. CASE Move \/ Fetch \/ TruncateBegin \/ Cut \/ Grow \/ Restore \/ Truncated
  BY <1>5, MoveHolds, FetchHolds, TruncateBeginHolds, CutHolds, GrowHolds,
     RestoreHolds, TruncatedHolds, SettledOther
<1>6. CASE NoSpace \/ EraseFails \/ CopyFails \/ FlushFails \/ CommitFails
  <2>1. Fails
    BY <1>6 DEF NoSpace, EraseFails, CopyFails, FlushFails, CommitFails
  <2> QED
    BY <1>6, <2>1, NoSpaceHolds, EraseFailsHolds, CopyFailsHolds, FlushFailsHolds,
       CommitFailsHolds, SettledFails
<1>7. ~ProgFails /\ ~ExtendFails /\ ~ExtendMisread /\ ~CopyMisread /\ ~FetchFails
        /\ ~FetchStale
  BY MildIs
<1> QED
  BY <1>1, <1>2, <1>3, <1>4, <1>5, <1>6, <1>7 DEF Step

\* Every step keeps the invariant where no block goes bad, the directory fills
\* up at the end of a file only, and the device's errors are mild.
LEMMA NextHolds ==
  ASSUME MaxBad = 0, ~FullElsewhere, Mild, FileInv, Settled, [Next]_vars
  PROVE  FileInv' /\ Settled'
<1>1. CASE API
  BY <1>1, APIHolds, SettledAPI
<1>2. CASE Step
  BY <1>2, StepHolds
<1>3. CASE AckElsewhere
  BY <1>3, AckElsewhereHolds DEF AckElsewhere, Settled
<1>4. CASE Crash
  BY <1>4, CrashHolds, SettledFresh DEF Crash
<1>5. ~Wear
  <2>1. bad = {}
    BY DEF FileInv, Shape
  <2>2. Cardinality(bad) = 0
    BY <2>1, FS_EmptySet
  <2> QED
    BY <2>2 DEF Wear
<1>6. CASE UNCHANGED vars
  BY <1>6, StutterHolds DEF vars, Settled
<1> QED
  BY <1>1, <1>2, <1>3, <1>4, <1>5, <1>6 DEF Next

\* The invariant of a file: what the handle needs is apart from what is free,
\* the writing stands where the lists say, and the caches hold what they should.
\* On a device without bad blocks, with a directory that fills up at the end of a
\* file only, and through a full device, crashes, and errors of an erase, a
\* flush, a commit, and the read and the last program of lfs_file_flush.
THEOREM FileInvCorrect ==
  ASSUME MaxBad = 0, ~FullElsewhere, Mild
  PROVE  Spec => [](FileInv /\ Settled)
<1>1. Init => FileInv /\ Settled
  <2>1. Fresh.cache = "right" /\ ~Fresh.stale /\ Fresh.misread = Null
    BY DEF Fresh
  <2>2. Init => file = Fresh
    BY DEF Init
  <2> QED
    BY <2>1, <2>2, InitHolds DEF Settled
<1>2. FileInv /\ Settled /\ [Next]_vars => FileInv' /\ Settled'
  BY NextHolds
<1> QED
  BY <1>1, <1>2, PTL DEF Spec

\* Whenever lfs_alloc may fill its bitmap, lfs_fs_traverse sees every block the
\* open file still needs: none is handed out twice.
THEOREM TraverseSeesAllCorrect ==
  ASSUME MaxBad = 0, ~FullElsewhere, Mild
  PROVE  Spec => []TraverseSeesAll
<1>1. FileInv => TraverseSeesAll
  <2> SUFFICES ASSUME FileInv, Allocating \/ (calls = <<>> /\ file.open)
               PROVE  Chain(disk, file.ctz.head, file.ctz.size) \cup
                      (IF file.writing /\ ~file.inline
                       THEN Chain(View, IF file.off = 0 THEN file.cur.prev
                                        ELSE file.block, file.pos)
                       ELSE {}) \subseteq Used
    BY DEF TraverseSeesAll
  <2>1. Chain(disk, file.ctz.head, file.ctz.size) \subseteq Used
    BY UsedHolds DEF FileInv, Old
  <2>2. ASSUME W
        PROVE  Chain(View, IF file.off = 0 THEN file.cur.prev ELSE file.block,
                     file.pos) \subseteq Used
    <3>1. ~At("write", "prog")
      BY DEF Allocating, At
    <3>2. CASE file.off = 0
      <4>1. file.pos = 0 /\ 0 \in Nat
        BY <2>2, <3>1, <3>2 DEF FileInv, Geometry
      <4>2. Chain(View, file.cur.prev, 0) = {}
        BY <4>1, ChainIs
      <4> QED
        BY <3>2, <4>1, <4>2
    <3>3. CASE file.off # 0
      BY <2>2, <3>3 DEF Used, W
    <3> QED
      BY <3>2, <3>3
  <2> QED
    BY <2>1, <2>2 DEF W
<1> QED
  BY <1>1, FileInvCorrect, PTL

\* lfs_file_flush never reads through a list the file does not have: the
\* LFS_ASSERT of lfs_bd_read is not reached.
THEOREM NeverAssertsCorrect ==
  ASSUME MaxBad = 0, ~FullElsewhere, Mild
  PROVE  Spec => []NeverAsserts
<1>1. FileInv => NeverAsserts
  BY DEF NeverAsserts, FileInv, Tops, AtFlushed, At
<1> QED
  BY <1>1, FileInvCorrect, PTL
=============================================================================
