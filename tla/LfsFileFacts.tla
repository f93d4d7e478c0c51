---------------------------- MODULE LfsFileFacts ----------------------------
(***************************************************************************)
(* What a state of an open file stands for.  The invariant Facts says it:  *)
(* the entry stands for a sequence of cells that is in the directory or in *)
(* a list of blocks (Stored); the handle for a sequence of its own         *)
(* (Meant), which is its buffer, a list, or, while it writes, what the new *)
(* list holds up to the position, over what the old list holds (Mixed).    *)
(* Holds says cell by cell what a list holds, so that a step is followed   *)
(* by the blocks it programs, and that no other block changes comes from   *)
(* LfsFileProofs.  The rest of Facts is about the functions that run:      *)
(* which positions they save, and what the inner ones write for the outer  *)
(* ones (Stacked).  The steps below are those that put nothing into the    *)
(* file: calls, flush, sync, copies; LfsFilePromise has the others.        *)
(***************************************************************************)
EXTENDS LfsFileProofs

-----------------------------------------------------------------------------
\* Lists of cells

\* Block b of d has x for cell p of a file.
Stores(d, b, p, x) ==
  /\ b \in Blocks /\ (p % BlockSize) + 1 \in DOMAIN d[b].data
  /\ d[b].data[(p % BlockSize) + 1] = x

\* h is block q of a file on d, and it and the blocks before it hold s.
Holds(d, h, q, s) ==
  \A p \in Nat : p < Len(s) =>
    Index(p) <= q /\ Stores(d, Before(d, h, q - Index(p)), p, s[p + 1])

\* lfs_ctz_find goes back by the difference of the indices.
LEMMA FindBack ==
  ASSUME NEW d, NEW h, NEW n \in Nat \ {0}, NEW p \in Nat, p < n
  PROVE  /\ Index(p) \in Nat /\ Index(n - 1) \in Nat /\ Index(p) <= Index(n - 1)
         /\ Find(d, h, n, p) = Before(d, h, Index(n - 1) - Index(p))
<1>1. n - 1 \in Nat /\ p <= n - 1
  OBVIOUS
<1>2. Index(p) \in Nat /\ Index(n - 1) \in Nat /\ Index(p) <= Index(n - 1)
  BY <1>1, IndexSplit, IndexGrows
<1>3. Before(d, h, 0) = h
  BY BeforeIs
<1>4. ~(Index(p) < Index(n - 1)) => Index(n - 1) - Index(p) = 0
  BY <1>2
<1> QED
  BY <1>2, <1>3, <1>4 DEF Find

\* What a list holds is what is read from it.
LEMMA CellsAre ==
  ASSUME NEW d, NEW h, NEW S, NEW s \in Seq(S), Holds(d, h, Index(Len(s) - 1), s)
  PROVE  Cells(d, h, Len(s)) = s
<1>1. ASSUME NEW k \in 1 .. Len(s) PROVE Cell(d, h, Len(s), k - 1) = s[k]
  <2>1. k - 1 \in Nat /\ k - 1 < Len(s) /\ Len(s) \in Nat \ {0} /\ (k - 1) + 1 = k
    OBVIOUS
  <2>2. Find(d, h, Len(s), k - 1) = Before(d, h, Index(Len(s) - 1) - Index(k - 1))
    BY <2>1, FindBack
  <2>3. Stores(d, Find(d, h, Len(s), k - 1), k - 1, s[k])
    BY <2>1, <2>2 DEF Holds
  <2> QED
    BY <2>3 DEF Cell, Stores
<1> QED
  BY <1>1 DEF Cells

\* The way back from h goes on behind the block before it.
LEMMA BeforeNext ==
  ASSUME NEW d, NEW h \in Blocks
  PROVE  \A k \in Nat : Before(d, h, k + 1) = Before(d, d[h].prev, k)
<1>1. Before(d, h, 0) = h /\ Before(d, h, 0 + 1) = Prev(d, Before(d, h, 0))
  BY BeforeIs
<1>2. Before(d, h, 1) = d[h].prev
  BY <1>1 DEF Prev
<1>3. \A k \in Nat : Before(d, Before(d, h, 1), k) = Before(d, h, 1 + k)
  BY BeforeAdd
<1> QED
  BY <1>2, <1>3

\* A list whose blocks stay as they are holds what it held.
LEMMA HoldsSame ==
  ASSUME NEW d, NEW e, NEW h, NEW q \in Int, NEW s, Holds(d, h, q, s),
         \A b \in Walk(d, h, q) : e[b] = d[b]
  PROVE  Holds(e, h, q, s)
<1> SUFFICES ASSUME NEW p \in Nat, p < Len(s)
             PROVE  /\ Index(p) <= q
                    /\ Stores(e, Before(e, h, q - Index(p)), p, s[p + 1])
  BY DEF Holds
<1>1. Index(p) <= q /\ Stores(d, Before(d, h, q - Index(p)), p, s[p + 1])
  BY DEF Holds
<1>2. Index(p) \in Nat
  BY IndexSplit
<1>3. PICK k \in Nat : k = q - Index(p) /\ k <= q /\ q \in Nat
  BY <1>1, <1>2
<1>4. \A i \in 0 .. q : Before(d, h, i) \in Blocks => Before(d, h, i) \in Walk(d, h, q)
  BY DEF Walk
<1>5. Agree(d, e, h, q)
  BY <1>4 DEF Agree
<1>6. Before(e, h, k) = Before(d, h, k)
  BY <1>3, <1>5, BeforeSame
<1>7. Before(d, h, k) \in Walk(d, h, q)
  BY <1>1, <1>3, <1>4 DEF Stores
<1> QED
  BY <1>1, <1>3, <1>6, <1>7 DEF Stores

\* It holds the beginning of what it holds.
LEMMA HoldsPart ==
  ASSUME NEW d, NEW h, NEW q, NEW S, NEW s \in Seq(S), Holds(d, h, q, s),
         NEW n \in 0 .. Len(s)
  PROVE  /\ SubSeq(s, 1, n) \in Seq(S) /\ Len(SubSeq(s, 1, n)) = n
         /\ Holds(d, h, q, SubSeq(s, 1, n))
<1>1. PICK t : t = SubSeq(s, 1, n)
  OBVIOUS
<1>2. t \in Seq(S) /\ Len(t) = n /\ \A i \in 1 .. n : t[i] = s[i]
  BY <1>1
<1>3. Holds(d, h, q, t)
  <2> SUFFICES ASSUME NEW p \in Nat, p < Len(t)
               PROVE  Index(p) <= q /\ Stores(d, Before(d, h, q - Index(p)), p, t[p + 1])
    BY DEF Holds
  <2>1. p < Len(s) /\ p + 1 \in 1 .. n
    BY <1>2
  <2> QED
    BY <1>2, <2>1 DEF Holds
<1> QED
  BY <1>1, <1>2, <1>3

\* A block further back holds what does not need the blocks behind it.
LEMMA HoldsBack ==
  ASSUME NEW d, NEW h, NEW q \in Int, NEW s, Holds(d, h, q, s), NEW j \in Nat,
         \A p \in Nat : p < Len(s) => Index(p) <= q - j
  PROVE  Holds(d, Before(d, h, j), q - j, s)
<1>0. PICK m, g : m \in Int /\ m = q - j /\ g = Before(d, h, j)
  OBVIOUS
<1> SUFFICES ASSUME NEW p \in Nat, p < Len(s)
             PROVE  Index(p) <= m /\ Stores(d, Before(d, g, m - Index(p)), p, s[p + 1])
  BY <1>0 DEF Holds
<1>1. Index(p) <= q /\ Stores(d, Before(d, h, q - Index(p)), p, s[p + 1])
  BY DEF Holds
<1>2. Index(p) \in Nat /\ Index(p) <= q - j
  BY IndexSplit
<1>3. PICK k \in Nat : k = m - Index(p) /\ j + k = q - Index(p)
  BY <1>0, <1>2
<1>4. Before(d, g, k) = Before(d, h, j + k)
  BY <1>0, BeforeAdd
<1> QED
  BY <1>0, <1>1, <1>2, <1>3, <1>4

\* So does a block that is put before the list.
LEMMA HoldsNext ==
  ASSUME NEW d, NEW e, NEW h, NEW q \in Int, NEW s, Holds(d, h, q, s),
         NEW b \in Blocks, e[b].prev = h, \A c \in Walk(d, h, q) : e[c] = d[c]
  PROVE  Holds(e, b, q + 1, s)
<1>1. Holds(e, h, q, s)
  BY HoldsSame
<1>0. PICK m \in Int : m = q + 1
  OBVIOUS
<1> SUFFICES ASSUME NEW p \in Nat, p < Len(s)
             PROVE  Index(p) <= m /\ Stores(e, Before(e, b, m - Index(p)), p, s[p + 1])
  BY <1>0 DEF Holds
<1>2. Index(p) <= q /\ Stores(e, Before(e, h, q - Index(p)), p, s[p + 1])
  BY <1>1 DEF Holds
<1>3. Index(p) \in Nat
  BY IndexSplit
<1>4. PICK k \in Nat : k = q - Index(p) /\ k + 1 = m - Index(p)
  BY <1>0, <1>2, <1>3
<1>5. Before(e, b, k + 1) = Before(e, h, k)
  BY BeforeNext
<1> QED
  BY <1>0, <1>2, <1>3, <1>4, <1>5

\* The first cell of block q.
Start(q) == q * BlockSize

\* Block by block the first cells are numbers.
LEMMA StartIs ==
  ASSUME NEW q \in Int
  PROVE  /\ Start(q) \in Int
         /\ q \in Nat => Start(q) \in Nat
         /\ Start(q + 1) = Start(q) + BlockSize
         /\ Start(0) = 0
<1>1. PICK n \in Nat \ {0} : n = BlockSize
  BY FileAssumption
<1>2. q * n \in Int /\ (q + 1) * n = q * n + n /\ 0 * n = 0
  OBVIOUS
<1>3. q \in Nat => q * n \in Nat
  OBVIOUS
<1> QED
  BY <1>1, <1>2, <1>3 DEF Start

\* A position in block q is a place in it.
LEMMA PlaceIs ==
  ASSUME NEW p \in Nat, NEW q \in Nat, NEW t \in 0 .. BlockSize - 1, p = Start(q) + t
  PROVE  Index(p) = q /\ p % BlockSize = t
<1>1. Index(p) = q
  BY IndexIs DEF Start
<1>2. PICK r \in 0 .. BlockSize - 1 : p = Start(Index(p)) + r /\ p % BlockSize = r
  BY IndexSplit DEF Start
<1>3. Start(q) \in Nat
  BY StartIs
<1>4. t = r
  BY <1>1, <1>2, <1>3, FileAssumption
<1> QED
  BY <1>1, <1>2, <1>4

\* Every position has its place.
LEMMA PlaceOf ==
  ASSUME NEW p \in Nat
  PROVE  /\ Index(p) \in Nat
         /\ \E t \in 0 .. BlockSize - 1 : p = Start(Index(p)) + t /\ p % BlockSize = t
BY IndexSplit DEF Start

\* Later blocks start later.
LEMMA StartGrows ==
  ASSUME NEW i \in Nat, NEW q \in Nat, i < q
  PROVE  Start(i) + BlockSize <= Start(q)
<1>1. PICK j : j = q - i - 1
  OBVIOUS
<1>2. j \in Nat /\ q = i + 1 + j
  BY <1>1
<1>3. PICK n \in Nat \ {0} : n = BlockSize
  BY FileAssumption
<1>4. PICK x \in Int, y \in Int, z \in Int : x = i * n /\ y = j * n /\ z = q * n
  BY <1>2
<1>5. y >= 0
  BY <1>2, <1>4
<1>6. z = x + n + y
  BY <1>2, <1>4
<1>7. x + n <= z
  BY <1>4, <1>5, <1>6
<1> QED
  BY <1>3, <1>4, <1>7 DEF Start

\* What comes before what block q holds is in an earlier block, or in it.
LEMMA PlaceBelow ==
  ASSUME NEW p \in Nat, NEW q \in Nat, NEW r \in 0 .. BlockSize, p < Start(q) + r
  PROVE  \/ Index(p) < q
         \/ Index(p) = q /\ p % BlockSize < r
<1>1. PICK i \in Nat, t \in 0 .. BlockSize - 1 :
        i = Index(p) /\ p = Start(i) + t /\ p % BlockSize = t
  BY PlaceOf
<1>2. Start(i) \in Nat /\ Start(q) \in Nat
  BY StartIs
<1>3. CASE i = q
  BY <1>1, <1>2, <1>3, FileAssumption
<1>4. CASE i > q
  <2>1. Start(q) + BlockSize <= Start(i)
    BY <1>4, StartGrows
  <2> QED
    BY <1>1, <1>2, <2>1, FileAssumption
<1> QED
  BY <1>1, <1>3, <1>4

\* Block b takes the place of block h, with what that holds up to r, and x.
Follows(d, e, h, b, r, x) ==
  /\ e[b].prev = d[h].prev
  /\ e[b].data = SubSeq(d[h].data, 1, r) \o x

\* What is in a block when x has been put behind its first r cells.
LEMMA JoinIs ==
  ASSUME NEW S, NEW c \in Seq(S), NEW x \in Seq(S), NEW r \in 0 .. Len(c),
         NEW t, t = SubSeq(c, 1, r) \o x
  PROVE  /\ t \in Seq(S) /\ Len(t) = r + Len(x) /\ DOMAIN t = 1 .. r + Len(x)
         /\ \A i \in 1 .. r : t[i] = c[i]
         /\ \A i \in 1 .. Len(x) : t[r + i] = x[i]
<1>1. PICK u : u = SubSeq(c, 1, r)
  OBVIOUS
<1>2. u \in Seq(S) /\ Len(u) = r /\ \A i \in 1 .. r : u[i] = c[i]
  BY <1>1
<1>3. t = u \o x
  BY <1>1
<1> QED
  BY <1>2, <1>3

\* What two sequences have when they are joined.
LEMMA ConcatIs ==
  ASSUME NEW S, NEW s \in Seq(S), NEW x \in Seq(S), NEW y, y = s \o x
  PROVE  /\ y \in Seq(S) /\ Len(y) = Len(s) + Len(x)
         /\ \A i \in 1 .. Len(s) : y[i] = s[i]
         /\ \A i \in 1 .. Len(x) : y[Len(s) + i] = x[i]
OBVIOUS

\* A list goes on in its last block, or in a copy of it.
LEMMA HoldsGrow ==
  ASSUME NEW d, NEW e, NEW h \in Blocks, NEW b \in Blocks, NEW q \in Nat,
         NEW r \in 0 .. BlockSize, NEW S, NEW s \in Seq(S), NEW x \in Seq(S),
         Holds(d, h, q, s), Len(s) = Start(q) + r, r + Len(x) <= BlockSize,
         NEW D, d[h].data \in Seq(D), x \in Seq(D), r <= Len(d[h].data),
         Follows(d, e, h, b, r, x),
         \A c \in Walk(d, d[h].prev, q - 1) : e[c] = d[c]
  PROVE  Holds(e, b, q, s \o x)
<1>1. PICK y : y = s \o x
  OBVIOUS
<1>2. /\ y \in Seq(S) /\ Len(y) = Len(s) + Len(x)
      /\ \A i \in 1 .. Len(s) : y[i] = s[i]
      /\ \A i \in 1 .. Len(x) : y[Len(s) + i] = x[i]
  <2>1. s \in Seq(S) /\ x \in Seq(S)
    OBVIOUS
  <2> QED
    BY ONLY <1>1, <2>1, ConcatIs
<1>3. PICK c : c = e[b].data
  OBVIOUS
<1>4. /\ DOMAIN c = 1 .. r + Len(x)
      /\ \A i \in 1 .. r : c[i] = d[h].data[i]
      /\ \A i \in 1 .. Len(x) : c[r + i] = x[i]
  BY <1>3, JoinIs DEF Follows
<1> SUFFICES ASSUME NEW p \in Nat, p < Len(y)
             PROVE  Index(p) <= q /\ Stores(e, Before(e, b, q - Index(p)), p, y[p + 1])
  BY <1>1 DEF Holds
<1>5. Start(q) \in Nat
  BY StartIs
<1>6. Before(e, b, 0) = b /\ Index(p) \in Nat
  BY BeforeIs, IndexSplit
<1>7. CASE p < Len(s)
  <2>1. Index(p) <= q /\ Stores(d, Before(d, h, q - Index(p)), p, s[p + 1]) /\ y[p + 1] = s[p + 1]
    BY <1>2, <1>7 DEF Holds
  <2>2. Index(p) < q \/ (Index(p) = q /\ p % BlockSize < r)
    BY <1>7, PlaceBelow
  <2>3. CASE Index(p) = q /\ p % BlockSize < r
    <3>1. Stores(d, h, p, s[p + 1])
      <4>1. Before(d, h, 0) = h /\ q - Index(p) = 0
        BY <2>3, BeforeIs
      <4> QED
        BY <2>1, <4>1
    <3>2. PICK t \in 0 .. BlockSize - 1 : t = p % BlockSize
      BY IndexSplit
    <3>3. t + 1 \in 1 .. r
      BY <2>3, <3>2
    <3>4. Stores(e, b, p, s[p + 1])
      <4>1. t + 1 \in 1 .. r + Len(x) /\ (p % BlockSize) + 1 = t + 1
        BY <3>2, <3>3
      <4>2. d[h].data[t + 1] = s[p + 1]
        BY <3>1, <3>2 DEF Stores
      <4>3. t + 1 \in DOMAIN c /\ c[t + 1] = s[p + 1]
        BY <1>4, <3>3, <4>1, <4>2
      <4> QED
        BY <1>3, <4>1, <4>3 DEF Stores
    <3>5. q - Index(p) = 0
      BY <2>3
    <3> QED
      BY <1>6, <2>1, <3>4, <3>5
  <2>4. CASE Index(p) < q
    <3>1. PICK k \in Nat : k + 1 = q - Index(p) /\ k <= q - 1 /\ q - 1 \in Nat
      <4>1. PICK i \in Nat : i = Index(p) /\ i < q
        BY <1>6, <2>4
      <4>2. q - i - 1 \in Nat /\ (q - i - 1) + 1 = q - i /\ q - i - 1 <= q - 1 /\ q - 1 \in Nat
        BY <4>1
      <4> QED
        BY <4>1, <4>2
    <3>2. Before(d, h, k + 1) = Before(d, d[h].prev, k)
      BY BeforeNext
    <3>3. Before(e, b, k + 1) = Before(e, d[h].prev, k)
      BY BeforeNext DEF Follows
    <3>4. \A i \in 0 .. q - 1 : Before(d, d[h].prev, i) \in Blocks =>
             Before(d, d[h].prev, i) \in Walk(d, d[h].prev, q - 1)
      BY DEF Walk
    <3>5. Agree(d, e, d[h].prev, q - 1)
      BY <3>4 DEF Agree
    <3>6. Before(e, d[h].prev, k) = Before(d, d[h].prev, k)
      BY <3>1, <3>5, BeforeSame
    <3>7. Before(d, d[h].prev, k) \in Walk(d, d[h].prev, q - 1)
      BY <2>1, <3>1, <3>2, <3>4 DEF Stores
    <3>8. Stores(e, Before(e, b, k + 1), p, s[p + 1])
      BY <2>1, <3>1, <3>2, <3>3, <3>6, <3>7 DEF Stores
    <3> QED
      BY <2>1, <3>1, <3>8
  <2> QED
    BY <2>2, <2>3, <2>4
<1>8. CASE p >= Len(s)
  <2>1. PICK t \in Nat : p = Start(q) + t /\ r <= t /\ t < r + Len(x)
    <3>1. PICK t \in Int : t = p - Start(q)
      BY <1>5
    <3>2. p = Start(q) + t /\ Len(y) = Start(q) + r + Len(x) /\ Len(x) \in Nat
      BY <1>2, <1>5, <3>1
    <3>3. r <= t /\ t < r + Len(x)
      BY <1>5, <1>8, <3>2
    <3> QED
      BY <3>2, <3>3
  <2>2. t \in 0 .. BlockSize - 1 /\ p = Start(q) + t
    BY <1>5, <2>1, FileAssumption
  <2>3. Index(p) = q /\ p % BlockSize = t
    BY <2>2, PlaceIs
  <2>4. PICK i \in 1 .. Len(x) : t + 1 = r + i /\ p + 1 = Len(s) + i
    BY <1>5, <2>1
  <2>5. c[t + 1] = x[i] /\ y[p + 1] = x[i] /\ t + 1 \in DOMAIN c
    BY <1>2, <1>4, <2>1, <2>4
  <2>6. Stores(e, b, p, y[p + 1])
    BY <1>3, <2>3, <2>5 DEF Stores
  <2>7. q - Index(p) = 0
    BY <2>3
  <2> QED
    BY <1>6, <2>3, <2>6, <2>7
<1> QED
  BY <1>2, <1>7, <1>8

-----------------------------------------------------------------------------
\* What the handle stands for

\* h is the head of a list of blocks of d that holds s.
List(d, h, s) == h \in Blocks /\ Holds(d, h, Index(Len(s) - 1), s)

\* The entry e stands for s on d.
Stored(s, e, d) ==
  /\ s \in Seq(Data) /\ Len(s) = e.size
  /\ e.head = Inline => e.size <= Len(e.buf) /\ s = SubSeq(e.buf, 1, e.size)
  /\ e.head # Inline => List(d, e.head, s)

\* The list z a handle has, if it has one, holds o on d.
OldIs(o, z, d) ==
  /\ o \in Seq(Data)
  /\ z.head = Inline => o = <<>>
  /\ z.head # Inline => Len(o) = z.size /\ List(d, z.head, o)

\* The p cells up to offset r of block b are w on v.
NewIs(w, v, b, p, r) ==
  /\ w \in Seq(Data) /\ Len(w) = p
  /\ \E q \in Nat : /\ p = Start(q) + r /\ Holds(v, b, q, w)
                    /\ b \notin Walk(v, v[b].prev, q - 1)

\* w, and what o has after that.
Over(w, o) == w \o SubSeq(o, Len(w) + 1, Len(o))

\* A handle that writes to blocks stands for c.
Mixed(c, z, d, v, b, p, r) ==
  \E w, o : NewIs(w, v, b, p, r) /\ OldIs(o, z, d) /\ c = Over(w, o)

\* The entry stands for s, the handle for c.
Meant(s, c) ==
  /\ Stored(s, entry, disk) /\ c \in Seq(Data)
  /\ ~file.open => file = Fresh /\ c = s
  /\ file.open /\ file.inline =>
       Size <= Len(file.ctz.buf) /\ c = SubSeq(file.ctz.buf, 1, Size)
  /\ file.open /\ ~file.inline /\ ~file.writing => OldIs(c, file.ctz, disk)
  /\ file.open /\ W =>
       Mixed(c, file.ctz, disk, View, file.block, file.pos, file.off)

\* The state stands for something.
Meaning == \E s, c : Meant(s, c)

\* A list is read from its head.
LEMMA ListIs ==
  ASSUME NEW d, NEW h, NEW s \in Seq(Data), List(d, h, s)
  PROVE  Cells(d, h, Len(s)) = s
BY CellsAre DEF List

\* A list that ends inside block q is read from that block.
LEMMA NewestIs ==
  ASSUME NEW d, NEW h, NEW w \in Seq(Data), NEW q \in Nat, NEW r \in 0 .. BlockSize,
         Len(w) = Start(q) + r, Holds(d, h, q, w), h \in Blocks
  PROVE  /\ r # 0 => List(d, h, w)
         /\ Cells(d, IF r = 0 THEN d[h].prev ELSE h, Len(w)) = w
<1>1. Start(q) \in Nat /\ BlockSize \in Nat \ {0}
  BY StartIs, FileAssumption
<1>2. CASE r # 0
  <2>1. Len(w) - 1 \in Nat /\ r - 1 \in 0 .. BlockSize - 1 /\ Len(w) - 1 = Start(q) + (r - 1)
    BY <1>1, <1>2
  <2>2. Index(Len(w) - 1) = q
    BY <2>1, PlaceIs
  <2> QED
    BY <1>2, <2>2, ListIs DEF List
<1>3. CASE r = 0 /\ Len(w) # 0
  <2>1. q # 0
    BY <1>3, StartIs
  <2>2. PICK j \in Nat : q = j + 1
    BY <2>1
  <2>3. Start(j) \in Nat /\ Len(w) = Start(j) + BlockSize
    <3>1. Start(j) \in Nat /\ Start(j + 1) = Start(j) + BlockSize
      <4>1. j \in Int /\ j \in Nat
        OBVIOUS
      <4> QED
        BY ONLY <4>1, StartIs
    <3> QED
      BY <1>1, <1>3, <2>2, <3>1
  <2>4. Len(w) - 1 \in Nat /\ BlockSize - 1 \in 0 .. BlockSize - 1
        /\ Len(w) - 1 = Start(j) + (BlockSize - 1)
    BY <1>1, <2>3
  <2>5. Index(Len(w) - 1) = j
    BY <2>4, PlaceIs
  <2>6. \A p \in Nat : p < Len(w) => Index(p) <= q - 1
    <3> SUFFICES ASSUME NEW p \in Nat, p < Len(w) PROVE Index(p) <= j
      BY <2>2
    <3>1. p <= Len(w) - 1
      BY <2>4
    <3> QED
      BY <2>4, <2>5, <3>1, IndexGrows
  <2>7. q - 1 = j
    BY <2>2
  <2>8. Holds(d, Before(d, h, 1), j, w)
    BY <2>6, <2>7, HoldsBack
  <2>9. Before(d, h, 1) = d[h].prev
    <3>1. Before(d, h, 0) = h /\ Before(d, h, 0 + 1) = Prev(d, Before(d, h, 0))
      BY BeforeIs
    <3> QED
      BY <3>1 DEF Prev
  <2> QED
    BY <1>3, <2>5, <2>8, <2>9, CellsAre
<1>4. CASE r = 0 /\ Len(w) = 0
  <2>1. w = <<>>
    BY <1>4
  <2> QED
    BY <1>4, <2>1 DEF Cells
<1> QED
  BY <1>2, <1>3, <1>4

\* The entry is read as what it stands for.
LEMMA StoredIs ==
  \A s : Stored(s, entry, disk) => Contents(entry) = s
<1> SUFFICES ASSUME NEW s, Stored(s, entry, disk) PROVE Contents(entry) = s
  OBVIOUS
<1>1. CASE entry.head = Inline
  BY <1>1 DEF Stored, Contents
<1>2. CASE entry.head # Inline
  <2>1. s \in Seq(Data) /\ Len(s) = entry.size /\ List(disk, entry.head, s)
    BY <1>2 DEF Stored
  <2>2. Cells(disk, entry.head, entry.size) = s
    BY <2>1, ListIs
  <2> QED
    BY <1>2, <2>2 DEF Contents
<1> QED
  BY <1>1, <1>2

\* So is the list the handle started from.
LEMMA OldRead ==
  \A o : OldIs(o, file.ctz, disk) /\ file.ctz.head # Inline => Contents(file.ctz) = o
<1> SUFFICES ASSUME NEW o, OldIs(o, file.ctz, disk), file.ctz.head # Inline PROVE Contents(file.ctz) = o
  OBVIOUS
<1>1. o \in Seq(Data) /\ Len(o) = file.ctz.size /\ List(disk, file.ctz.head, o)
  BY DEF OldIs
<1>2. Cells(disk, file.ctz.head, file.ctz.size) = o
  BY <1>1, ListIs
<1> QED
  BY <1>2 DEF Contents

\* And what has been written.
LEMMA NewRead ==
  \A w : FileInv /\ W /\ NewIs(w, View, file.block, file.pos, file.off) => Written = w
<1> SUFFICES ASSUME NEW w, FileInv, W, NewIs(w, View, file.block, file.pos, file.off) PROVE Written = w
  OBVIOUS
<1>1. Shape /\ Geometry
  BY DEF FileInv
<1>2. file.block \in Blocks /\ file.off <= BlockSize /\ file.off \in Nat
  BY <1>1 DEF Geometry, Shape
<1>3. View[file.block] = file.cur
  BY <1>1, <1>2, ViewIs DEF W
<1>4. PICK q \in Nat : file.pos = Start(q) + file.off /\ Holds(View, file.block, q, w)
  BY DEF NewIs
<1>5. w \in Seq(Data) /\ Len(w) = file.pos /\ file.off \in 0 .. BlockSize
  BY <1>2, FileAssumption DEF NewIs
<1>6. PICK r \in 0 .. BlockSize : r = file.off
  BY <1>5
<1>7. Cells(View, IF r = 0 THEN View[file.block].prev ELSE file.block, Len(w)) = w
  <2>1. PICK h, v : h \in Blocks /\ h = file.block /\ v = View
    BY <1>2
  <2>2. Holds(v, h, q, w) /\ Len(w) = Start(q) + r /\ w \in Seq(Data)
    BY <1>4, <1>5, <1>6, <2>1
  <2>3. Cells(v, IF r = 0 THEN v[h].prev ELSE h, Len(w)) = w
    BY <2>1, <2>2, NewestIs
  <2> QED
    BY <2>1, <2>3
<1> QED
  BY <1>3, <1>5, <1>6, <1>7 DEF Written

\* Contents are read as what the state means.
Readable == \A s, c : Meant(s, c) => Contents(entry) = s /\ Content = c

\* What the state means is what is read from it.
LEMMA MeantIs ==
  FileInv => Readable
<1> SUFFICES ASSUME FileInv, NEW s, NEW c, Meant(s, c)
             PROVE  Contents(entry) = s /\ Content = c
  BY DEF Readable
<1>1. Contents(entry) = s
  BY StoredIs DEF Meant
<1>2. CASE ~file.open
  BY <1>1, <1>2 DEF Meant, Content
<1>3. CASE file.open /\ file.inline
  <2>1. c = SubSeq(file.ctz.buf, 1, Size)
    BY <1>3 DEF Meant
  <2>2. Content = SubSeq(file.ctz.buf, 1, Size)
    BY <1>3 DEF Content
  <2> QED
    BY <1>1, <2>1, <2>2
<1>4. CASE file.open /\ ~file.inline /\ ~file.writing
  <2>1. OldIs(c, file.ctz, disk) /\ file.ctz.head # Inline
    BY <1>4 DEF Meant, FileInv, Pending
  <2>2. Contents(file.ctz) = c
    BY <2>1, OldRead
  <2>3. Content = Contents(file.ctz)
    BY <1>4 DEF Content
  <2> QED
    BY <1>1, <2>2, <2>3
<1>5. CASE file.open /\ W
  <2>1. PICK w, o : /\ NewIs(w, View, file.block, file.pos, file.off)
                   /\ OldIs(o, file.ctz, disk) /\ c = w \o SubSeq(o, file.pos + 1, Len(o))
    BY <1>5 DEF Meant, Mixed, Over, NewIs
  <2>2. Written = w
    BY <1>5, <2>1, NewRead
  <2>3. CASE file.ctz.head = Inline
    <3>1. o = <<>> /\ file.pos \in Nat /\ w \in Seq(Data)
      BY <2>1, <2>3 DEF OldIs, FileInv, Shape, NewIs
    <3>2. c = w
      <4>1. SubSeq(o, file.pos + 1, Len(o)) = <<>>
        BY <3>1
      <4> QED
        BY <2>1, <3>1, <4>1
    <3>3. Content = Written \o <<>>
      BY <1>5, <2>3 DEF Content, W
    <3>4. w \o <<>> = w
      BY <3>1
    <3> QED
      BY <1>1, <2>2, <3>2, <3>3, <3>4
  <2>4. CASE file.ctz.head # Inline
    <3>1. Contents(file.ctz) = o /\ Len(o) = file.ctz.size
      BY <2>1, <2>4, OldRead DEF OldIs
    <3>2. Content = Written \o SubSeq(Contents(file.ctz), file.pos + 1, file.ctz.size)
      BY <1>5, <2>4 DEF Content, W
    <3> QED
      BY <1>1, <2>1, <2>2, <3>1, <3>2
  <2> QED
    BY <2>3, <2>4
<1>6. file.inline \/ ~file.writing \/ W
  BY DEF W
<1> QED
  BY <1>1, <1>2, <1>3, <1>4, <1>5, <1>6

\* How long they are.
LEMMA LengthIs ==
  \A s, c : FileInv /\ Meant(s, c) /\ file.open =>
    /\ Len(c) = IF W /\ file.ctz.head = Inline THEN file.pos ELSE Size
    /\ ~Mid => Len(c) = Size
    /\ file.writing => file.pos <= Len(c)
    /\ ~Mid => file.ctz.size <= Len(c)
<1> SUFFICES ASSUME NEW s, NEW c, FileInv, Meant(s, c), file.open
             PROVE  /\ Len(c) = IF W /\ file.ctz.head = Inline THEN file.pos ELSE Size
                    /\ ~Mid => Len(c) = Size
                    /\ file.writing => file.pos <= Len(c)
                    /\ ~Mid => file.ctz.size <= Len(c)
  OBVIOUS
<1>1. Shape /\ Pending /\ file.pos \in Nat /\ file.ctz.size \in Nat
  BY DEF FileInv, Shape
<1>2. /\ Size \in Nat /\ file.ctz.size <= Size
      /\ file.writing => file.pos <= Size
      /\ ~file.writing => Size = file.ctz.size
  BY <1>1, SizeIs
<1>3. /\ file.writing /\ file.pos >= file.ctz.size => Size = file.pos
      /\ file.writing /\ file.pos < file.ctz.size => Size = file.ctz.size
  BY <1>1 DEF Size, Larger
<1>4. CASE file.inline
  <2>1. Len(c) = Size
    BY <1>2, <1>4 DEF Meant
  <2> QED
    BY <1>2, <1>4, <2>1 DEF W
<1>5. CASE ~file.inline /\ ~file.writing
  <2>1. Len(c) = Size
    BY <1>1, <1>2, <1>5 DEF Meant, OldIs, Pending
  <2> QED
    BY <1>2, <1>5, <2>1 DEF W
<1>6. CASE W
  <2>1. PICK w, o : /\ NewIs(w, View, file.block, file.pos, file.off)
                   /\ OldIs(o, file.ctz, disk) /\ c = w \o SubSeq(o, file.pos + 1, Len(o))
    BY <1>6 DEF Meant, Mixed, Over, NewIs
  <2>2. w \in Seq(Data) /\ o \in Seq(Data) /\ Len(w) = file.pos /\ Len(o) \in Nat
    BY <2>1 DEF NewIs, OldIs
  <2>3. Len(c) = IF Len(o) > file.pos THEN Len(o) ELSE file.pos
    <3>1. PICK u : u = SubSeq(o, file.pos + 1, Len(o))
      OBVIOUS
    <3>2. u \in Seq(Data) /\ Len(u) = IF Len(o) > file.pos THEN Len(o) - file.pos ELSE 0
      BY <1>1, <2>2, <3>1
    <3>3. c = w \o u
      BY <2>1, <3>1
    <3>4. Len(c) = Len(w) + Len(u)
      <4>1. w \in Seq(Data) /\ u \in Seq(Data)
        BY <2>2, <3>2
      <4> QED
        BY ONLY <3>3, <4>1, ConcatIs
    <3> QED
      BY <1>1, <2>2, <3>2, <3>4
  <2>4. file.writing /\ ~file.inline
    BY <1>6 DEF W
  <2>5. CASE file.ctz.head = Inline
    <3>1. Len(o) = 0
      BY <2>1, <2>5 DEF OldIs
    <3>2. Len(c) = file.pos
      BY <1>1, <2>3, <3>1
    <3>3. ~Mid => file.pos >= file.ctz.size
      BY <1>1, <2>4, <2>5 DEF Pending
    <3> QED
      BY <1>1, <1>3, <1>6, <2>4, <2>5, <3>2, <3>3
  <2>6. CASE file.ctz.head # Inline
    <3>1. Len(o) = file.ctz.size
      BY <2>1, <2>6 DEF OldIs
    <3>2. Len(c) = Size
      BY <1>1, <1>3, <2>3, <2>4, <3>1
    <3> QED
      BY <1>2, <1>6, <2>4, <2>6, <3>2
  <2> QED
    BY <2>5, <2>6
<1> QED
  BY <1>4, <1>5, <1>6 DEF W

-----------------------------------------------------------------------------
\* The invariant

\* The functions of the API.
Outermost == {"write", "read", "seek", "sync", "close", "truncate"}

\* The data are data and the sizes are sizes; a block that is being written has
\* been programmed up to the offset.
Typed ==
  /\ entry.size \in Sizes /\ entry.buf \in Seq(Data)
  /\ \A b \in Blocks :
       /\ disk[b].prev \in Blocks \cup {Null}
       /\ disk[b].data \in Seq(Data) /\ Len(disk[b].data) <= BlockSize
  /\ file.cur.prev \in Blocks \cup {Null}
  /\ file.cur.data \in Seq(Data) /\ Len(file.cur.data) <= BlockSize
  /\ W => Len(file.cur.data) = file.off
  /\ file.ctz.size \in Sizes /\ file.ctz.buf \in Seq(Data)
  /\ file.pos \in Sizes /\ file.off \in 0 .. BlockSize
  /\ file.inline /\ file.writing => file.off = file.pos
  /\ flight \subseteq Blocks /\ ops \in 0 .. MaxOps /\ file.erred \in BOOLEAN

\* A function that is running, while the contents are l long.
FrameOK(f, l) ==
  /\ f.n \in Sizes /\ f.data \in Seq(Data) /\ f.back \in -1 .. MaxSize
  /\ f.op = "fill" => f.back # -1
  /\ f.back # -1 => \/ f.op = "fill"
                    \/ f.op \in {"flush", "truncate"} /\ f.at # "begin"
  /\ f.op = "truncate" => f.n \in Cuts
  /\ f.op = "truncate" /\ f.at \in {"back", "restored"} => l = f.n
  /\ f.op = "truncate" /\ f.at = "grow" => l <= f.n

\* A function g and the one that has called it, while the handle is at p; if z,
\* the old list goes on there, with x.
Fits(f, g, p, l, z, x) ==
  /\ g.op = "write" /\ f.op \in {"fill", "truncate"} =>
       /\ g.data \in {<<>>, <<0>>} /\ p = l
       /\ p + Len(g.data) <= IF f.op = "fill" THEN f.back ELSE f.n
  /\ g.op = "write" /\ f.op = "flush" /\ g.data # <<>> => z /\ g.data = <<x>>
  /\ g.op = "fill" => p = l /\ p <= g.back /\ g.back + Len(f.data) <= MaxSize
  /\ g.op = "outline" /\ f.op = "write" => p + Len(f.data) <= MaxSize
  /\ g.op = "seek" /\ f.at = "grow" => g.n = l
  /\ g.op = "seek" /\ f.at = "restored" => g.n = f.back

\* A stack of such functions.
Stacked(c, p, l, z, x) ==
  /\ \A k \in DOMAIN c : FrameOK(c[k], l)
  /\ \A k \in DOMAIN c : k > 1 => Fits(c[k - 1], c[k], p, l, z, x)
  /\ \A k \in DOMAIN c : c[k].op = "fill" => k = 2
  /\ c # <<>> => c[1].op \in Outermost

\* Whether the old list goes on at the position, and with what.
More == file.pos < file.ctz.size /\ file.ctz.head # Inline
Coming == Cell(disk, file.ctz.head, file.ctz.size, file.pos)

\* The functions that run.
Nest == Stacked(calls, file.pos, Len(Content), More, Coming)

\* The innermost function.
Ends ==
  calls # <<>> =>
    /\ Running(Top) => file.pos + Len(Top.data) <= MaxSize
    /\ Top.op = "write" /\ Top.at = "extend" /\ ~file.writing /\ file.pos # 0 =>
         file.block \in Blocks /\ file.cur = disk[file.block]
    /\ Top.op = "truncate" /\ Top.at = "grow" => file.pos = Len(Content)
    /\ Top.op = "truncate" /\ Top.at = "restored" => file.pos = Top.back
    /\ Top.op = "close" /\ Top.at = "flushed" =>
         file.erred \/ Content = Contents(entry)
    /\ file.reading => \/ Top.at = "begin" /\ Top.op # "outline"
                       \/ Top.op = "truncate" /\ Top.at \in {"grow", "back"}

\* Where a handle that reads is in its list.
Place ==
  ~file.inline /\ file.off < BlockSize /\ file.pos < file.ctz.size =>
    /\ file.block = Find(disk, file.ctz.head, file.ctz.size, file.pos)
    /\ file.off = file.pos % BlockSize

\* A handle that reads is not written to, and knows where it is.
Reading ==
  file.reading =>
    /\ ~file.writing
    /\ \A k \in DOMAIN calls : ~Running(calls[k])
    /\ calls = <<>> \/ calls[1].op # "truncate" => Place

\* What has not been changed is what is stored.
Clean == file.open /\ ~file.dirty /\ ~file.writing => Content = Contents(entry)

\* What holds beside FileInv: together they are inductive.
Facts == Meaning /\ Typed /\ Nest /\ Ends /\ Reading /\ Clean

-----------------------------------------------------------------------------
\* The position and the task of the outermost function

\* The functions with a position to go back to.
Saved(c) == {k \in DOMAIN c : c[k].back # -1}

\* The position and the task of the outermost of the functions of c.
PositionOf(c, p) ==
  IF Saved(c) = {} THEN p
  ELSE c[CHOOSE k \in Saved(c) : \A l \in Saved(c) : k <= l].back

TaskOf(c) ==
  IF c = <<>> THEN [op |-> "none", n |-> 0]
  ELSE [op |-> c[1].op,
        n |-> IF c[1].op = "write" THEN Len(c[1].data) ELSE c[1].n]

\* The position and the task the promise speaks of.
LEMMA PositionTask ==
  Position = PositionOf(calls, file.pos) /\ Task = TaskOf(calls)
BY DEF Position, PositionOf, Saved, Task, TaskOf

\* It is the position of the first of them.
LEMMA SavedFirst ==
  ASSUME NEW c, NEW p, NEW k \in Saved(c), Saved(c) \subseteq Nat,
         \A l \in Saved(c) : k <= l
  PROVE  PositionOf(c, p) = c[k].back
<1>1. PICK i : i = CHOOSE j \in Saved(c) : \A l \in Saved(c) : j <= l
  OBVIOUS
<1>2. i \in Saved(c) /\ \A l \in Saved(c) : i <= l
  BY <1>1
<1>3. i = k
  <2>1. i <= k /\ k <= i /\ i \in Nat /\ k \in Nat
    BY <1>2
  <2> QED
    BY <2>1
<1> QED
  BY <1>1, <1>3 DEF PositionOf

\* Where no function has a position to go back to, it is the handle's.
LEMMA SavedNone ==
  ASSUME NEW c, NEW p, \A k \in DOMAIN c : c[k].back = -1
  PROVE  PositionOf(c, p) = p
BY DEF PositionOf, Saved

\* There is a first one.
LEMMA SavedSome ==
  ASSUME NEW c, IsStack(c), Saved(c) # {}
  PROVE  \E k \in Saved(c) : \A l \in Saved(c) : k <= l
<1>1. Saved(c) \subseteq Nat
  BY StackIs DEF Saved
<1> QED
  BY <1>1, Least

\* Stacks with the same positions saved have the same position to go back to.
LEMMA SavedSame ==
  ASSUME NEW c, NEW e, NEW p, NEW q, IsStack(c), Saved(e) = Saved(c),
         \A k \in Saved(c) : e[k].back = c[k].back,
         p = q \/ Saved(c) # {}
  PROVE  PositionOf(e, q) = PositionOf(c, p)
<1>1. CASE Saved(c) = {}
  BY <1>1 DEF PositionOf
<1>2. CASE Saved(c) # {}
  <2>1. PICK k \in Saved(c) : \A l \in Saved(c) : k <= l
    BY <1>2, SavedSome
  <2>2. Saved(c) \subseteq Nat
    BY StackIs DEF Saved
  <2>3. PositionOf(c, p) = c[k].back
    BY <2>1, <2>2, SavedFirst
  <2>4. PositionOf(e, q) = e[k].back
    BY <2>1, <2>2, SavedFirst
  <2> QED
    BY <2>3, <2>4
<1> QED
  BY <1>1, <1>2

\* So do stacks of which one saves its position behind the others.
LEMMA SavedMore ==
  ASSUME NEW c, NEW e, NEW p, NEW q, IsStack(c), NEW n \in Nat,
         \A k \in Saved(c) : k < n,
         Saved(e) = Saved(c) \cup {n}, e[n].back = p,
         \A k \in Saved(c) : e[k].back = c[k].back
  PROVE  PositionOf(e, q) = PositionOf(c, p)
<1>1. Saved(c) \subseteq Nat /\ Saved(e) \subseteq Nat
  BY StackIs DEF Saved
<1>2. CASE Saved(c) = {}
  <2>1. PositionOf(c, p) = p
    BY <1>2 DEF PositionOf
  <2>2. n \in Saved(e) /\ \A l \in Saved(e) : n <= l
    BY <1>2
  <2>3. PositionOf(e, q) = e[n].back
    BY <1>1, <2>2, SavedFirst
  <2> QED
    BY <2>1, <2>3
<1>3. CASE Saved(c) # {}
  <2>1. PICK k \in Saved(c) : \A l \in Saved(c) : k <= l
    BY <1>3, SavedSome
  <2>2. k \in Saved(e) /\ \A l \in Saved(e) : k <= l
    BY <1>1, <2>1
  <2>3. PositionOf(c, p) = c[k].back
    BY <1>1, <2>1, SavedFirst
  <2>4. PositionOf(e, q) = e[k].back
    BY <1>1, <2>2, SavedFirst
  <2> QED
    BY <2>3, <2>4
<1> QED
  BY <1>2, <1>3

-----------------------------------------------------------------------------
\* Stacks

\* f stands where g stood, and has the same arguments.
Alike(f, g) == f.op = g.op /\ f.n = g.n /\ f.data = g.data /\ f.back = g.back

\* e is c with f for its top.
Turn(c, f, e) ==
  /\ Len(e) = Len(c) /\ DOMAIN e = DOMAIN c /\ e # <<>> /\ Last(e) = f
  /\ \A k \in DOMAIN c : e[k] = IF k = Len(c) THEN f ELSE c[k]

\* e is c with f for its top, and g upon it.
Push(c, f, g, e) ==
  /\ Len(e) = Len(c) + 1 /\ DOMAIN e = DOMAIN c \cup {Len(c) + 1} /\ e # <<>>
  /\ Last(e) = g /\ e[Len(c) + 1] = g
  /\ \A k \in DOMAIN c : e[k] = IF k = Len(c) THEN f ELSE c[k]

\* A stack whose top is replaced.
LEMMA TurnShape ==
  ASSUME NEW c, IsStack(c), c # <<>>, NEW f, NEW e, e = [c EXCEPT ![Len(c)] = f]
  PROVE  Turn(c, f, e)
<1>1. PICK S : c \in Seq(S)
  BY DEF IsStack
<1>2. Len(c) \in Nat /\ Len(c) # 0 /\ DOMAIN c = 1 .. Len(c) /\ Len(c) \in DOMAIN c
  BY StackIs
<1>3. e \in Seq(S \cup {f}) /\ Len(e) = Len(c) /\ DOMAIN e = DOMAIN c
  BY <1>1, <1>2
<1>4. \A k \in DOMAIN c : e[k] = IF k = Len(c) THEN f ELSE c[k]
  BY <1>2
<1>5. e # <<>> /\ Last(e) = e[Len(e)]
  BY <1>2, <1>3 DEF Last
<1> QED
  BY <1>2, <1>3, <1>4, <1>5 DEF Turn

\* What is appended comes last.
LEMMA AppendIs ==
  ASSUME NEW T, NEW d \in Seq(T), NEW g \in T
  PROVE  /\ Len(Append(d, g)) = Len(d) + 1 /\ DOMAIN Append(d, g) = 1 .. Len(d) + 1
         /\ Append(d, g)[Len(d) + 1] = g
         /\ \A k \in 1 .. Len(d) : Append(d, g)[k] = d[k]
         /\ Append(d, g) # <<>> /\ Last(Append(d, g)) = g
<1> DEFINE e == Append(d, g)
<1>1. e \in Seq(T) /\ Len(e) = Len(d) + 1 /\ Len(d) \in Nat
  OBVIOUS
<1>2. e[Len(d) + 1] = g /\ \A k \in 1 .. Len(d) : e[k] = d[k]
  OBVIOUS
<1>3. DOMAIN e = 1 .. Len(d) + 1 /\ e # <<>>
  BY <1>1
<1>4. Last(e) = g
  BY <1>1, <1>2 DEF Last
<1> QED
  BY <1>1, <1>2, <1>3, <1>4

\* A stack whose top is replaced, and called upon.
LEMMA PushShape ==
  ASSUME NEW c, IsStack(c), c # <<>>, NEW f, NEW g, NEW e,
         e = Append([c EXCEPT ![Len(c)] = f], g)
  PROVE  Push(c, f, g, e)
<1>1. PICK S : c \in Seq(S)
  BY DEF IsStack
<1>2. PICK d : d = [c EXCEPT ![Len(c)] = f]
  OBVIOUS
<1>3. Turn(c, f, d)
  BY <1>2, TurnShape
<1>4. Len(c) \in Nat /\ Len(c) # 0 /\ DOMAIN c = 1 .. Len(c) /\ Len(c) \in DOMAIN c
  BY StackIs
<1>5. PICK T : d \in Seq(T) /\ g \in T
  <2>1. d \in Seq(S \cup {f} \cup {g})
    BY <1>1, <1>2, <1>4
  <2> QED
    BY <2>1
<1>6. e = Append(d, g)
  BY <1>2
<1>7. /\ Len(e) = Len(d) + 1 /\ DOMAIN e = 1 .. Len(d) + 1
      /\ e[Len(d) + 1] = g /\ \A k \in 1 .. Len(d) : e[k] = d[k]
      /\ e # <<>> /\ Last(e) = g
  <2>1. /\ Len(Append(d, g)) = Len(d) + 1 /\ DOMAIN Append(d, g) = 1 .. Len(d) + 1
        /\ Append(d, g)[Len(d) + 1] = g
        /\ \A k \in 1 .. Len(d) : Append(d, g)[k] = d[k]
        /\ Append(d, g) # <<>> /\ Last(Append(d, g)) = g
    BY ONLY <1>5, AppendIs
  <2> QED
    BY ONLY <1>6, <2>1
<1>8. Len(d) = Len(c) /\ \A k \in DOMAIN c : d[k] = IF k = Len(c) THEN f ELSE c[k]
  BY <1>3 DEF Turn
<1>9. DOMAIN e = DOMAIN c \cup {Len(c) + 1}
  <2>1. PICK n \in Nat : n = Len(c)
    BY <1>4
  <2>2. 1 .. n + 1 = (1 .. n) \cup {n + 1}
    OBVIOUS
  <2>3. DOMAIN e = 1 .. n + 1 /\ DOMAIN c = 1 .. n
    BY <1>4, <1>7, <1>8, <2>1
  <2> QED
    BY <2>1, <2>2, <2>3
<1>10. \A k \in DOMAIN c : e[k] = IF k = Len(c) THEN f ELSE c[k]
  BY <1>4, <1>7, <1>8
<1> QED
  BY <1>7, <1>8, <1>9, <1>10 DEF Push

\* What a function fits depends on its arguments only.
LEMMA FitsAlike ==
  ASSUME NEW b, NEW f, NEW g, NEW p, NEW l, NEW z, NEW x, Alike(f, g),
         Fits(b, g, p, l, z, x)
  PROVE  Fits(b, f, p, l, z, x)
BY DEF Alike, Fits

\* The top of a stack goes on.
LEMMA TurnStacked ==
  ASSUME NEW c, IsStack(c), c # <<>>, NEW f, NEW e, Turn(c, f, e),
         NEW p, NEW l, NEW z, NEW x, Stacked(c, p, l, z, x),
         f.op = Last(c).op, FrameOK(f, l),
         Len(c) > 1 => Fits(c[Len(c) - 1], f, p, l, z, x)
  PROVE  Stacked(e, p, l, z, x)
<1>1. Len(c) \in Nat /\ Len(c) # 0 /\ DOMAIN c = 1 .. Len(c) /\ Last(c) = c[Len(c)]
  BY StackIs
<1>2. DOMAIN e = DOMAIN c /\ \A k \in DOMAIN c : e[k] = IF k = Len(c) THEN f ELSE c[k]
  BY DEF Turn
<1>3. \A k \in DOMAIN e : FrameOK(e[k], l) /\ e[k].op = c[k].op
  BY <1>1, <1>2 DEF Stacked
<1>4. ASSUME NEW k \in DOMAIN e, k > 1 PROVE Fits(e[k - 1], e[k], p, l, z, x)
  <2>1. k - 1 \in DOMAIN c /\ e[k - 1] = c[k - 1] /\ k \in DOMAIN c
    BY <1>1, <1>2, <1>4
  <2>2. Fits(c[k - 1], c[k], p, l, z, x)
    BY <1>4, <2>1 DEF Stacked
  <2>3. CASE k = Len(c)
    BY <1>2, <1>4, <2>1, <2>3
  <2>4. CASE k # Len(c)
    BY <1>2, <2>1, <2>2, <2>4
  <2> QED
    BY <2>3, <2>4
<1>5. e[1].op = c[1].op /\ c[1].op \in Outermost
  BY <1>1, <1>2, <1>3 DEF Stacked
<1>6. \A k \in DOMAIN e : e[k].op = "fill" => k = 2
  BY <1>2, <1>3 DEF Stacked
<1> QED
  BY <1>3, <1>4, <1>5, <1>6 DEF Stacked

\* The top of a stack calls another function.
LEMMA PushStacked ==
  ASSUME NEW c, IsStack(c), c # <<>>, NEW f, NEW g, NEW e, Push(c, f, g, e),
         NEW p, NEW l, NEW z, NEW x, Stacked(c, p, l, z, x),
         Alike(f, Last(c)), FrameOK(f, l), FrameOK(g, l),
         Fits(f, g, p, l, z, x), g.op = "fill" => Len(c) = 1
  PROVE  Stacked(e, p, l, z, x)
<1>1. Len(c) \in Nat /\ Len(c) # 0 /\ DOMAIN c = 1 .. Len(c) /\ Last(c) = c[Len(c)]
  BY StackIs
<1>2. /\ DOMAIN e = DOMAIN c \cup {Len(c) + 1} /\ e[Len(c) + 1] = g
      /\ \A k \in DOMAIN c : e[k] = IF k = Len(c) THEN f ELSE c[k]
  BY DEF Push
<1>3. \A k \in DOMAIN e : FrameOK(e[k], l)
  BY <1>1, <1>2 DEF Stacked
<1>4. ASSUME NEW k \in DOMAIN e, k > 1 PROVE Fits(e[k - 1], e[k], p, l, z, x)
  <2>1. CASE k = Len(c) + 1
    <3>1. k - 1 = Len(c) /\ Len(c) \in DOMAIN c
      BY <1>1, <2>1
    <3>2. e[k] = g /\ e[k - 1] = f
      BY <1>2, <2>1, <3>1
    <3> QED
      BY <3>2
  <2>2. CASE k \in DOMAIN c
    <3>1. k - 1 \in DOMAIN c /\ e[k - 1] = c[k - 1]
      BY <1>1, <1>2, <1>4, <2>2
    <3>2. Fits(c[k - 1], c[k], p, l, z, x)
      BY <1>4, <2>2 DEF Stacked
    <3>3. CASE k = Len(c)
      <4>1. e[k] = f /\ c[k] = Last(c)
        BY <1>1, <1>2, <2>2, <3>3
      <4> QED
        BY <3>1, <3>2, <4>1, FitsAlike
    <3>4. CASE k # Len(c)
      BY <1>2, <2>2, <3>1, <3>2, <3>4
    <3> QED
      BY <3>3, <3>4
  <2> QED
    BY <1>2, <2>1, <2>2
<1>5. 1 \in DOMAIN c /\ e[1].op = c[1].op /\ c[1].op \in Outermost
  BY <1>1, <1>2 DEF Stacked, Alike
<1>6. \A k \in DOMAIN e : e[k].op = "fill" => k = 2
  BY <1>1, <1>2 DEF Stacked, Alike
<1> QED
  BY <1>3, <1>4, <1>5, <1>6 DEF Stacked

\* The top of a stack returns.
LEMMA PopStacked ==
  ASSUME NEW c, IsStack(c), c # <<>>, NEW e, Pops(c, e),
         NEW p, NEW l, NEW z, NEW x, Stacked(c, p, l, z, x)
  PROVE  Stacked(e, p, l, z, x)
<1>1. Len(c) \in Nat /\ Len(c) # 0 /\ DOMAIN c = 1 .. Len(c)
  BY StackIs
<1>2. DOMAIN e = DOMAIN c \ {Len(c)} /\ \A k \in DOMAIN e : e[k] = c[k] /\ k \in DOMAIN c
  BY DEF Pops
<1>3. \A k \in DOMAIN e : k > 1 => k - 1 \in DOMAIN e
  BY <1>1, <1>2
<1>4. e # <<>> => 1 \in DOMAIN e /\ c # <<>>
  <2>1. IsStack(e)
    BY DEF Pops
  <2>2. e # <<>> => Len(e) \in Nat /\ Len(e) # 0 /\ DOMAIN e = 1 .. Len(e)
    BY <2>1, StackIs
  <2> QED
    BY <2>2
<1> QED
  BY <1>2, <1>3, <1>4 DEF Stacked

-----------------------------------------------------------------------------
\* What the outermost function sees of the others

\* e works on what c works on, at the same position.
SameTask(c, e) ==
  /\ Saved(e) = Saved(c) /\ \A k \in Saved(c) : e[k].back = c[k].back
  /\ TaskOf(e) = TaskOf(c)

\* The outermost function sees nothing of a function that goes on.
LEMMA TurnTask ==
  ASSUME NEW c, IsStack(c), c # <<>>, NEW f, NEW e, Turn(c, f, e),
         f.op = Last(c).op, f.back = Last(c).back,
         (f.n = Last(c).n /\ f.data = Last(c).data) \/ Len(c) > 1
  PROVE  SameTask(c, e)
<1>1. Len(c) \in Nat /\ Len(c) # 0 /\ DOMAIN c = 1 .. Len(c) /\ Last(c) = c[Len(c)]
  BY StackIs
<1>2. DOMAIN e = DOMAIN c /\ \A k \in DOMAIN c : e[k] = IF k = Len(c) THEN f ELSE c[k]
  BY DEF Turn
<1>3. \A k \in DOMAIN c : e[k].back = c[k].back
  BY <1>1, <1>2
<1>4. 1 \in DOMAIN c /\ e # <<>>
  BY <1>1 DEF Turn
<1>5. e[1].op = c[1].op /\ e[1].n = c[1].n /\ e[1].data = c[1].data
  BY <1>1, <1>2, <1>4
<1> QED
  BY <1>2, <1>3, <1>4, <1>5 DEF SameTask, Saved, TaskOf

\* It sees nothing of one that is called but a position that is saved.
LEMMA PushTask ==
  ASSUME NEW c, IsStack(c), c # <<>>, NEW f, NEW g, NEW e, Push(c, f, g, e),
         Alike(f, Last(c))
  PROVE  /\ TaskOf(e) = TaskOf(c)
         /\ Saved(e) = Saved(c) \cup (IF g.back = -1 THEN {} ELSE {Len(c) + 1})
         /\ \A k \in Saved(c) : e[k].back = c[k].back
         /\ e[Len(c) + 1].back = g.back
         /\ g.back = -1 => SameTask(c, e)
<1>1. Len(c) \in Nat /\ Len(c) # 0 /\ DOMAIN c = 1 .. Len(c) /\ Last(c) = c[Len(c)]
  BY StackIs
<1>2. /\ DOMAIN e = DOMAIN c \cup {Len(c) + 1} /\ e[Len(c) + 1] = g /\ e # <<>>
      /\ \A k \in DOMAIN c : e[k] = IF k = Len(c) THEN f ELSE c[k]
  BY DEF Push
<1>3. \A k \in DOMAIN c : e[k].back = c[k].back
  BY <1>1, <1>2 DEF Alike
<1>4. 1 \in DOMAIN c /\ e[1].op = c[1].op /\ e[1].n = c[1].n /\ e[1].data = c[1].data
  BY <1>1, <1>2 DEF Alike
<1>5. TaskOf(e) = TaskOf(c)
  BY <1>2, <1>4 DEF TaskOf
<1>6. Saved(e) = Saved(c) \cup (IF g.back = -1 THEN {} ELSE {Len(c) + 1})
  BY <1>2, <1>3 DEF Saved
<1>7. \A k \in Saved(c) : e[k].back = c[k].back
  BY <1>3 DEF Saved
<1> QED
  BY <1>2, <1>5, <1>6, <1>7 DEF SameTask

\* It sees nothing of one that returns but a position that is gone back to.
LEMMA PopTask ==
  ASSUME NEW c, IsStack(c), c # <<>>, NEW e, Pops(c, e)
  PROVE  /\ e # <<>> => TaskOf(e) = TaskOf(c)
         /\ Saved(c) = Saved(e) \cup (IF Last(c).back = -1 THEN {} ELSE {Len(c)})
         /\ \A k \in Saved(e) : e[k].back = c[k].back /\ k < Len(c)
         /\ e # <<>> /\ Last(c).back = -1 => SameTask(c, e)
<1>1. Len(c) \in Nat /\ Len(c) # 0 /\ DOMAIN c = 1 .. Len(c) /\ Last(c) = c[Len(c)]
  BY StackIs
<1>2. DOMAIN e = DOMAIN c \ {Len(c)} /\ \A k \in DOMAIN e : e[k] = c[k] /\ k \in DOMAIN c
  BY DEF Pops
<1>3. e # <<>> => 1 \in DOMAIN e /\ c # <<>>
  <2>1. IsStack(e)
    BY DEF Pops
  <2>2. e # <<>> => Len(e) \in Nat /\ Len(e) # 0 /\ DOMAIN e = 1 .. Len(e)
    BY <2>1, StackIs
  <2> QED
    BY <2>2
<1>4. e # <<>> => TaskOf(e) = TaskOf(c)
  BY <1>2, <1>3 DEF TaskOf
<1>5. Saved(c) = Saved(e) \cup (IF Last(c).back = -1 THEN {} ELSE {Len(c)})
  BY <1>1, <1>2 DEF Saved
<1>6. \A k \in Saved(e) : e[k].back = c[k].back /\ k < Len(c)
  BY <1>1, <1>2 DEF Saved
<1> QED
  BY <1>4, <1>5, <1>6 DEF SameTask

-----------------------------------------------------------------------------
\* Steps that leave the contents alone

\* A step of the promise.
Promised == [Promise!Next]_(Promise!vars)

\* What the contents are made of.
Substance == <<entry, disk, file.open, file.ctz, file.inline, file.writing,
               file.pos, file.off, file.block, file.cur>>

\* The position and the task after a step.
LEMMA NextTask ==
  Position' = PositionOf(calls', file'.pos) /\ Task' = TaskOf(calls')
<1>1. (Position = PositionOf(calls, file.pos) /\ Task = TaskOf(calls))'
  BY PositionTask, PTL
<1> QED
  BY <1>1

\* A step that shows in nothing the promise speaks of is none of it.
LEMMA Stays ==
  ASSUME Contents(entry)' = Contents(entry), Content' = Content,
         PositionOf(calls', file'.pos) = PositionOf(calls, file.pos),
         TaskOf(calls') = TaskOf(calls), file'.erred = file.erred, ret' = ret
  PROVE  Promised
BY PositionTask, NextTask DEF Promised, Promise!vars

\* Nor is one that leaves the contents and the outermost function alone.
LEMMA Stutters ==
  ASSUME IsStack(calls), SameTask(calls, calls'),
         Contents(entry)' = Contents(entry), Content' = Content,
         file'.pos = file.pos \/ Saved(calls) # {},
         file'.erred = file.erred, ret' = ret
  PROVE  Promised
<1>1. PositionOf(calls', file'.pos) = PositionOf(calls, file.pos)
  BY SavedSame DEF SameTask
<1>2. TaskOf(calls') = TaskOf(calls)
  BY DEF SameTask
<1> QED
  BY <1>1, <1>2, Stays

\* The contents depend on their substance.
LEMMA Unmoved ==
  ASSUME Facts, UNCHANGED Substance, file.open \/ file' = file
  PROVE  /\ Size' = Size /\ View' = View /\ W' = W /\ More' = More /\ Coming' = Coming
         /\ Contents(entry)' = Contents(entry) /\ Content' = Content
         /\ Meaning'
<1>1. /\ entry' = entry /\ disk' = disk /\ file'.open = file.open
      /\ file'.ctz = file.ctz /\ file'.inline = file.inline
      /\ file'.writing = file.writing /\ file'.pos = file.pos
      /\ file'.off = file.off /\ file'.block = file.block /\ file'.cur = file.cur
  BY DEF Substance
<1>2. Size' = Size /\ View' = View /\ W' = W /\ More' = More /\ Coming' = Coming
  BY <1>1 DEF Size, View, W, More, Coming
<1>3. Contents(entry)' = Contents(entry) /\ Contents(file.ctz)' = Contents(file.ctz)
  BY <1>1 DEF Contents
<1>4. Written' = Written
  BY <1>1, <1>2 DEF Written
<1>5. Content' = Content
  BY <1>1, <1>2, <1>3, <1>4 DEF Content
<1>6. PICK s, c : Meant(s, c)
  BY DEF Facts, Meaning
<1>7. Meant(s, c)'
  BY <1>1, <1>2, <1>6 DEF Meant
<1> QED
  BY <1>2, <1>3, <1>5, <1>7 DEF Meaning

\* What the contents are made of keeps its types.
LEMMA UnmovedTypes ==
  ASSUME Typed, UNCHANGED Substance, flight' \subseteq Blocks, ops' \in 0 .. MaxOps,
         file'.erred \in BOOLEAN
  PROVE  Typed'
BY DEF Typed, Substance, W

\* The invariant after such a step.
LEMMA UnmovedFacts ==
  ASSUME Facts, UNCHANGED Substance, file.open \/ file' = file,
         flight' \subseteq Blocks, ops' \in 0 .. MaxOps, file'.erred \in BOOLEAN,
         Stacked(calls', file.pos, Len(Content), More, Coming), Ends',
         ~file'.dirty => ~file.dirty,
         file'.reading =>
           /\ file.reading /\ \A k \in DOMAIN calls' : ~Running(calls'[k])
           /\ calls' # <<>> => calls # <<>> /\ calls'[1].op = calls[1].op
           /\ calls' = <<>> => calls = <<>>
  PROVE  Facts'
<1>1. /\ W' = W /\ More' = More /\ Coming' = Coming /\ Contents(entry)' = Contents(entry)
      /\ Content' = Content /\ Meaning'
  BY Unmoved
<1>2. Typed'
  BY UnmovedTypes DEF Facts
<1>3. Nest'
  BY <1>1 DEF Nest, Substance
<1>4. Place' <=> Place
  BY DEF Place, Substance
<1>5. Reading'
  BY <1>4 DEF Facts, Reading, Substance
<1>6. Clean'
  BY <1>1 DEF Facts, Clean, Substance
<1> QED
  BY <1>1, <1>2, <1>3, <1>5, <1>6 DEF Facts

\* The innermost function, and the one that has called it.
LEMMA FactsTop ==
  ASSUME FileInv, Facts, calls # <<>>
  PROVE  /\ IsStack(calls) /\ Len(calls) \in DOMAIN calls /\ Top = calls[Len(calls)]
         /\ Len(calls) \in Nat /\ Framed(Top) /\ file.open
         /\ FrameOK(Top, Len(Content)) /\ Last(calls) = Top
         /\ Len(calls) > 1 => /\ Len(calls) - 1 \in DOMAIN calls
                              /\ Fits(calls[Len(calls) - 1], Top, file.pos, Len(Content),
                                      More, Coming)
                              /\ Called(calls[Len(calls) - 1], Top)
                              /\ FrameOK(calls[Len(calls) - 1], Len(Content))
                              /\ Framed(calls[Len(calls) - 1])
         /\ Stacked(calls, file.pos, Len(Content), More, Coming)
         /\ flight \subseteq Blocks /\ ops \in 0 .. MaxOps /\ file.erred \in BOOLEAN
<1>1. IsStack(calls) /\ Stacked(calls, file.pos, Len(Content), More, Coming)
  BY DEF FileInv, Facts, Nest
<1>2. /\ Len(calls) \in DOMAIN calls /\ Top = calls[Len(calls)] /\ Len(calls) \in Nat
      /\ Framed(Top) /\ file.open
  BY TopIs
<1>3. DOMAIN calls = 1 .. Len(calls)
  BY <1>1, StackIs
<1>4. Len(calls) > 1 => Len(calls) - 1 \in DOMAIN calls
  BY <1>2, <1>3
<1> QED
  BY <1>1, <1>2, <1>4 DEF Facts, Typed, Stacked, Top, IsStack

\* A function that is no write calls another one.
LEMMA QuietEnters ==
  ASSUME FileInv, FileInv', Facts, calls # <<>>,
         UNCHANGED <<entry, disk, file, flight, ops, ret>>,
         NEW f, Alike(f, Top), f.op # "write", FrameOK(f, Len(Content)),
         NEW g, FrameOK(g, Len(Content)), g.back = -1, g.op # "fill", g.at = "begin",
         g.op # "outline",
         Fits(f, g, file.pos, Len(Content), More, Coming),
         calls' = Append([calls EXCEPT ![Len(calls)] = f], g)
  PROVE  Facts' /\ Promised
<1>1. /\ IsStack(calls) /\ Last(calls) = Top
      /\ Stacked(calls, file.pos, Len(Content), More, Coming)
      /\ flight \subseteq Blocks /\ ops \in 0 .. MaxOps /\ file.erred \in BOOLEAN
      /\ Len(calls) \in Nat /\ DOMAIN calls = 1 .. Len(calls) /\ Len(calls) # 0
  BY FactsTop, StackIs
<1>2. Push(calls, f, g, calls')
  BY <1>1, PushShape
<1>3. Stacked(calls', file.pos, Len(Content), More, Coming)
  BY <1>1, <1>2, PushStacked
<1>4. SameTask(calls, calls')
  BY <1>1, <1>2, PushTask
<1>5. calls' # <<>> /\ Top' = g
  BY <1>2 DEF Push, Top
<1>6. Ends'
  BY <1>5 DEF Ends, Running
<1>7. UNCHANGED Substance
  BY DEF Substance
<1>8. \A k \in DOMAIN calls' : Running(calls'[k]) => \E j \in DOMAIN calls : Running(calls[j])
  <2> SUFFICES ASSUME NEW k \in DOMAIN calls', Running(calls'[k])
               PROVE  \E j \in DOMAIN calls : Running(calls[j])
    OBVIOUS
  <2>1. ~Running(g) /\ ~Running(f)
    BY DEF Running, Alike
  <2>2. k \in DOMAIN calls /\ k # Len(calls)
    BY <1>2, <2>1 DEF Push
  <2> QED
    BY <1>2, <2>2 DEF Push
<1>9. calls'[1].op = calls[1].op
  <2>1. 1 \in DOMAIN calls /\ Top = calls[Len(calls)]
    BY <1>1, FactsTop
  <2>2. calls'[1] = IF 1 = Len(calls) THEN f ELSE calls[1]
    BY <1>2, <2>1 DEF Push
  <2> QED
    BY <2>1, <2>2 DEF Alike
<1>10. file.reading => \A k \in DOMAIN calls' : ~Running(calls'[k])
  BY <1>8 DEF Facts, Reading
<1>11. Facts'
  BY <1>1, <1>3, <1>5, <1>6, <1>7, <1>9, <1>10, UnmovedFacts
<1>12. Contents(entry)' = Contents(entry) /\ Content' = Content
  BY <1>7, Unmoved
<1>13. Promised
  BY <1>1, <1>4, <1>12, Stutters
<1> QED
  BY <1>11, <1>13

\* A function goes on.
LEMMA QuietTurns ==
  ASSUME FileInv, FileInv', Facts, calls # <<>>,
         UNCHANGED <<entry, disk, file, ops, ret>>, flight' \subseteq Blocks,
         NEW f, f.op = Top.op, FrameOK(f, Len(Content)),
         Len(calls) > 1 => Fits(calls[Len(calls) - 1], f, file.pos, Len(Content), More, Coming),
         Running(f) => Running(Top),
         calls' = [calls EXCEPT ![Len(calls)] = f],
         Top' = f => Ends'
  PROVE  Facts' /\ (SameTask(calls, calls') => Promised)
<1>1. /\ IsStack(calls) /\ Last(calls) = Top
      /\ Stacked(calls, file.pos, Len(Content), More, Coming)
      /\ flight \subseteq Blocks /\ ops \in 0 .. MaxOps /\ file.erred \in BOOLEAN
      /\ Len(calls) \in Nat /\ DOMAIN calls = 1 .. Len(calls) /\ Len(calls) # 0
      /\ Top = calls[Len(calls)]
  BY FactsTop, StackIs
<1>2. Turn(calls, f, calls')
  BY <1>1, TurnShape
<1>3. Stacked(calls', file.pos, Len(Content), More, Coming)
  BY <1>1, <1>2, TurnStacked
<1>5. calls' # <<>> /\ Top' = f
  BY <1>2 DEF Turn, Top
<1>7. UNCHANGED Substance
  BY DEF Substance
<1>8. \A k \in DOMAIN calls' : Running(calls'[k]) => Running(calls[k]) /\ k \in DOMAIN calls
  BY <1>1, <1>2 DEF Turn
<1>9. calls'[1].op = calls[1].op
  BY <1>1, <1>2 DEF Turn
<1>10. file.reading => \A k \in DOMAIN calls' : ~Running(calls'[k])
  BY <1>8 DEF Facts, Reading
<1>11. Facts'
  BY <1>1, <1>3, <1>5, <1>7, <1>9, <1>10, UnmovedFacts
<1>12. Contents(entry)' = Contents(entry) /\ Content' = Content
  BY <1>7, Unmoved
<1>13. SameTask(calls, calls') => Promised
  BY <1>1, <1>12, Stutters
<1> QED
  BY <1>11, <1>13

\* A function returns.
LEMMA QuietReturns ==
  ASSUME FileInv, FileInv', Facts, calls # <<>>, UNCHANGED Substance,
         UNCHANGED <<flight, ops>>, file'.dirty = file.dirty, ~file'.reading,
         file'.erred \in BOOLEAN,
         calls' = Front(calls), Ends'
  PROVE  /\ Facts' /\ Contents(entry)' = Contents(entry) /\ Content' = Content
         /\ Pops(calls, calls')
         /\ SameTask(calls, calls') /\ file'.erred = file.erred /\ ret' = ret => Promised
<1>1. /\ IsStack(calls) /\ file.open
      /\ Stacked(calls, file.pos, Len(Content), More, Coming)
      /\ flight \subseteq Blocks /\ ops \in 0 .. MaxOps
  BY FactsTop
<1>2. Pops(calls, calls')
  BY <1>1, Popped
<1>3. Stacked(calls', file.pos, Len(Content), More, Coming)
  BY <1>1, <1>2, PopStacked
<1>4. Facts'
  BY <1>1, <1>3, UnmovedFacts
<1>5. Contents(entry)' = Contents(entry) /\ Content' = Content /\ file'.pos = file.pos
  BY <1>1, Unmoved DEF Substance
<1>6. SameTask(calls, calls') /\ file'.erred = file.erred /\ ret' = ret => Promised
  BY <1>1, <1>5, Stutters
<1> QED
  BY <1>2, <1>4, <1>5, <1>6

\* What the state means after a step is what is read then.
LEMMA NextMeant ==
  ASSUME FileInv', NEW r, NEW b, Meant(r, b)'
  PROVE  Contents(entry)' = r /\ Content' = b /\ Meaning'
<1>1. (FileInv => Readable)'
  BY MeantIs, PTL
<1>2. Meaning'
  BY DEF Meaning
<1> QED
  BY <1>1, <1>2 DEF Readable

\* What the state means is what is read.
LEMMA FactsMeant ==
  ASSUME FileInv, Facts
  PROVE  /\ Meant(Contents(entry), Content)
         /\ Contents(entry) \in Seq(Data) /\ Content \in Seq(Data)
         /\ Len(Contents(entry)) = entry.size
         /\ file.open => /\ Len(Content) = IF W /\ file.ctz.head = Inline THEN file.pos ELSE Size
                         /\ ~Mid => Len(Content) = Size /\ file.ctz.size <= Len(Content)
                         /\ file.writing => file.pos <= Len(Content)
<1>1. PICK s, c : Meant(s, c)
  BY DEF Facts, Meaning
<1>2. Contents(entry) = s /\ Content = c
  BY <1>1, MeantIs DEF Readable
<1>3. s \in Seq(Data) /\ c \in Seq(Data) /\ Len(s) = entry.size
  BY <1>1 DEF Meant, Stored
<1> QED
  BY <1>1, <1>2, <1>3, LengthIs

\* A function that is no write goes on at a and calls g.
LEMMA EntersAt ==
  ASSUME FileInv, FileInv', Facts, calls # <<>>,
         UNCHANGED <<entry, disk, file, flight, ops>>, Top.op # "write",
         NEW a, NEW g, Enter(a, g), FrameOK(g, Len(Content)), g.back = -1,
         g.op # "fill", g.at = "begin", g.op # "outline",
         \A f : Alike(f, Top) /\ f.at = a =>
           FrameOK(f, Len(Content)) /\ Fits(f, g, file.pos, Len(Content), More, Coming)
  PROVE  Facts' /\ Promised
<1>1. PICK f : f = [Top EXCEPT !.at = a]
  OBVIOUS
<1>2. Framed(Top) /\ IsStack(calls) /\ Top = calls[Len(calls)] /\ Len(calls) \in DOMAIN calls
  BY FactsTop
<1>3. Alike(f, Top) /\ f.at = a
  BY <1>1, <1>2 DEF Alike, Framed
<1>4. calls' = Append([calls EXCEPT ![Len(calls)] = f], g) /\ ret' = ret
  BY <1>1, <1>2 DEF Enter, GoTo
<1> QED
  BY <1>3, <1>4, QuietEnters DEF Alike

\* A function goes on at a.
LEMMA TurnsAt ==
  ASSUME FileInv, FileInv', Facts, calls # <<>>,
         UNCHANGED <<entry, disk, file, ops>>, flight' \subseteq Blocks,
         NEW a, Continue(a), Top.op = "write" => Top.at # "begin",
         \A f : Alike(f, Top) /\ f.at = a => FrameOK(f, Len(Content)),
         Alike(Top', Top) /\ Top'.at = a => Ends'
  PROVE  Facts' /\ Promised
<1>1. PICK f : f = [Top EXCEPT !.at = a]
  OBVIOUS
<1>2. /\ Framed(Top) /\ IsStack(calls) /\ Top = calls[Len(calls)] /\ Len(calls) \in DOMAIN calls
      /\ Last(calls) = Top
      /\ Len(calls) > 1 => Fits(calls[Len(calls) - 1], Top, file.pos, Len(Content), More, Coming)
  BY FactsTop
<1>3. Alike(f, Top) /\ f.at = a
  BY <1>1, <1>2 DEF Alike, Framed
<1>4. calls' = [calls EXCEPT ![Len(calls)] = f] /\ ret' = ret
  BY <1>1, <1>2 DEF Continue, GoTo
<1>5. Turn(calls, f, calls')
  BY <1>2, <1>4, TurnShape
<1>6. SameTask(calls, calls')
  BY <1>2, <1>3, <1>5, TurnTask DEF Alike
<1>7. Len(calls) > 1 => Fits(calls[Len(calls) - 1], f, file.pos, Len(Content), More, Coming)
  BY <1>2, <1>3, FitsAlike
<1>8. Top' = f => Ends'
  BY <1>3
<1>9. f.op = Top.op /\ FrameOK(f, Len(Content)) /\ (Running(f) => Running(Top))
  BY <1>3 DEF Alike, Running
<1> QED
  BY <1>4, <1>6, <1>7, <1>8, <1>9, QuietTurns

\* What comes next in the old list is data.
LEMMA ComingIs ==
  ASSUME Typed
  PROVE  Coming \in Data
<1>1. \A b \in Blocks : disk[b].data \in Seq(Data)
  BY DEF Typed
<1>2. \A b \in Blocks : \A i \in DOMAIN disk[b].data : disk[b].data[i] \in Data
  BY <1>1
<1>3. Lost \in Data
  BY DEF Data
<1> QED
  BY <1>2, <1>3 DEF Coming, Cell

\* lfs_file_close calls lfs_file_sync.
LEMMA CloseBeginKeeps ==
  ASSUME FileInv, FileInv', Facts, CloseBegin
  PROVE  Facts' /\ Promised
<1>1. /\ calls # <<>> /\ Top.op = "close" /\ Enter("flushed", Frame("sync"))
      /\ UNCHANGED <<entry, disk, file, flight, ops>>
  BY DEF CloseBegin, At, Kept, alloc
<1>2. FrameOK(Top, Len(Content))
  BY <1>1, FactsTop
<1>3. PICK g : g = Frame("sync")
  OBVIOUS
<1>4. /\ g.op = "sync" /\ g.at = "begin" /\ g.back = -1 /\ g.n = 0 /\ g.data = <<>>
  BY <1>3 DEF Frame
<1>5. FrameOK(g, Len(Content))
  BY <1>4, FileAssumption DEF FrameOK, Sizes
<1>6. ASSUME NEW f, Alike(f, Top), f.at = "flushed"
      PROVE  FrameOK(f, Len(Content)) /\ Fits(f, g, file.pos, Len(Content), More, Coming)
  BY <1>1, <1>2, <1>4, <1>6 DEF FrameOK, Fits, Alike
<1> QED
  BY <1>1, <1>3, <1>4, <1>5, <1>6, EntersAt

\* lfs_file_sync, lfs_file_seek and lfs_file_read call lfs_file_flush first.
LEMMA FlushKeeps ==
  ASSUME FileInv, FileInv', Facts, Flush
  PROVE  Facts' /\ Promised
<1>1. /\ calls # <<>> /\ Top.op \in {"sync", "seek", "read"} /\ Enter("flushed", Frame("flush"))
      /\ UNCHANGED <<entry, disk, file, flight, ops>>
  BY DEF Flush, At, Kept, alloc
<1>2. FrameOK(Top, Len(Content))
  BY <1>1, FactsTop
<1>3. PICK g : g = Frame("flush")
  OBVIOUS
<1>4. /\ g.op = "flush" /\ g.at = "begin" /\ g.back = -1 /\ g.n = 0 /\ g.data = <<>>
  BY <1>3 DEF Frame
<1>5. FrameOK(g, Len(Content))
  BY <1>4, FileAssumption DEF FrameOK, Sizes
<1>6. ASSUME NEW f, Alike(f, Top), f.at = "flushed"
      PROVE  FrameOK(f, Len(Content)) /\ Fits(f, g, file.pos, Len(Content), More, Coming)
  BY <1>1, <1>2, <1>4, <1>6 DEF FrameOK, Fits, Alike
<1> QED
  BY <1>1, <1>3, <1>4, <1>5, <1>6, EntersAt

\* lfs_file_truncate seeks back to where the handle was.
LEMMA RestoreKeeps ==
  ASSUME FileInv, FileInv', Facts, Restore
  PROVE  Facts' /\ Promised
<1>1. /\ calls # <<>> /\ Top.op = "truncate" /\ Top.at = "back"
      /\ Enter("restored", [Frame("seek") EXCEPT !.n = Top.back])
      /\ UNCHANGED <<entry, disk, file, flight, ops>>
  BY DEF Restore, At, Kept, alloc
<1>2. FrameOK(Top, Len(Content)) /\ Framed(Top)
  BY <1>1, FactsTop
<1>3. PICK g : g = [Frame("seek") EXCEPT !.n = Top.back]
  OBVIOUS
<1>4. /\ g.op = "seek" /\ g.at = "begin" /\ g.back = -1 /\ g.n = Top.back /\ g.data = <<>>
  BY <1>3 DEF Frame
<1>5. FrameOK(g, Len(Content))
  BY <1>1, <1>2, <1>4, FileAssumption DEF FrameOK, Sizes, Framed
<1>6. ASSUME NEW f, Alike(f, Top), f.at = "restored"
      PROVE  FrameOK(f, Len(Content)) /\ Fits(f, g, file.pos, Len(Content), More, Coming)
  BY <1>1, <1>2, <1>4, <1>6 DEF FrameOK, Fits, Alike
<1> QED
  BY <1>1, <1>3, <1>4, <1>5, <1>6, EntersAt

\* The call that writes one zero.
LEMMA ZeroIs ==
  ASSUME NEW g, g = [Frame("write") EXCEPT !.data = << 0 >>], NEW l
  PROVE  /\ g.op = "write" /\ g.at = "begin" /\ g.back = -1 /\ g.n = 0 /\ g.data = <<0>>
         /\ Len(g.data) = 1 /\ FrameOK(g, l)
<1>1. /\ g.op = "write" /\ g.at = "begin" /\ g.back = -1 /\ g.n = 0 /\ g.data = <<0>>
  BY DEF Frame
<1>2. 0 \in Data /\ 0 \in Sizes /\ -1 \in -1 .. MaxSize
  BY FileAssumption DEF Data, Sizes
<1>3. <<0>> \in Seq(Data) /\ Len(<<0>>) = 1
  BY <1>2
<1> QED
  BY <1>1, <1>2, <1>3 DEF FrameOK

\* lfs_file_truncate writes zeros up to the new size.
LEMMA GrowKeeps ==
  ASSUME FileInv, FileInv', Facts, Grow
  PROVE  Facts' /\ Promised
<1>1. /\ calls # <<>> /\ Top.op = "truncate" /\ Top.at = "grow"
      /\ UNCHANGED <<entry, disk, file, flight, ops>>
  BY DEF Grow, At, Kept, alloc
<1>2. /\ FrameOK(Top, Len(Content)) /\ Framed(Top) /\ Len(Content) \in Nat
      /\ file.pos = Len(Content) /\ flight \subseteq Blocks
  BY <1>1, FactsTop, FactsMeant DEF Facts, Ends
<1>3. CASE file.pos < Top.n
  <2>1. Enter("grow", [Frame("write") EXCEPT !.data = <<0>>])
    BY <1>3 DEF Grow
  <2>2. PICK g : g = [Frame("write") EXCEPT !.data = <<0>>]
    OBVIOUS
  <2>3. /\ g.op = "write" /\ g.at = "begin" /\ g.back = -1 /\ g.n = 0 /\ g.data = <<0>>
        /\ Len(g.data) = 1 /\ FrameOK(g, Len(Content))
    BY <2>2, ZeroIs
  <2>4. file.pos + Len(g.data) <= Top.n /\ Top.n \in Nat
    BY <1>2, <1>3, <2>3 DEF Framed
  <2>5. ASSUME NEW f, Alike(f, Top), f.at = "grow"
        PROVE  FrameOK(f, Len(Content)) /\ Fits(f, g, file.pos, Len(Content), More, Coming)
    BY <1>1, <1>2, <2>3, <2>4, <2>5 DEF FrameOK, Fits, Alike
  <2> QED
    BY <1>1, <2>1, <2>2, <2>3, <2>5, EntersAt
<1>4. CASE ~(file.pos < Top.n)
  <2>1. Continue("back")
    BY <1>4 DEF Grow
  <2>2. Len(Content) = Top.n
    BY <1>1, <1>2, <1>4 DEF FrameOK, Framed
  <2>3. ASSUME NEW f, Alike(f, Top), f.at = "back"
        PROVE  FrameOK(f, Len(Content))
    BY <1>1, <1>2, <2>2, <2>3 DEF FrameOK, Alike
  <2>4. Alike(Top', Top) /\ Top'.at = "back" => Ends'
    BY <1>1 DEF Alike, Ends, Running
  <2> QED
    BY <1>1, <1>2, <2>1, <2>3, <2>4, TurnsAt
<1> QED
  BY <1>3, <1>4

\* lfs_file_flush writes the cells that follow in the old list.
LEMMA CopyKeeps ==
  ASSUME FileInv, FileInv', Facts, Copy
  PROVE  Facts' /\ Promised
<1>1. /\ calls # <<>> /\ Top.op = "flush" /\ Top.at = "copy"
      /\ UNCHANGED <<entry, disk, file, flight, ops>>
  BY DEF Copy, At, Kept, alloc
<1>2. /\ FrameOK(Top, Len(Content)) /\ Framed(Top) /\ flight \subseteq Blocks /\ Typed
      /\ ~file.reading
  BY <1>1, FactsTop DEF Facts, Ends
<1>3. ASSUME NEW a, Continue(a), a # "begin" PROVE Facts' /\ Promised
  <2>1. ASSUME NEW f, Alike(f, Top), f.at = a PROVE FrameOK(f, Len(Content))
    BY <1>1, <1>2, <1>3, <2>1 DEF FrameOK, Alike
  <2>2. Alike(Top', Top) /\ Top'.at = a => Ends'
    BY <1>1, <1>2 DEF Alike, Ends, Running
  <2> QED
    BY <1>1, <1>2, <1>3, <2>1, <2>2, TurnsAt
<1>4. ASSUME Enter("copy", [Frame("write") EXCEPT !.data =
                <<Cell(disk, file.ctz.head, file.ctz.size, file.pos)>>]),
             More
      PROVE  Facts' /\ Promised
  <2>1. PICK g : g = [Frame("write") EXCEPT !.data =
                <<Cell(disk, file.ctz.head, file.ctz.size, file.pos)>>]
    OBVIOUS
  <2>2. /\ g.op = "write" /\ g.at = "begin" /\ g.back = -1 /\ g.n = 0 /\ g.data = <<Coming>>
    BY <2>1 DEF Frame, Coming
  <2>3. FrameOK(g, Len(Content))
    <3>1. <<Coming>> \in Seq(Data)
      BY <1>2, ComingIs
    <3> QED
      BY <2>2, <3>1, FileAssumption DEF FrameOK, Sizes
  <2>4. ASSUME NEW f, Alike(f, Top), f.at = "copy"
        PROVE  FrameOK(f, Len(Content)) /\ Fits(f, g, file.pos, Len(Content), More, Coming)
    BY <1>1, <1>2, <1>4, <2>2, <2>4 DEF FrameOK, Fits, Alike
  <2> QED
    BY <1>1, <1>4, <2>1, <2>2, <2>3, <2>4, EntersAt
<1> QED
  BY <1>3, <1>4 DEF Copy, More

\* A function that has been called from outside.
LEMMA OuterIs ==
  ASSUME FileInv, Facts, calls # <<>>, Len(calls) = 1, Top.back = -1
  PROVE  /\ Position = file.pos
         /\ Task = [op |-> Top.op, n |-> IF Top.op = "write" THEN Len(Top.data) ELSE Top.n]
         /\ Top.op \in Outermost /\ calls[1] = Top /\ DOMAIN calls = {1}
<1>1. /\ IsStack(calls) /\ Top = calls[1] /\ Stacked(calls, file.pos, Len(Content), More, Coming)
  BY FactsTop
<1>2. DOMAIN calls = 1 .. 1
  BY <1>1, StackIs
<1>3. \A k \in DOMAIN calls : calls[k].back = -1
  BY <1>1, <1>2
<1>4. Position = file.pos
  BY <1>3, PositionTask, SavedNone
<1>5. Task = [op |-> Top.op, n |-> IF Top.op = "write" THEN Len(Top.data) ELSE Top.n]
  BY <1>1 DEF Task
<1> QED
  BY <1>1, <1>2, <1>4, <1>5 DEF Stacked

\* Where nothing runs the promise has no task.
LEMMA NoneIs ==
  ASSUME calls' = <<>>
  PROVE  Position' = file'.pos /\ Task' = Promise!NoTask
<1>1. DOMAIN calls' = {}
  OBVIOUS
<1>2. PositionOf(calls', file'.pos) = file'.pos
  BY <1>1, SavedNone
<1>3. TaskOf(calls') = Promise!NoTask
  BY DEF TaskOf, Promise!NoTask
<1> QED
  BY <1>2, <1>3, NextTask

\* A hole is filled up to the position of the write.
LEMMA FillKeeps ==
  ASSUME FileInv, FileInv', Facts, Fill
  PROVE  Facts' /\ Promised
<1>1. /\ calls # <<>> /\ Top.op = "fill" /\ Top.at = "begin"
      /\ UNCHANGED <<entry, disk, bad, file, alloc, ops>>
  BY DEF Fill, At, Kept
<1>2. /\ FrameOK(Top, Len(Content)) /\ Framed(Top) /\ flight \subseteq Blocks
      /\ IsStack(calls) /\ Top = calls[Len(calls)] /\ Len(calls) \in DOMAIN calls
      /\ Stacked(calls, file.pos, Len(Content), More, Coming)
      /\ Last(calls) = Top
  BY <1>1, FactsTop
<1>3. Len(calls) = 2
  BY <1>1, <1>2 DEF Stacked
<1>4. PICK f : f = calls[1]
  OBVIOUS
<1>5. /\ Fits(f, Top, file.pos, Len(Content), More, Coming) /\ Called(f, Top)
      /\ FrameOK(f, Len(Content)) /\ Framed(f) /\ 1 \in DOMAIN calls
  BY <1>1, <1>3, <1>4, FactsTop
<1>6. /\ f.op = "write" /\ f.at = "check" /\ file.pos = Len(Content)
      /\ file.pos <= Top.back /\ Top.back + Len(f.data) <= MaxSize
      /\ Top.back \in -1 .. MaxSize /\ Top.back # -1
  BY <1>1, <1>2, <1>5 DEF Called, Fits, FrameOK
<1>7. file.pos \in Nat
  BY DEF FileInv, Shape
<1>8. ~file.reading
  BY <1>4, <1>5, <1>6 DEF Facts, Reading, Running
<1>9. CASE file.pos < Top.back
  <2>1. Enter("begin", [Frame("write") EXCEPT !.data = <<0>>])
    BY <1>9 DEF Fill
  <2>2. PICK g : g = [Frame("write") EXCEPT !.data = <<0>>]
    OBVIOUS
  <2>3. /\ g.op = "write" /\ g.at = "begin" /\ g.back = -1 /\ g.n = 0 /\ g.data = <<0>>
        /\ Len(g.data) = 1 /\ FrameOK(g, Len(Content))
    BY <2>2, ZeroIs
  <2>4. file.pos + Len(g.data) <= Top.back
    BY <1>6, <1>7, <1>9, <2>3
  <2>5. ASSUME NEW e, Alike(e, Top), e.at = "begin"
        PROVE  FrameOK(e, Len(Content)) /\ Fits(e, g, file.pos, Len(Content), More, Coming)
    BY <1>1, <1>2, <1>6, <2>3, <2>4, <2>5 DEF FrameOK, Fits, Alike
  <2> QED
    BY <1>1, <2>1, <2>2, <2>3, <2>5, EntersAt DEF alloc
<1>10. CASE ~(file.pos < Top.back)
  <2>1. calls' = Front(calls) /\ ret' = ret
    BY <1>3, <1>10 DEF Fill, Return
  <2>2. Pops(calls, calls')
    BY <1>2, <2>1, Popped, <1>1
  <2>3. calls' # <<>> /\ Top' = f
    BY <1>3, <1>4, <2>2 DEF Pops, Top
  <2>4. file.pos = Top.back
    BY <1>6, <1>7, <1>10
  <2>5. Ends'
    BY <1>1, <1>6, <1>8, <2>3, <2>4 DEF Ends
  <2>6. UNCHANGED Substance /\ UNCHANGED <<flight, ops>>
    BY <1>1 DEF Substance, alloc
  <2>7. Facts' /\ Contents(entry)' = Contents(entry) /\ Content' = Content
    BY <1>1, <1>8, <2>1, <2>5, <2>6, FactsTop, QuietReturns
  <2>8. /\ TaskOf(calls') = TaskOf(calls)
        /\ Saved(calls) = Saved(calls') \cup {Len(calls)}
        /\ \A k \in Saved(calls') : calls'[k].back = calls[k].back /\ k < Len(calls)
    BY <1>1, <1>2, <1>6, <2>2, <2>3, PopTask
  <2>9. IsStack(calls')
    BY <2>2 DEF Pops
  <2>10. PositionOf(calls, file.pos) = PositionOf(calls', file.pos)
    <3>1. PICK n \in Nat : n = Len(calls)
      BY <1>3
    <3>2. calls[n].back = file.pos
      BY <1>2, <2>4, <3>1
    <3>3. /\ Saved(calls) = Saved(calls') \cup {n}
          /\ \A k \in Saved(calls') : k < n
          /\ \A k \in Saved(calls') : calls[k].back = calls'[k].back
      BY <2>8, <3>1
    <3> QED
      BY <2>9, <3>2, <3>3, SavedMore
  <2>11. Promised
    BY <1>1, <2>1, <2>7, <2>8, <2>10, Stays
  <2> QED
    BY <2>7, <2>11
<1> QED
  BY <1>9, <1>10

\* A write that has written all returns.
LEMMA WriteEndsKeeps ==
  ASSUME FileInv, FileInv', Facts, WriteEnds
  PROVE  Facts' /\ Promised
<1>1. /\ calls # <<>> /\ Top.op = "write" /\ Top.at = "loop" /\ Top.data = <<>>
      /\ file' = [file EXCEPT !.erred = FALSE] /\ Return(Nothing)
      /\ UNCHANGED <<entry, disk, bad, alloc, ops>>
  BY DEF WriteEnds, At, Kept
<1>2. /\ FrameOK(Top, Len(Content)) /\ Framed(Top) /\ flight \subseteq Blocks
      /\ IsStack(calls) /\ Top = calls[Len(calls)] /\ Len(calls) \in DOMAIN calls
      /\ Last(calls) = Top /\ Len(calls) \in Nat
  BY <1>1, FactsTop
<1>3. /\ file'.open = file.open /\ file'.ctz = file.ctz /\ file'.inline = file.inline
      /\ file'.writing = file.writing /\ file'.pos = file.pos /\ file'.off = file.off
      /\ file'.block = file.block /\ file'.cur = file.cur /\ file'.dirty = file.dirty
      /\ file'.reading = file.reading /\ file'.erred = FALSE
  BY <1>1 DEF FileInv, Shape, FileFields
<1>4. ~file.reading
  BY <1>1, <1>2 DEF Facts, Reading, Running
<1>5. UNCHANGED Substance /\ UNCHANGED <<flight, ops>>
  BY <1>1, <1>3 DEF Substance, alloc
<1>6. calls' = Front(calls)
  BY <1>1 DEF Return
<1>7. Pops(calls, calls')
  BY <1>1, <1>2, <1>6, Popped
<1>8. UNCHANGED Content
  BY <1>1, <1>5, FactsTop, Unmoved
<1>9. Ends'
  <2>1. SUFFICES ASSUME calls' # <<>> PROVE Ends'
    BY DEF Ends
  <2>2. PICK f : f = calls[Len(calls) - 1]
    OBVIOUS
  <2>3. Top' = f /\ Len(calls) > 1
    BY <1>2, <1>7, <2>1, <2>2 DEF Pops, Top
  <2>4. Fits(f, Top, file.pos, Len(Content), More, Coming) /\ Called(f, Top)
    BY <1>1, <2>2, <2>3, FactsTop
  <2> QED
    BY <1>1, <1>3, <1>4, <1>8, <2>3, <2>4 DEF Ends, Running, Called, Fits
<1>10. Facts' /\ Contents(entry)' = Contents(entry) /\ Content' = Content
  BY <1>1, <1>3, <1>4, <1>5, <1>6, <1>9, QuietReturns
<1>11. Top.back = -1
  BY <1>1, <1>2 DEF FrameOK
<1>12. CASE Len(calls) = 1
  <2>1. Position = file.pos /\ Task = [op |-> "write", n |-> 0]
    BY <1>1, <1>11, <1>12, OuterIs
  <2>2. calls' = <<>> /\ ret' = Nothing
    BY <1>1, <1>7, <1>12 DEF Pops, Return
  <2>3. Position' = file.pos /\ Task' = Promise!NoTask
    BY <1>3, <2>2, NoneIs
  <2>4. Promise!Return
    <3>1. Task.op = "write" /\ Task.n = 0 /\ Task # Promise!NoTask
      BY <2>1 DEF Promise!NoTask
    <3>2. file'.erred = (file.erred /\ Task.op # "write")
      BY <1>3, <3>1
    <3> QED
      BY <1>10, <2>1, <2>2, <2>3, <3>1, <3>2 DEF Promise!Return, Promise!Nothing, Nothing
  <2> QED
    BY <1>10, <2>4 DEF Promised, Promise!Next
<1>13. CASE Len(calls) # 1
  <2>1. calls' # <<>> /\ ret' = ret
    BY <1>1, <1>7, <1>13 DEF Pops, Return
  <2>2. SameTask(calls, calls')
    BY <1>1, <1>2, <1>7, <1>11, <2>1, PopTask
  <2>3. PositionOf(calls', file'.pos) = PositionOf(calls, file.pos) /\ TaskOf(calls') = TaskOf(calls)
    BY <1>2, <1>3, <2>2, SavedSame DEF SameTask
  <2>4. Position' = Position /\ Task' = Task
    BY <2>3, PositionTask, NextTask
  <2>5. Promise!Mend
    BY <1>3, <1>10, <2>1, <2>4 DEF Promise!Mend
  <2> QED
    BY <1>10, <2>5 DEF Promised, Promise!Next
<1> QED
  BY <1>12, <1>13

-----------------------------------------------------------------------------
\* Steps that return to the caller, and steps from outside

\* A stack of one function, or none.
LEMMA SingleStacked ==
  ASSUME NEW c, NEW p, NEW l, NEW z, NEW x,
         c = <<>> \/ (DOMAIN c = {1} /\ FrameOK(c[1], l) /\ c[1].op \in Outermost)
  PROVE  Stacked(c, p, l, z, x)
<1>1. CASE c = <<>>
  <2>1. DOMAIN c = {}
    BY <1>1
  <2> QED
    BY <1>1, <2>1 DEF Stacked
<1>2. CASE c # <<>>
  <2>1. DOMAIN c = {1} /\ FrameOK(c[1], l) /\ c[1].op \in Outermost
    BY <1>2
  <2>2. c[1].op # "fill"
    BY <2>1 DEF Outermost
  <2>3. \A k \in DOMAIN c : k = 1
    BY <2>1
  <2> QED
    BY <2>1, <2>2, <2>3 DEF Stacked
<1> QED
  BY <1>1, <1>2

\* The task is what the outermost function has to do.
LEMMA TaskIs ==
  ASSUME FileInv, Facts, calls # <<>>
  PROVE  /\ Task.op = calls[1].op /\ Task.op \in Outermost /\ Task # Promise!NoTask
         /\ Task.n = IF calls[1].op = "write" THEN Len(calls[1].data) ELSE calls[1].n
         /\ 1 \in DOMAIN calls
<1>1. IsStack(calls) /\ calls[1].op \in Outermost /\ 1 \in DOMAIN calls
  <2>1. IsStack(calls) /\ calls[1].op \in Outermost
    BY FactsTop DEF Stacked
  <2>2. DOMAIN calls = 1 .. Len(calls) /\ Len(calls) \in Nat /\ Len(calls) # 0
    BY <2>1, StackIs
  <2> QED
    BY <2>1, <2>2
<1>2. Task = [op |-> calls[1].op,
              n |-> IF calls[1].op = "write" THEN Len(calls[1].data) ELSE calls[1].n]
  BY DEF Task
<1> QED
  BY <1>1, <1>2 DEF Promise!NoTask, Outermost

\* The contents of a file that is not written to are what its list holds.
LEMMA Idle ==
  ASSUME FileInv, FileInv', Facts, file.open, file'.open, ~file.writing, ~file'.writing,
         UNCHANGED <<entry, disk, file.ctz, file.inline>>
  PROVE  /\ Contents(entry)' = Contents(entry) /\ Content' = Content /\ Meaning'
         /\ Size' = Size
<1>1. Meant(Contents(entry), Content)
  BY FactsMeant
<1>2. PICK s, c : s = Contents(entry) /\ c = Content
  OBVIOUS
<1>3. Size' = Size /\ ~W /\ ~W'
  BY DEF Size, W
<1>4. Meant(s, c)'
  BY <1>1, <1>2, <1>3 DEF Meant
<1> QED
  BY <1>2, <1>3, <1>4, NextMeant

\* Nothing but the allocator has changed.
LEMMA SameFacts ==
  ASSUME FileInv, FileInv', Facts, UNCHANGED <<entry, disk, file, calls, ops, ret>>,
         flight' \subseteq Blocks
  PROVE  Facts' /\ Promised
<1>1. UNCHANGED Substance
  BY DEF Substance
<1>2. /\ W' = W /\ More' = More /\ Coming' = Coming /\ Contents(entry)' = Contents(entry)
      /\ Content' = Content /\ Meaning'
  BY <1>1, Unmoved
<1>3. Typed'
  BY <1>1, UnmovedTypes DEF Facts, Typed
<1>4. Nest'
  BY <1>2 DEF Facts, Nest
<1>5. Ends'
  BY <1>2 DEF Facts, Ends, Top, Running
<1>6. Reading'
  BY DEF Facts, Reading, Place, Running
<1>7. Clean'
  BY <1>2 DEF Facts, Clean
<1>8. Promised
  BY <1>2, Stays
<1> QED
  BY <1>2, <1>3, <1>4, <1>5, <1>6, <1>7, <1>8 DEF Facts

\* The allocator scans for free blocks.
LEMMA RefillKeeps ==
  ASSUME FileInv, FileInv', Facts, Refill
  PROVE  Facts' /\ Promised
BY SameFacts DEF Refill, Facts, Typed

\* Another operation acknowledges what has been handed out.
LEMMA AckElsewhereKeeps ==
  ASSUME FileInv, FileInv', Facts, AckElsewhere
  PROVE  Facts' /\ Promised
BY SameFacts DEF AckElsewhere

\* What a step leaves on the device and in the directory is of the types.
Sound ==
  /\ entry.size \in Sizes /\ entry.buf \in Seq(Data)
  /\ \A b \in Blocks :
       /\ disk[b].prev \in Blocks \cup {Null}
       /\ disk[b].data \in Seq(Data) /\ Len(disk[b].data) <= BlockSize

\* A handle that is closed stands for what is stored.
LEMMA FreshFacts ==
  ASSUME FileInv', Facts, file' = Fresh, calls' = <<>>, Sound',
         NEW s, Stored(s, entry', disk'), ops' = ops, flight' \subseteq Blocks
  PROVE  /\ Facts' /\ Contents(entry)' = s /\ Content' = s
         /\ Position' = 0 /\ Task' = Promise!NoTask /\ file'.erred = FALSE
<1>1. /\ DOMAIN file' = FileFields /\ ~file'.open /\ ~file'.writing /\ ~file'.reading
      /\ file'.erred = FALSE /\ file'.pos = 0 /\ file'.off = 0 /\ file'.cur = Erased
      /\ file'.ctz.size = 0 /\ file'.ctz.buf = <<>>
  BY FreshIs DEF Fresh
<1>4. Meant(s, s)'
  BY <1>1 DEF Meant, Stored
<1>5. Contents(entry)' = s /\ Content' = s /\ Meaning'
  BY <1>4, NextMeant
<1>6. Typed'
  <2>1. 0 \in Sizes /\ 0 \in 0 .. BlockSize /\ <<>> \in Seq(Data) /\ Len(<<>>) = 0
    BY FileAssumption DEF Sizes
  <2>2. /\ file'.cur.prev = Null /\ file'.cur.data = <<>>
        /\ flight' \subseteq Blocks /\ ops' = ops
    BY <1>1 DEF Erased
  <2>3. Len(file'.cur.data) <= BlockSize
    BY <2>1, <2>2, FileAssumption
  <2>4. ~W'
    BY <1>1 DEF W
  <2>5. Typed
    BY DEF Facts
  <2> QED
    BY <1>1, <2>1, <2>2, <2>3, <2>4, <2>5 DEF Typed, Sound
<1>7. Stacked(<<>>, file'.pos, Len(Content'), More', Coming')
  BY SingleStacked
<1>8. Nest' /\ Ends' /\ Reading' /\ Clean'
  BY <1>1, <1>7 DEF Nest, Ends, Reading, Clean
<1>9. Position' = 0 /\ Task' = Promise!NoTask
  BY <1>1, NoneIs
<1> QED
  BY <1>1, <1>5, <1>6, <1>8, <1>9 DEF Facts

\* After a crash the handle is gone, and what is stored is there.
LEMMA CrashKeeps ==
  ASSUME FileInv, FileInv', Facts, Crash
  PROVE  Facts' /\ Promised
<1>1. file' = Fresh /\ calls' = <<>> /\ UNCHANGED <<entry, disk, ops>> /\ flight' = {} /\ ret' = Error
  BY DEF Crash, Kept
<1>2. Stored(Contents(entry), entry', disk') /\ Sound'
  BY <1>1, FactsMeant DEF Meant, Facts, Typed, Sound
<1>3. PICK s : s = Contents(entry)
  OBVIOUS
<1>4. /\ Facts' /\ Contents(entry)' = s /\ Content' = s
      /\ Position' = 0 /\ Task' = Promise!NoTask /\ file'.erred = FALSE
  BY <1>1, <1>2, <1>3, FreshFacts
<1>5. Promise!Crash
  BY <1>1, <1>3, <1>4 DEF Promise!Crash, Promise!Fresh, Promise!Error, Error
<1> QED
  BY <1>4, <1>5 DEF Promised, Promise!Next

\* What an error leaves of a handle that is not closed.
LEMMA ErredIs ==
  ASSUME FileInv, Fails, calls # <<>>, calls[1].op # "close"
  PROVE  /\ file'.open = file.open /\ file'.ctz = file.ctz /\ file'.inline = file.inline
         /\ file'.writing = file.writing /\ file'.pos = file.pos /\ file'.off = file.off
         /\ file'.block = file.block /\ file'.cur = file.cur /\ file'.dirty = file.dirty
         /\ file'.reading = file.reading /\ file'.erred \in BOOLEAN
<1>1. PICK e : e = (file.erred \/ \E k \in DOMAIN calls : calls[k].op \in {"write", "sync"})
  OBVIOUS
<1>2. e \in BOOLEAN
  BY <1>1
<1>3. file' = [file EXCEPT !.erred = e]
  BY <1>1 DEF Fails, FailsWith
<1> QED
  BY <1>2, <1>3 DEF FileInv, Shape, FileFields

\* A call fails: the contents of the handle stay, and s is stored from now on, as
\* before or because a commit has landed all the same.
LEMMA FailsStoring ==
  ASSUME FileInv, FileInv', Facts, calls # <<>>, Fails, ~file.reading, Sound',
         NEW s, Stored(s, entry', disk'), ops' = ops, flight' \subseteq Blocks,
         NEW c, c = Content, calls[1].op # "close" => Meant(s, c)',
         \/ s = Contents(entry)
         \/ s = c /\ ~file.erred /\ calls[1].op \in {"sync", "close"}
  PROVE  Facts' /\ Promised
<1>1. /\ calls' = <<>> /\ ret' = Error /\ file.open /\ file.pos \in Nat
  BY FactsTop DEF Fails, FailsWith, FileInv, Shape
<1>2. Task.op = calls[1].op /\ Task # Promise!NoTask
  BY TaskIs
<1>3. \/ s = Contents(entry)
      \/ s = c /\ ~file.erred /\ Task.op \in {"sync", "close"}
  BY <1>2
<1>4. CASE calls[1].op = "close"
  <2>1. file' = Fresh
    BY <1>4 DEF Fails, FailsWith
  <2>2. /\ Facts' /\ Contents(entry)' = s /\ Content' = s
        /\ Position' = 0 /\ Task' = Promise!NoTask /\ file'.erred = FALSE
    BY <1>1, <2>1, FreshFacts
  <2>3. Promise!Fail
    <3>1. /\ Contents(entry)' = s /\ Content' = s /\ Position' \in Nat /\ file'.erred \in BOOLEAN
          /\ Task' = Promise!NoTask /\ Task.op = "close" /\ ret' = <<-1>>
      BY <1>1, <1>2, <1>4, <2>2 DEF Error
    <3> QED
      BY <1>2, <1>3, <3>1 DEF Promise!Fail, Promise!Error
  <2> QED
    BY <2>2, <2>3 DEF Promised, Promise!Next
<1>5. CASE calls[1].op # "close"
  <2>1. /\ file'.open = file.open /\ file'.ctz = file.ctz /\ file'.inline = file.inline
        /\ file'.writing = file.writing /\ file'.pos = file.pos /\ file'.off = file.off
        /\ file'.block = file.block /\ file'.cur = file.cur /\ file'.dirty = file.dirty
        /\ file'.reading = file.reading /\ file'.erred \in BOOLEAN
    BY <1>5, ErredIs
  <2>3. Meant(s, c)'
    BY <1>5
  <2>4. Contents(entry)' = s /\ Content' = c /\ Meaning'
    BY <2>3, NextMeant
  <2>5. Typed'
    <3>1. Typed /\ W' = W
      BY <2>1 DEF Facts, W
    <3> QED
      BY <2>1, <3>1 DEF Typed, Sound
  <2>6. Stacked(calls', file'.pos, Len(Content'), More', Coming')
    BY <1>1, SingleStacked
  <2>7. Nest' /\ Ends' /\ Reading'
    BY <1>1, <2>1, <2>6 DEF Nest, Ends, Reading
  <2>8. Clean'
    <3>1. Clean
      BY DEF Facts
    <3> QED
      BY <2>1, <2>4, <3>1 DEF Clean
  <2>9. Position' = file.pos /\ Task' = Promise!NoTask
    BY <1>1, <2>1, NoneIs
  <2>10. Promise!Fail
    BY <1>1, <1>2, <1>3, <1>5, <2>1, <2>4, <2>9 DEF Promise!Fail, Promise!Error, Error
  <2> QED
    BY <2>4, <2>5, <2>7, <2>8, <2>10 DEF Facts, Promised, Promise!Next
<1> QED
  BY <1>4, <1>5

\* Nothing is stored, and the device is as it was.
LEMMA FailsKeeps ==
  ASSUME FileInv, FileInv', Facts, calls # <<>>, Fails, ~file.reading,
         UNCHANGED <<entry, disk, alloc, ops>>
  PROVE  Facts' /\ Promised
<1>1. file.open /\ flight' \subseteq Blocks /\ Meant(Contents(entry), Content)
  BY FactsTop, FactsMeant DEF alloc
<1>2. PICK s, c : s = Contents(entry) /\ c = Content
  OBVIOUS
<1>3. Stored(s, entry', disk') /\ Sound'
  BY <1>1, <1>2 DEF Meant, Facts, Typed, Sound
<1>4. ASSUME calls[1].op # "close" PROVE Meant(s, c)'
  <2>1. UNCHANGED Substance
    BY <1>4, ErredIs DEF Substance
  <2>2. Size' = Size /\ View' = View /\ W' = W
    BY <1>1, <2>1, Unmoved
  <2> QED
    BY <1>1, <1>2, <2>1, <2>2 DEF Meant, Substance
<1> QED
  BY <1>1, <1>2, <1>3, <1>4, FailsStoring

\* No block is free.
LEMMA NoSpaceKeeps ==
  ASSUME FileInv, FileInv', Facts, NoSpace
  PROVE  Facts' /\ Promised
<1>1. /\ calls # <<>>
      /\ (Top.op = "write" /\ Top.at = "extend") \/ Top.op \in {"relocate", "outline"}
  BY DEF NoSpace, Allocating, At
<1>2. Framed(Top)
  BY <1>1, FactsTop
<1>3. ~file.reading
  BY <1>1, <1>2 DEF Facts, Ends, Framed, Callers, Inner
<1> QED
  BY <1>1, <1>3, FailsKeeps DEF NoSpace

\* The old list is not read.
LEMMA CopyFailsKeeps ==
  ASSUME FileInv, FileInv', Facts, CopyFails
  PROVE  Facts' /\ Promised
<1>1. /\ calls # <<>> /\ Top.op = "flush" /\ Top.at = "copy"
      /\ Fails /\ UNCHANGED <<entry, disk, alloc, ops>>
  BY DEF CopyFails, At
<1>2. ~file.reading
  BY <1>1 DEF Facts, Ends
<1> QED
  BY <1>1, <1>2, FailsKeeps

\* lfs_file_close gives up the handle.
LEMMA ClosedKeeps ==
  ASSUME FileInv, FileInv', Facts, Closed
  PROVE  Facts' /\ Promised
<1>1. /\ calls # <<>> /\ Top.op = "close" /\ Top.at = "flushed" /\ file' = Fresh
      /\ Return(Nothing) /\ UNCHANGED <<entry, disk, ops>> /\ flight' = flight
  BY DEF Closed, At, Kept, alloc
<1>2. /\ IsStack(calls) /\ Len(calls) \in DOMAIN calls /\ Top = calls[Len(calls)]
      /\ flight \subseteq Blocks
  BY <1>1, FactsTop
<1>3. Len(calls) = 1
  BY <1>1, <1>2, Bottom
<1>4. calls' = Front(calls) /\ ret' = Nothing
  BY <1>1, <1>3 DEF Return
<1>5. calls' = <<>>
  BY <1>1, <1>2, <1>3, <1>4, Popped DEF Pops
<1>6. /\ Facts' /\ Contents(entry)' = Contents(entry) /\ Content' = Contents(entry)
      /\ Position' = 0 /\ Task' = Promise!NoTask /\ file'.erred = FALSE
  <2>1. Stored(Contents(entry), entry', disk') /\ Sound'
    BY <1>1, FactsMeant DEF Meant, Facts, Typed, Sound
  <2>2. PICK s : s = Contents(entry)
    OBVIOUS
  <2> QED
    BY <1>1, <1>2, <1>5, <2>1, <2>2, FreshFacts
<1>7. file.erred \/ Content = Contents(entry)
  BY <1>1 DEF Facts, Ends
<1>8. Task.op = "close"
  BY <1>1, <1>2, <1>3, TaskIs
<1>9. Promise!Close
  BY <1>4, <1>6, <1>7, <1>8 DEF Promise!Close, Promise!Fresh, Promise!Nothing, Nothing
<1> QED
  BY <1>6, <1>9 DEF Promised, Promise!Next

\* A sync that has nothing to commit, or must not, returns.
LEMMA SyncedKeeps ==
  ASSUME FileInv, FileInv', Facts, Synced
  PROVE  Facts' /\ Promised
<1>1. /\ calls # <<>> /\ Top.op = "sync" /\ Top.at = "flushed" /\ ~Committable
      /\ Return(Nothing) /\ UNCHANGED <<entry, disk, file, flight, ops>>
  BY DEF Synced, At, Kept, alloc
<1>2. /\ FrameOK(Top, Len(Content)) /\ IsStack(calls) /\ file.open
      /\ Top = calls[Len(calls)] /\ Len(calls) \in DOMAIN calls
      /\ Last(calls) = Top /\ Len(calls) \in Nat /\ AtFlushed
  BY <1>1, FactsTop, TopIs
<1>3. ~file.reading
  BY <1>1 DEF Facts, Ends
<1>4. UNCHANGED Substance
  BY <1>1 DEF Substance
<1>5. calls' = Front(calls) /\ Pops(calls, calls')
  BY <1>1, <1>2, Popped DEF Return
<1>6. UNCHANGED <<Content, Contents(entry)>>
  BY <1>2, <1>4, Unmoved
<1>7. file.erred \/ Content = Contents(entry)
  BY <1>1, <1>2 DEF AtFlushed, Callers, Committable, Facts, Clean
<1>8. Ends'
  <2>1. SUFFICES ASSUME calls' # <<>> PROVE Ends'
    BY DEF Ends
  <2>2. PICK f : f = calls[Len(calls) - 1]
    OBVIOUS
  <2>3. Top' = f /\ Len(calls) > 1
    BY <1>2, <1>5, <2>1, <2>2 DEF Pops, Top
  <2>4. Called(f, Top)
    BY <1>1, <2>2, <2>3, FactsTop
  <2> QED
    BY <1>1, <1>3, <1>6, <1>7, <2>3, <2>4 DEF Ends, Running, Called
<1>9. /\ Facts' /\ Contents(entry)' = Contents(entry) /\ Content' = Content
      /\ (SameTask(calls, calls') /\ file'.erred = file.erred /\ ret' = ret => Promised)
  BY <1>1, <1>3, <1>4, <1>5, <1>8, FactsTop, QuietReturns
<1>10. Top.back = -1
  BY <1>1, <1>2 DEF FrameOK
<1>11. CASE Len(calls) = 1
  <2>1. Position = file.pos /\ Task = [op |-> "sync", n |-> Top.n]
    BY <1>1, <1>10, <1>11, OuterIs
  <2>2. calls' = <<>> /\ ret' = Nothing
    BY <1>1, <1>5, <1>11 DEF Pops, Return
  <2>3. Position' = file.pos /\ Task' = Promise!NoTask
    BY <1>1, <2>2, NoneIs
  <2>4. Promise!Return
    <3>1. Task.op = "sync" /\ Task # Promise!NoTask
      BY <2>1 DEF Promise!NoTask
    <3>2. file'.erred = (file.erred /\ Task.op # "write")
      BY <1>1, <1>2, <3>1, FactsTop
    <3>3. file.erred \/ Contents(entry) = Content
      BY <1>7
    <3> QED
      BY <1>9, <2>1, <2>2, <2>3, <3>1, <3>2, <3>3 DEF Promise!Return, Promise!Nothing, Nothing
  <2> QED
    BY <1>9, <2>4 DEF Promised, Promise!Next
<1>12. CASE Len(calls) # 1
  <2>1. calls' # <<>> /\ ret' = ret
    BY <1>1, <1>5, <1>12 DEF Pops, Return
  <2>2. SameTask(calls, calls')
    BY <1>1, <1>2, <1>5, <1>10, <2>1, PopTask
  <2> QED
    BY <1>1, <1>9, <2>1, <2>2
<1> QED
  BY <1>11, <1>12

\* The position a truncate came from is where it ends.
LEMMA TruncatedKeeps ==
  ASSUME FileInv, FileInv', Facts, Truncated
  PROVE  Facts' /\ Promised
<1>1. /\ calls # <<>> /\ Top.op = "truncate" /\ Top.at = "restored"
      /\ Return(Nothing) /\ UNCHANGED <<entry, disk, file, flight, ops>>
  BY DEF Truncated, At, Kept, alloc
<1>2. /\ FrameOK(Top, Len(Content)) /\ IsStack(calls) /\ file.open /\ Framed(Top)
      /\ Top = calls[Len(calls)] /\ Len(calls) \in DOMAIN calls
      /\ Last(calls) = Top /\ Len(calls) \in Nat
  BY <1>1, FactsTop
<1>3. ~file.reading
  BY <1>1 DEF Facts, Ends
<1>4. Len(calls) = 1
  BY <1>1, <1>2, Bottom
<1>5. calls' = Front(calls) /\ ret' = Nothing
  BY <1>1, <1>4 DEF Return
<1>6. calls' = <<>>
  BY <1>1, <1>2, <1>4, <1>5, Popped DEF Pops
<1>7. Ends'
  BY <1>6 DEF Ends
<1>8. UNCHANGED Substance
  BY <1>1 DEF Substance
<1>9. Facts' /\ Contents(entry)' = Contents(entry) /\ Content' = Content
  BY <1>1, <1>3, <1>5, <1>7, <1>8, FactsTop, QuietReturns
<1>10. Len(Content) = Top.n /\ file.pos = Top.back
  BY <1>1, <1>2 DEF FrameOK, Facts, Ends
<1>11. Position = file.pos
  <2>1. PICK c : c = calls
    OBVIOUS
  <2>2. DOMAIN c = {1} /\ c[1].back = file.pos /\ file.pos \in Nat
    <3>1. DOMAIN calls = 1 .. 1
      BY <1>2, <1>4, StackIs
    <3>2. calls[1].back = file.pos
      BY <1>2, <1>4, <1>10
    <3>3. file.pos \in Nat
      BY DEF FileInv, Shape
    <3> QED
      BY <2>1, <3>1, <3>2, <3>3
  <2>3. Saved(c) = {1}
    BY <2>2 DEF Saved
  <2>4. PositionOf(c, file.pos) = c[1].back
    BY <2>3, SavedFirst
  <2> QED
    BY <2>1, <2>2, <2>4, PositionTask
<1>12. Task.op = "truncate" /\ Task.n = Top.n /\ Task # Promise!NoTask
  BY <1>1, <1>2, <1>4, TaskIs
<1>13. Position' = file.pos /\ Task' = Promise!NoTask
  BY <1>1, <1>6, NoneIs
<1>14. file'.erred = (file.erred /\ Task.op # "write")
  BY <1>1, <1>12, FactsTop
<1>15. Promise!Return
  BY <1>5, <1>9, <1>10, <1>11, <1>12, <1>13, <1>14
  DEF Promise!Return, Promise!Nothing, Nothing
<1> QED
  BY <1>9, <1>15 DEF Promised, Promise!Next

\* A seek moves the position, and nothing else.
LEMMA MoveKeeps ==
  ASSUME FileInv, FileInv', Facts, Move
  PROVE  Facts' /\ Promised
<1>1. /\ calls # <<>> /\ Top.op = "seek" /\ Top.at = "flushed"
      /\ file' = [file EXCEPT !.pos = Top.n]
      /\ Return(Nothing) /\ UNCHANGED <<entry, disk, flight, ops>>
  BY DEF Move, At, Kept, alloc
<1>2. /\ FrameOK(Top, Len(Content)) /\ IsStack(calls) /\ file.open /\ Framed(Top)
      /\ Top = calls[Len(calls)] /\ Len(calls) \in DOMAIN calls /\ AtFlushed
      /\ Last(calls) = Top /\ Len(calls) \in Nat
  BY <1>1, FactsTop, TopIs
<1>3. ~file.reading /\ ~file.writing
  BY <1>1, <1>2 DEF Facts, Ends, AtFlushed, Callers
<1>4. /\ file'.open = file.open /\ file'.ctz = file.ctz /\ file'.inline = file.inline
      /\ file'.writing = file.writing /\ file'.pos = Top.n /\ file'.off = file.off
      /\ file'.block = file.block /\ file'.cur = file.cur /\ file'.dirty = file.dirty
      /\ file'.reading = file.reading /\ file'.erred = file.erred
  BY <1>1 DEF FileInv, Shape, FileFields
<1>5. /\ Contents(entry)' = Contents(entry) /\ Content' = Content /\ Meaning'
  BY <1>1, <1>2, <1>3, <1>4, Idle
<1>6. Top.n \in Sizes /\ Top.back = -1
  BY <1>1, <1>2 DEF FrameOK
<1>7. Typed'
  <2>1. ~W'
    BY <1>3, <1>4 DEF W
  <2> QED
    BY <1>1, <1>3, <1>4, <1>6, <2>1 DEF Facts, Typed
<1>8. calls' = Front(calls) /\ Pops(calls, calls')
  BY <1>1, <1>2, Popped DEF Return
<1>9. Reading' /\ Clean'
  BY <1>3, <1>4, <1>5 DEF Facts, Reading, Clean
<1>10. CASE Len(calls) = 1
  <2>1. Position = file.pos /\ Task = [op |-> "seek", n |-> Top.n]
    BY <1>1, <1>6, <1>10, OuterIs
  <2>2. calls' = <<>> /\ ret' = Nothing
    BY <1>1, <1>8, <1>10 DEF Pops, Return
  <2>3. Position' = Top.n /\ Task' = Promise!NoTask
    BY <1>4, <2>2, NoneIs
  <2>4. Promise!Return
    <3>1. Task.op = "seek" /\ Task # Promise!NoTask /\ Task.n = Top.n
      BY <2>1 DEF Promise!NoTask
    <3>2. file'.erred = (file.erred /\ Task.op # "write")
      BY <1>1, <1>4, <3>1, FactsTop
    <3> QED
      BY <1>5, <2>1, <2>2, <2>3, <3>1, <3>2 DEF Promise!Return, Promise!Nothing, Nothing
  <2>5. Stacked(calls', file'.pos, Len(Content'), More', Coming')
    BY <2>2, SingleStacked
  <2>6. Nest' /\ Ends'
    BY <2>2, <2>5 DEF Nest, Ends
  <2> QED
    BY <1>5, <1>7, <1>9, <2>4, <2>6 DEF Promised, Promise!Next, Facts
<1>11. CASE Len(calls) # 1
  <2>1. calls' # <<>> /\ ret' = ret
    BY <1>1, <1>8, <1>11 DEF Pops, Return
  <2>2. PICK f : f = calls[Len(calls) - 1]
    OBVIOUS
  <2>3. Top' = f /\ Len(calls) > 1
    BY <1>2, <1>8, <2>1, <2>2 DEF Pops, Top
  <2>4. /\ Called(f, Top) /\ FrameOK(f, Len(Content)) /\ Framed(f)
        /\ Fits(f, Top, file.pos, Len(Content), More, Coming)
        /\ Len(calls) - 1 \in DOMAIN calls
    BY <1>1, <2>2, <2>3, FactsTop
  <2>5. f.op = "truncate" /\ f.at \in {"grow", "restored"}
    BY <1>1, <2>4 DEF Called
  <2>6. Len(calls) = 2
    <3>1. \A k \in DOMAIN calls : calls[k].op \in {"truncate", "close", "read"} => k = 1
      BY <1>2, Bottom
    <3>2. Len(calls) - 1 = 1
      BY <2>2, <2>4, <2>5, <3>1
    <3> QED
      BY <1>2, <3>2
  <2>7. Ends'
    BY <1>1, <1>3, <1>4, <1>5, <2>3, <2>4, <2>5 DEF Ends, Running, Fits
  <2>8. DOMAIN calls' = {1} /\ calls'[1] = f
    <3>1. DOMAIN calls = 1 .. 2
      BY <1>2, <2>6, StackIs
    <3>2. DOMAIN calls' = 1 .. 1
      <4>1. Len(calls') = 1 /\ IsStack(calls')
        BY <1>8, <2>6 DEF Pops
      <4> QED
        BY <4>1, StackIs
    <3> QED
      BY <1>8, <2>2, <2>6, <3>1, <3>2 DEF Pops
  <2>9. Stacked(calls', file'.pos, Len(Content'), More', Coming')
    <3>1. FrameOK(calls'[1], Len(Content')) /\ calls'[1].op \in Outermost
      BY <1>5, <2>4, <2>5, <2>8 DEF Outermost
    <3> QED
      BY <2>8, <3>1, SingleStacked
  <2>10. Nest'
    BY <2>9 DEF Nest
  <2>11. SameTask(calls, calls')
    BY <1>1, <1>2, <1>6, <1>8, <2>1, PopTask
  <2>12. Saved(calls) # {}
    BY <2>2, <2>4, <2>5 DEF Saved, Framed
  <2>13. Promised
    BY <1>2, <1>4, <1>5, <2>1, <2>11, <2>12, Stutters
  <2> QED
    BY <1>5, <1>7, <1>9, <2>7, <2>10, <2>13 DEF Facts
<1> QED
  BY <1>10, <1>11

\* A read that returns what is there.
LEMMA ReadReturns ==
  ASSUME FileInv, FileInv', Facts, calls # <<>>, Top.op = "read", ~file.writing,
         calls' = Front(calls), UNCHANGED <<entry, disk, flight, ops>>,
         file'.open = file.open, file'.ctz = file.ctz, file'.inline = file.inline,
         file'.writing = file.writing, file'.cur = file.cur, file'.dirty = file.dirty,
         file'.erred = file.erred,
         file'.pos \in Sizes, file'.off \in 0 .. BlockSize, Place',
         ret' = IF file.pos < Len(Content) THEN <<Content[file.pos + 1]>> ELSE Nothing,
         file'.pos = file.pos + Len(ret')
  PROVE  Facts' /\ Promised
<1>1. /\ FrameOK(Top, Len(Content)) /\ IsStack(calls) /\ file.open
      /\ Top = calls[Len(calls)] /\ Len(calls) \in DOMAIN calls
      /\ Last(calls) = Top /\ Len(calls) \in Nat
  BY FactsTop
<1>2. Len(calls) = 1
  BY <1>1, Bottom
<1>3. Top.back = -1
  BY <1>1 DEF FrameOK
<1>4. calls' = <<>>
  BY <1>1, <1>2, Popped DEF Pops
<1>5. Contents(entry)' = Contents(entry) /\ Content' = Content /\ Meaning'
  BY <1>1, Idle
<1>6. Typed'
  <2>1. ~W'
    BY DEF W
  <2> QED
    BY <2>1 DEF Facts, Typed
<1>7. Stacked(calls', file'.pos, Len(Content'), More', Coming')
  BY <1>4, SingleStacked
<1>8. Nest' /\ Ends' /\ Reading'
  BY <1>4, <1>7 DEF Nest, Ends, Reading
<1>9. Clean'
  BY <1>1, <1>5 DEF Facts, Clean
<1>10. Position = file.pos /\ Task.op = "read" /\ Task # Promise!NoTask
  BY <1>2, <1>3, OuterIs DEF Promise!NoTask
<1>11. Position' = file'.pos /\ Task' = Promise!NoTask
  BY <1>4, NoneIs
<1>12. file'.erred = (file.erred /\ Task.op # "write")
  BY <1>10, FactsTop
<1>13. Promise!Return
  BY <1>5, <1>10, <1>11, <1>12 DEF Promise!Return, Promise!Nothing, Nothing
<1> QED
  BY <1>5, <1>6, <1>8, <1>9, <1>13 DEF Facts, Promised, Promise!Next

\* The next byte is in the same block, unless this one is the last of it.
LEMMA PlaceNext ==
  ASSUME NEW p \in Nat, (p % BlockSize) + 1 < BlockSize
  PROVE  Index(p + 1) = Index(p) /\ (p + 1) % BlockSize = (p % BlockSize) + 1
<1>1. Index(p) \in Nat
  BY PlaceOf
<1>2. PICK q \in Nat : q = Index(p)
  BY <1>1
<1>3. PICK t \in 0 .. BlockSize - 1 : p = Start(q) + t /\ p % BlockSize = t
  BY <1>2, PlaceOf
<1>4. t + 1 \in 0 .. BlockSize - 1 /\ p + 1 \in Nat /\ p + 1 = Start(q) + (t + 1)
  <2>1. Start(q) \in Int /\ BlockSize \in Nat
    BY StartIs, FileAssumption
  <2>2. t + 1 < BlockSize
    BY <1>3
  <2> QED
    BY <1>3, <2>1, <2>2
<1>5. Index(p + 1) = q /\ (p + 1) % BlockSize = t + 1
  BY <1>4, PlaceIs
<1> QED
  BY <1>2, <1>3, <1>5

\* The cell that is read is the one at the position.
LEMMA FetchKeeps ==
  ASSUME FileInv, FileInv', Facts, Fetch
  PROVE  Facts' /\ Promised
<1>2. /\ calls # <<>> /\ Top.op = "read"
      /\ Top.at = "flushed" \/ ~file.writing
  BY DEF Fetch, Fetching, At
<1>3. /\ IsStack(calls) /\ file.open /\ AtFlushed
      /\ Top = calls[Len(calls)] /\ Len(calls) \in DOMAIN calls
      /\ Last(calls) = Top /\ Len(calls) \in Nat
  BY <1>2, FactsTop, TopIs
<1>4. ~file.writing
  BY <1>2, <1>3 DEF AtFlushed, Callers
<1>5. Len(calls) = 1
  BY <1>2, <1>3, Bottom
<1>6. /\ DOMAIN file = FileFields /\ file.pos \in Nat /\ file.ctz.size \in Sizes
      /\ file.pos \in Sizes /\ file.off \in 0 .. BlockSize
  BY DEF FileInv, Shape, Facts, Typed
<1>7. Size = file.ctz.size /\ Len(Content) = file.ctz.size
  <2>1. ~Mid /\ Size = file.ctz.size
    BY <1>2, <1>4 DEF Mid, At, Size
  <2> QED
    BY <1>3, <2>1, FactsMeant
<1>8. file.reading => Place
  BY <1>2, <1>3, <1>5 DEF Facts, Reading
<1>9. Meant(Contents(entry), Content)
  BY FactsMeant
<1>10. ASSUME NEW r, Return(r) PROVE calls' = Front(calls) /\ ret' = r
  BY <1>5, <1>10 DEF Return
<1>11. UNCHANGED <<entry, disk, flight, ops>>
  BY DEF Fetch, Kept, alloc
<1>12. CASE file.pos >= file.ctz.size /\ Return(Nothing) /\ UNCHANGED file
  <2>1. calls' = Front(calls) /\ ret' = Nothing
    BY <1>10, <1>12
  <2>2. Place'
    BY <1>6, <1>12 DEF Place, Sizes
  <2>3. Len(ret') = 0
    BY <2>1 DEF Nothing
  <2> QED
    BY <1>2, <1>4, <1>6, <1>7, <1>11, <1>12, <2>1, <2>2, <2>3, ReadReturns
<1>13. CASE /\ file.pos < file.ctz.size /\ file.inline
            /\ file' = [file EXCEPT !.pos = @ + 1, !.reading = TRUE]
            /\ Return(<<file.ctz.buf[file.pos + 1]>>)
  <2>1. calls' = Front(calls) /\ ret' = <<file.ctz.buf[file.pos + 1]>>
    BY <1>10, <1>13
  <2>2. /\ file'.open = file.open /\ file'.ctz = file.ctz /\ file'.inline = file.inline
        /\ file'.writing = file.writing /\ file'.pos = file.pos + 1 /\ file'.off = file.off
        /\ file'.block = file.block /\ file'.cur = file.cur /\ file'.dirty = file.dirty
        /\ file'.erred = file.erred
    BY <1>6, <1>13 DEF FileFields
  <2>3. Content = SubSeq(file.ctz.buf, 1, Size) /\ Size <= Len(file.ctz.buf)
    BY <1>3, <1>9, <1>13 DEF Meant
  <2>4. Content[file.pos + 1] = file.ctz.buf[file.pos + 1]
    <3>1. file.ctz.buf \in Seq(Data)
      BY DEF Facts, Typed
    <3> QED
      <4>1. PICK s \in Seq(Data) : s = file.ctz.buf
        BY <3>1
      <4>2. PICK n \in Nat : n = Size /\ n <= Len(s) /\ n = file.ctz.size
        BY <1>6, <1>7, <2>3, <4>1, FileAssumption DEF Sizes
      <4>3. PICK p \in Nat : p = file.pos /\ p < n
        BY <1>6, <1>13, <4>2
      <4>4. SubSeq(s, 1, n)[p + 1] = s[p + 1]
        BY <4>1, <4>2, <4>3
      <4> QED
        BY <2>3, <4>1, <4>2, <4>3, <4>4
  <2>5. Place'
    BY <1>13, <2>2 DEF Place
  <2>6. Len(ret') = 1 /\ file'.pos \in Sizes
    BY <1>6, <1>13, <2>1, <2>2, FileAssumption DEF Sizes
  <2> QED
    BY <1>2, <1>4, <1>6, <1>7, <1>11, <1>13, <2>1, <2>2, <2>4, <2>5, <2>6, ReadReturns
<1>14. CASE /\ file.pos < file.ctz.size /\ ~file.inline
            /\ LET b == IF InBlock THEN file.block
                        ELSE Find(disk, file.ctz.head, file.ctz.size, file.pos)
                   at == IF InBlock THEN file.off ELSE file.pos % BlockSize
               IN /\ file' = [file EXCEPT !.pos = @ + 1, !.reading = TRUE,
                                          !.stale = @ /\ InBlock,
                                          !.block = b, !.off = at + 1]
                  /\ Return(<<IF b \in Blocks /\ at + 1 \in DOMAIN disk[b].data
                              THEN disk[b].data[at + 1] ELSE Lost>>)
  <2>1. PICK b : b = Find(disk, file.ctz.head, file.ctz.size, file.pos)
    OBVIOUS
  <2>2. PICK at : at = file.pos % BlockSize
    OBVIOUS
  <2>3. InBlock => file.block = b /\ file.off = at
    BY <1>8, <1>14, <2>1, <2>2 DEF Place, InBlock
  <2>4. /\ file' = [file EXCEPT !.pos = @ + 1, !.reading = TRUE, !.stale = @ /\ InBlock,
                                !.block = b, !.off = at + 1]
        /\ Return(<<IF b \in Blocks /\ at + 1 \in DOMAIN disk[b].data
                    THEN disk[b].data[at + 1] ELSE Lost>>)
    <3>1. CASE InBlock
      BY <1>14, <2>3, <3>1
    <3>2. CASE ~InBlock
      BY <1>14, <2>1, <2>2, <3>2
    <3> QED
      BY <3>1, <3>2
  <2>5. PICK x : x = Cell(disk, file.ctz.head, file.ctz.size, file.pos)
    OBVIOUS
  <2>6. calls' = Front(calls) /\ ret' = <<x>>
    <3>1. x = IF b \in Blocks /\ at + 1 \in DOMAIN disk[b].data
              THEN disk[b].data[at + 1] ELSE Lost
      BY <2>1, <2>2, <2>5 DEF Cell
    <3> QED
      BY <1>10, <2>4, <3>1
  <2>7. /\ file'.open = file.open /\ file'.ctz = file.ctz /\ file'.inline = file.inline
        /\ file'.writing = file.writing /\ file'.pos = file.pos + 1 /\ file'.off = at + 1
        /\ file'.block = b /\ file'.cur = file.cur /\ file'.dirty = file.dirty
        /\ file'.erred = file.erred
    BY <1>6, <2>4 DEF FileFields
  <2>8. Content[file.pos + 1] = x
    <3>1. file.ctz.head # Inline
      BY <1>4, <1>14 DEF FileInv, Pending
    <3>2. Content = Cells(disk, file.ctz.head, file.ctz.size)
      BY <1>3, <1>4, <1>14, <3>1 DEF Content, Contents
    <3>3. file.pos + 1 \in 1 .. file.ctz.size /\ (file.pos + 1) - 1 = file.pos
      BY <1>6, <1>14 DEF Sizes
    <3> QED
      BY <2>5, <3>2, <3>3 DEF Cells
  <2>9. at \in 0 .. BlockSize - 1
    BY <1>6, <2>2, PlaceOf
  <2>10. Place'
    <3> SUFFICES ASSUME file'.off < BlockSize, file'.pos < file'.ctz.size
                 PROVE  /\ file'.block = Find(disk', file'.ctz.head, file'.ctz.size, file'.pos)
                        /\ file'.off = file'.pos % BlockSize
      BY DEF Place
    <3>1. Index(file.pos + 1) = Index(file.pos) /\ (file.pos + 1) % BlockSize = at + 1
      BY <1>6, <2>2, <2>7, PlaceNext
    <3>2. disk' = disk
      BY <1>11
    <3> QED
      BY <2>1, <2>7, <3>1, <3>2 DEF Find
  <2>11. Len(ret') = 1 /\ file'.pos \in Sizes /\ file'.off \in 0 .. BlockSize
    BY <1>6, <1>14, <2>6, <2>7, <2>9, FileAssumption DEF Sizes
  <2> QED
    BY <1>2, <1>4, <1>6, <1>7, <1>11, <1>14, <2>6, <2>7, <2>8, <2>10, <2>11, ReadReturns
<1> QED
  BY <1>12, <1>13, <1>14 DEF Fetch

-----------------------------------------------------------------------------
\* The calls

\* A handle that is opened stands for what is stored, or for nothing.
LEMMA OpenKeeps ==
  ASSUME FileInv, FileInv', Facts, NEW trunc \in BOOLEAN, NEW append \in BOOLEAN,
         Open(trunc, append)
  PROVE  Facts' /\ Promised
<1>1. /\ ~file.open /\ ret' = Nothing /\ UNCHANGED <<entry, disk, flight, calls>>
      /\ ops' = ops + 1 /\ ops < MaxOps /\ calls = <<>>
  BY DEF Open, alloc, FileInv, Shape
<1>2. /\ file'.open /\ file'.dirty = trunc /\ file'.erred = FALSE
      /\ ~file'.reading /\ ~file'.writing /\ file'.pos = 0 /\ file'.off = 0
      /\ file'.cur.prev = Null /\ file'.cur.data = <<>>
      /\ file'.inline <=> trunc \/ entry.head = Inline
      /\ trunc => file'.ctz.size = 0 /\ file'.ctz.buf = <<>> /\ file'.ctz.head = Inline
      /\ ~trunc => file'.ctz = entry
  <2>1. file' = [Fresh EXCEPT !.open = TRUE, !.append = append, !.dirty = trunc,
                           !.inline = trunc \/ entry.head = Inline,
                           !.ctz = IF trunc THEN @ ELSE entry]
    BY DEF Open
  <2> QED
    BY <2>1 DEF Fresh, Erased
<1>3. Meant(Contents(entry), Content)
  BY FactsMeant
<1>4. PICK s, c : s = Contents(entry) /\ c = IF trunc THEN <<>> ELSE s
  OBVIOUS
<1>5. Stored(s, entry, disk) /\ s \in Seq(Data) /\ c \in Seq(Data)
  BY <1>3, <1>4 DEF Meant, Stored
<1>6. Size' = file'.ctz.size /\ ~W'
  BY <1>2 DEF Size, W
<1>7. Meant(s, c)'
  <2>1. CASE trunc
    <3>1. c = <<>> /\ file'.inline /\ file'.ctz.size = 0 /\ file'.ctz.buf = <<>>
      BY <1>2, <1>4, <2>1
    <3>2. Size' <= Len(file'.ctz.buf) /\ c = SubSeq(file'.ctz.buf, 1, Size')
      BY <1>6, <3>1
    <3> QED
      BY <1>1, <1>2, <1>5, <1>6, <3>1, <3>2 DEF Meant
  <2>2. CASE ~trunc
    <3>1. c = s /\ file'.ctz = entry /\ (file'.inline <=> entry.head = Inline)
      BY <1>2, <1>4, <2>2
    <3>2. entry.head # Inline => OldIs(s, entry, disk)
      BY <1>5 DEF Stored, OldIs
    <3>3. entry.head = Inline => entry.size <= Len(entry.buf) /\ s = SubSeq(entry.buf, 1, entry.size)
      BY <1>5 DEF Stored
    <3> QED
      BY <1>1, <1>2, <1>5, <1>6, <3>1, <3>2, <3>3 DEF Meant
  <2> QED
    BY <2>1, <2>2
<1>8. Contents(entry)' = s /\ Content' = c /\ Meaning'
  BY <1>7, NextMeant
<1>9. Typed'
  <2>1. 0 \in Sizes /\ 0 \in 0 .. BlockSize /\ <<>> \in Seq(Data) /\ Len(<<>>) = 0
    BY FileAssumption DEF Sizes
  <2>2. ops' \in 0 .. MaxOps
    BY <1>1, FileAssumption DEF Facts, Typed
  <2>3. Len(file'.cur.data) <= BlockSize
    BY <1>2, <2>1, FileAssumption
  <2>4. file'.ctz.size \in Sizes /\ file'.ctz.buf \in Seq(Data)
    BY <1>2, <2>1 DEF Facts, Typed
  <2> QED
    BY <1>1, <1>2, <1>6, <2>1, <2>2, <2>3, <2>4 DEF Facts, Typed
<1>10. Stacked(calls', file'.pos, Len(Content'), More', Coming')
  BY <1>1, SingleStacked
<1>11. Nest' /\ Ends' /\ Reading' /\ Clean'
  BY <1>1, <1>2, <1>4, <1>8, <1>10 DEF Nest, Ends, Reading, Clean
<1>12. Position' = 0 /\ Task' = Promise!NoTask
  BY <1>1, <1>2, NoneIs
<1>13. Task = Promise!NoTask
  BY <1>1 DEF Task, Promise!NoTask
<1>14. Promise!Open
  BY <1>1, <1>2, <1>4, <1>8, <1>12, <1>13 DEF Promise!Open, Promise!Fresh, Promise!Nothing, Nothing
<1> QED
  BY <1>8, <1>9, <1>11, <1>14 DEF Facts, Promised, Promise!Next

\* A function is called.
LEMMA CallKeeps ==
  ASSUME FileInv, FileInv', Facts, NEW g, Call(g), FrameOK(g, Len(Content)),
         g.op \in Outermost, g.at = "begin", g.back = -1
  PROVE  Facts' /\ Promised
<1>1. /\ file.open /\ calls = <<>> /\ ops < MaxOps /\ ops' = ops + 1 /\ calls' = <<g>>
      /\ UNCHANGED <<entry, disk, flight, file, ret>>
  BY DEF Call, alloc
<1>2. UNCHANGED Substance
  BY <1>1 DEF Substance
<1>3. /\ W' = W /\ More' = More /\ Coming' = Coming /\ Contents(entry)' = Contents(entry)
      /\ Content' = Content /\ Meaning'
  BY <1>2, <1>1, Unmoved
<1>4. Typed'
  <2>1. Typed
    BY DEF Facts
  <2>2. ops' \in 0 .. MaxOps /\ flight' \subseteq Blocks /\ file'.erred \in BOOLEAN
    BY <1>1, <2>1, FileAssumption DEF Typed
  <2> QED
    BY <1>2, <2>1, <2>2, UnmovedTypes
<1>5. Len(calls') = 1 /\ calls'[1] = g /\ DOMAIN calls' = {1} /\ calls' # <<>> /\ Top' = g
  <2>1. Len(<<g>>) = 1 /\ <<g>>[1] = g /\ DOMAIN <<g>> = {1} /\ <<g>> # <<>>
    OBVIOUS
  <2>2. Last(<<g>>) = g
    BY <2>1 DEF Last
  <2> QED
    BY <1>1, <2>1, <2>2 DEF Top
<1>6. Stacked(calls', file'.pos, Len(Content'), More', Coming')
  <2>1. FrameOK(calls'[1], Len(Content'))
    BY <1>3, <1>5
  <2> QED
    BY <1>5, <2>1, SingleStacked
<1>7. g.op # "outline"
  BY DEF Outermost
<1>8. Ends'
  BY <1>5, <1>7 DEF Ends, Running
<1>9. Reading'
  BY <1>1, <1>5 DEF Facts, Reading, Place, Running
<1>10. Clean'
  BY <1>1, <1>3 DEF Facts, Clean
<1>11. Task = Promise!NoTask /\ Position = file.pos
  <2>1. Task = Promise!NoTask
    BY <1>1 DEF Task, Promise!NoTask
  <2>2. Saved(calls) = {}
    BY <1>1 DEF Saved
  <2> QED
    BY <2>1, <2>2, PositionTask DEF PositionOf
<1>12. Task' # Promise!NoTask /\ Position' = file.pos
  <2>1. TaskOf(calls').op = g.op
    BY <1>5 DEF TaskOf
  <2>2. \A k \in DOMAIN calls' : calls'[k].back = -1
    BY <1>5
  <2>3. PositionOf(calls', file'.pos) = file'.pos
    BY <2>2, SavedNone
  <2> QED
    BY <1>1, <2>1, <2>3, NextTask DEF Promise!NoTask, Outermost
<1>13. Promise!Call
  BY <1>1, <1>3, <1>11, <1>12 DEF Promise!Call
<1> QED
  BY <1>3, <1>4, <1>6, <1>8, <1>9, <1>10, <1>13 DEF Facts, Nest, Promised, Promise!Next

\* A call begins, or a file is opened.
LEMMA APIKeeps ==
  ASSUME FileInv, FileInv', Facts, API
  PROVE  Facts' /\ Promised
<1>1. ops \in 0 .. MaxOps
  BY DEF Facts, Typed
<1>2. 0 \in Sizes /\ <<>> \in Seq(Data) /\ -1 \in -1 .. MaxSize
  BY FileAssumption DEF Sizes
<1>3. CASE \E n \in 1 .. MaxWrite : Write(n)
  <2>1. PICK n \in 1 .. MaxWrite : Write(n)
    BY <1>3
  <2>2. ops < MaxOps
    BY <2>1 DEF Write, Call
  <2>3. PICK d : d = [k \in 1 .. n |-> ops + 1]
    OBVIOUS
  <2>4. ops + 1 \in Data
    BY <1>1, <2>2, FileAssumption DEF Data
  <2>5. d \in Seq(Data)
    BY <2>1, <2>3, <2>4
  <2>6. PICK g : g = [Frame("write") EXCEPT !.data = d]
    OBVIOUS
  <2>7. g.op = "write" /\ g.at = "begin" /\ g.n = 0 /\ g.data = d /\ g.back = -1
    BY <2>6 DEF Frame
  <2>8. FrameOK(g, Len(Content)) /\ g.op \in Outermost
    BY <1>2, <2>5, <2>7 DEF FrameOK, Outermost
  <2>9. Call(g)
    BY <2>1, <2>3, <2>6 DEF Write
  <2> QED
    BY <2>7, <2>8, <2>9, CallKeeps
<1>4. CASE \E p \in 0 .. MaxSize : Seek(p)
  <2>1. PICK p \in 0 .. MaxSize : Seek(p)
    BY <1>4
  <2>2. PICK g : g = [Frame("seek") EXCEPT !.n = p]
    OBVIOUS
  <2>3. g.op = "seek" /\ g.at = "begin" /\ g.n = p /\ g.data = <<>> /\ g.back = -1
    BY <2>2 DEF Frame
  <2>4. FrameOK(g, Len(Content)) /\ g.op \in Outermost
    BY <1>2, <2>3 DEF FrameOK, Outermost, Sizes
  <2> QED
    BY <2>1, <2>2, <2>3, <2>4, CallKeeps DEF Seek
<1>5. CASE \E n \in Cuts : Truncate(n)
  <2>1. PICK n \in Cuts : Truncate(n)
    BY <1>5
  <2>2. PICK g : g = [Frame("truncate") EXCEPT !.n = n]
    OBVIOUS
  <2>3. g.op = "truncate" /\ g.at = "begin" /\ g.n = n /\ g.data = <<>> /\ g.back = -1
    BY <2>2 DEF Frame
  <2>4. n \in Sizes
    BY FileAssumption DEF Sizes
  <2>5. FrameOK(g, Len(Content)) /\ g.op \in Outermost
    BY <1>2, <2>3, <2>4 DEF FrameOK, Outermost
  <2> QED
    BY <2>1, <2>2, <2>3, <2>5, CallKeeps DEF Truncate
<1>6. ASSUME NEW op \in {"read", "sync", "close"}, Call(Frame(op)) PROVE Facts' /\ Promised
  <2>1. PICK g : g = Frame(op)
    OBVIOUS
  <2>2. g.op = op /\ g.at = "begin" /\ g.n = 0 /\ g.data = <<>> /\ g.back = -1
    BY <2>1 DEF Frame
  <2>3. FrameOK(g, Len(Content)) /\ g.op \in Outermost
    BY <1>2, <2>2 DEF FrameOK, Outermost
  <2> QED
    BY <1>6, <2>1, <2>2, <2>3, CallKeeps
<1> QED
  BY <1>3, <1>4, <1>5, <1>6, OpenKeeps DEF API, Read, Sync, Close

-----------------------------------------------------------------------------
\* The flush

\* Functions that do not write do not care where the handle is.
LEMMA PlainStacked ==
  ASSUME NEW c, NEW p, NEW l, NEW z, NEW x, Stacked(c, p, l, z, x),
         \A k \in DOMAIN c : c[k].op \notin Inner,
         NEW q, NEW y, NEW u
  PROVE  Stacked(c, q, l, y, u)
<1>1. ASSUME NEW k \in DOMAIN c, k > 1 PROVE Fits(c[k - 1], c[k], q, l, y, u)
  <2>1. Fits(c[k - 1], c[k], p, l, z, x) /\ c[k].op \notin Inner
    BY <1>1 DEF Stacked
  <2> QED
    BY <2>1 DEF Fits, Inner
<1> QED
  BY <1>1 DEF Stacked

\* A flush is called, and what calls it does not write.
LEMMA FlushIs ==
  ASSUME FileInv, Facts, calls # <<>>, Top.op = "flush"
  PROVE  /\ Len(calls) > 1 /\ \A k \in DOMAIN calls : calls[k].op \notin Inner
         /\ Top.at = "begin" => Top.back = -1
         /\ Top.at # "begin" => Top.back \in Sizes
         /\ Top.data \in Seq(Data)
<1>1. /\ FrameOK(Top, Len(Content)) /\ IsStack(calls) /\ file.open /\ Framed(Top)
      /\ Top = calls[Len(calls)] /\ Len(calls) \in DOMAIN calls
      /\ Last(calls) = Top /\ Len(calls) \in Nat
      /\ Stacked(calls, file.pos, Len(Content), More, Coming)
  BY FactsTop
<1>2. Len(calls) # 1
  BY <1>1 DEF Stacked, Outermost
<1>3. Len(calls) > 1
  <2>1. PICK n : n = Len(calls)
    OBVIOUS
  <2>2. n \in Nat /\ n # 0 /\ n # 1
    BY <1>1, <1>2, <2>1, StackIs
  <2>3. n > 1
    BY ONLY <2>2
  <2> QED
    BY <2>1, <2>3
<1>4. \A k \in DOMAIN calls : calls[k].op \notin Inner
  <2>1. Last(calls).op \notin Inner
    BY <1>1 DEF Inner
  <2> QED
    BY <1>1, <2>1, Outer
<1>5. Top.at # "begin" => Top.back \in Sizes
  BY <1>1, FileAssumption DEF Framed, FrameOK, Sizes
<1> QED
  BY <1>1, <1>3, <1>4, <1>5 DEF FrameOK

\* What is below a flush waits for it.
LEMMA FlushEnds ==
  ASSUME FileInv, Facts, calls # <<>>, Top.op = "flush", calls' = Front(calls),
         ~file'.reading
  PROVE  /\ Ends' /\ Pops(calls, calls') /\ calls' # <<>> /\ IsStack(calls')
         /\ \A k \in DOMAIN calls' : calls'[k].op \notin Inner
<1>1. /\ IsStack(calls) /\ Top = calls[Len(calls)] /\ Len(calls) \in DOMAIN calls
      /\ Last(calls) = Top /\ Len(calls) \in Nat
  BY FactsTop
<1>2. Len(calls) > 1 /\ \A k \in DOMAIN calls : calls[k].op \notin Inner
  BY FlushIs
<1>3. Pops(calls, calls')
  BY <1>1, Popped
<1>4. PICK f : f = calls[Len(calls) - 1]
  OBVIOUS
<1>5. calls' # <<>> /\ Top' = f
  BY <1>2, <1>3, <1>4 DEF Pops, Top
<1>6. Called(f, Top)
  BY <1>2, <1>4, FactsTop
<1>7. \/ f.op \in Callers /\ f.at = "flushed"
      \/ f.op = "truncate" /\ f.at = "cut"
  BY <1>6 DEF Called
<1>8. Ends'
  BY <1>5, <1>7 DEF Ends, Running, Callers
<1> QED
  BY <1>2, <1>3, <1>5, <1>8 DEF Pops

\* lfs_file_flush leaves a reading handle, or saves the position of a writing one.
LEMMA FlushBeginKeeps ==
  ASSUME FileInv, FileInv', Facts, FlushBegin
  PROVE  Facts' /\ Promised
<1>1. /\ calls # <<>> /\ Top.op = "flush" /\ Top.at = "begin"
      /\ UNCHANGED <<entry, disk, flight, ops>>
  BY DEF FlushBegin, At, Kept, alloc
<1>2. /\ FrameOK(Top, Len(Content)) /\ IsStack(calls) /\ file.open /\ Framed(Top)
      /\ Top = calls[Len(calls)] /\ Len(calls) \in DOMAIN calls
      /\ Last(calls) = Top /\ Len(calls) \in Nat
      /\ Stacked(calls, file.pos, Len(Content), More, Coming)
  BY <1>1, FactsTop
<1>3. /\ Len(calls) > 1 /\ Top.back = -1
      /\ \A k \in DOMAIN calls : calls[k].op \notin Inner
  BY <1>1, FlushIs
<1>4. DOMAIN file = FileFields /\ file.pos \in Nat /\ file.ctz.size \in Nat
      /\ DOMAIN file.ctz = {"head", "size", "buf"}
  BY DEF FileInv, Shape
<1>5. ASSUME Return(Nothing), ~file'.reading
      PROVE  /\ calls' = Front(calls) /\ ret' = ret /\ SameTask(calls, calls')
             /\ Ends' /\ Pops(calls, calls')
             /\ \A k \in DOMAIN calls' : calls'[k].op \notin Inner
  <2>1. calls' = Front(calls) /\ ret' = ret
    BY <1>2, <1>3, <1>5 DEF Return
  <2>2. /\ Ends' /\ Pops(calls, calls') /\ calls' # <<>>
        /\ \A k \in DOMAIN calls' : calls'[k].op \notin Inner
    BY <1>1, <1>5, <2>1, FlushEnds
  <2>3. SameTask(calls, calls')
    BY <1>1, <1>2, <1>3, <2>2, PopTask
  <2> QED
    BY <2>1, <2>2, <2>3
<1>6. CASE ~file.writing /\ file' = [file EXCEPT !.reading = FALSE] /\ Return(Nothing)
  <2>1. /\ file'.open = file.open /\ file'.ctz = file.ctz /\ file'.inline = file.inline
        /\ file'.writing = file.writing /\ file'.pos = file.pos /\ file'.off = file.off
        /\ file'.block = file.block /\ file'.cur = file.cur /\ file'.dirty = file.dirty
        /\ ~file'.reading /\ file'.erred = file.erred
    BY <1>4, <1>6 DEF FileFields
  <2>2. UNCHANGED Substance
    BY <1>1, <2>1 DEF Substance
  <2> QED
    BY <1>1, <1>5, <1>6, <2>1, <2>2, FactsTop, QuietReturns
<1>7. CASE /\ file.writing /\ file.inline /\ Return(Nothing)
           /\ file' = [file EXCEPT !.ctz.size = Larger(@, file.pos),
                                   !.writing = FALSE, !.dirty = TRUE]
  <2>1. /\ file'.open = file.open /\ file'.ctz.head = file.ctz.head
        /\ file'.ctz.buf = file.ctz.buf /\ file'.inline = file.inline
        /\ file'.ctz.size = Larger(file.ctz.size, file.pos)
        /\ file'.pos = file.pos /\ file'.off = file.off
        /\ file'.block = file.block /\ file'.cur = file.cur /\ file'.dirty
        /\ file'.reading = file.reading /\ file'.erred = file.erred /\ ~file'.writing
    BY <1>4, <1>7 DEF FileFields
  <2>2. ~file.reading
    BY <1>7 DEF Facts, Reading
  <2>3. Size' = Size /\ file'.ctz.size \in Sizes
    BY <1>4, <1>7, <2>1, FileAssumption DEF Size, Larger, Facts, Typed, Sizes
  <2>4. Meant(Contents(entry), Content)
    BY FactsMeant
  <2>5. PICK s, c : s = Contents(entry) /\ c = Content
    OBVIOUS
  <2>6. Meant(s, c)'
    <3>1. ~W'
      BY <2>1 DEF W
    <3>2. Size <= Len(file.ctz.buf) /\ c = SubSeq(file.ctz.buf, 1, Size)
      BY <1>2, <1>7, <2>4, <2>5 DEF Meant
    <3> QED
      BY <1>1, <1>2, <1>7, <2>1, <2>3, <2>4, <2>5, <3>1, <3>2 DEF Meant
  <2>7. Contents(entry)' = Contents(entry) /\ Content' = Content /\ Meaning'
    BY <2>5, <2>6, NextMeant
  <2>8. /\ calls' = Front(calls) /\ ret' = ret /\ SameTask(calls, calls')
        /\ Ends' /\ Pops(calls, calls')
        /\ \A k \in DOMAIN calls' : calls'[k].op \notin Inner
    BY <1>5, <1>7, <2>1, <2>2
  <2>9. Typed'
    <3>1. ~W'
      BY <2>1 DEF W
    <3> QED
      BY <1>1, <2>1, <2>3, <3>1 DEF Facts, Typed
  <2>10. Stacked(calls', file'.pos, Len(Content'), More', Coming')
    <3>1. Stacked(calls', file.pos, Len(Content), More, Coming)
      BY <1>1, <1>2, <2>8, PopStacked
    <3> QED
      BY <2>7, <2>8, <3>1, PlainStacked
  <2>11. Nest' /\ Reading' /\ Clean'
    BY <2>1, <2>2, <2>10 DEF Nest, Reading, Clean
  <2>12. Promised
    BY <1>2, <2>1, <2>7, <2>8, Stutters
  <2> QED
    BY <2>7, <2>8, <2>9, <2>11, <2>12 DEF Facts
<1>8. CASE /\ file.writing /\ ~file.inline /\ UNCHANGED <<file, ret>>
           /\ calls' = [GoTo("copy") EXCEPT ![Len(calls)].back = file.pos]
  <2>1. PICK f : f = [Top EXCEPT !.at = "copy", !.back = file.pos]
    OBVIOUS
  <2>2. f.op = "flush" /\ f.at = "copy" /\ f.n = Top.n /\ f.data = Top.data /\ f.back = file.pos
    BY <1>1, <1>2, <2>1 DEF Framed
  <2>3. calls' = [calls EXCEPT ![Len(calls)] = f]
    <3>1. GoTo("copy") = [calls EXCEPT ![Len(calls)] = [Top EXCEPT !.at = "copy"]]
      BY <1>2 DEF GoTo
    <3>2. \E S : calls \in Seq(S)
      BY <1>2 DEF IsStack
    <3> QED
      BY <1>2, <1>8, <2>1, <3>1, <3>2
  <2>4. FrameOK(f, Len(Content))
    BY <1>2, <2>2 DEF FrameOK, Facts, Typed, Sizes
  <2>5. Fits(calls[Len(calls) - 1], f, file.pos, Len(Content), More, Coming)
    BY <2>2 DEF Fits
  <2>6. ~file.reading
    BY <1>8 DEF Facts, Reading
  <2>7. Top' = f => Ends'
    BY <1>8, <2>2, <2>6 DEF Ends, Running
  <2>8. Facts'
    BY <1>1, <1>2, <1>8, <2>2, <2>3, <2>4, <2>5, <2>7, FactsTop, QuietTurns DEF Running
  <2>9. Contents(entry)' = Contents(entry) /\ Content' = Content
    <3>1. UNCHANGED Substance
      BY <1>1, <1>8 DEF Substance
    <3> QED
      BY <1>2, <3>1, Unmoved
  <2>10. Turn(calls, f, calls')
    BY <1>1, <1>2, <2>3, TurnShape
  <2>11. TaskOf(calls') = TaskOf(calls)
    <3>1. calls'[1] = calls[1] /\ calls' # <<>>
      <4>1. 1 \in DOMAIN calls /\ 1 # Len(calls)
        BY <1>2, <1>3, StackIs
      <4> QED
        BY <2>10, <4>1 DEF Turn
    <3> QED
      BY <1>1, <3>1 DEF TaskOf
  <2>12. PositionOf(calls', file.pos) = PositionOf(calls, file.pos)
    <3>1. PICK n \in Nat : n = Len(calls)
      BY <1>2
    <3>2. calls'[n].back = file.pos /\ n \in DOMAIN calls'
      BY <1>2, <2>2, <2>10, <3>1 DEF Turn
    <3>3. \A k \in Saved(calls) : k < n
      BY <1>2, <1>3, <3>1, StackIs DEF Saved
    <3>4. Saved(calls') = Saved(calls) \cup {n}
      <4>1. \A k \in DOMAIN calls : k # n => calls'[k] = calls[k]
        BY <2>10, <3>1 DEF Turn
      <4>2. DOMAIN calls' = DOMAIN calls
        BY <2>10 DEF Turn
      <4>3. file.pos # -1
        BY <1>4
      <4> QED
        BY <1>2, <1>3, <3>1, <3>2, <4>1, <4>2, <4>3 DEF Saved
    <3>5. \A k \in Saved(calls) : calls'[k].back = calls[k].back
      BY <2>10, <3>1, <3>3, <1>2, StackIs DEF Turn, Saved
    <3> QED
      BY <1>2, <3>1, <3>2, <3>3, <3>4, <3>5, SavedMore
  <2>13. Promised
    BY <1>8, <2>9, <2>11, <2>12, Stays
  <2> QED
    BY <2>8, <2>13
<1> QED
  BY <1>6, <1>7, <1>8 DEF FlushBegin

-----------------------------------------------------------------------------
\* The sync

\* A sync is called from outside, or by a close.
LEMMA SyncIs ==
  ASSUME FileInv, Facts, calls # <<>>, Top.op = "sync"
  PROVE  calls[1].op \in {"sync", "close"} /\ Top.back = -1
<1>1. /\ FrameOK(Top, Len(Content)) /\ IsStack(calls)
      /\ Top = calls[Len(calls)] /\ Len(calls) \in Nat
  BY FactsTop
<1>2. CASE Len(calls) = 1
  BY <1>1, <1>2 DEF FrameOK
<1>3. CASE Len(calls) # 1
  <2>1. PICK f : f = calls[Len(calls) - 1]
    OBVIOUS
  <2>2. Len(calls) > 1
    <3>1. PICK n : n = Len(calls)
      OBVIOUS
    <3>2. n \in Nat /\ n # 0 /\ n # 1
      BY <1>1, <1>3, <3>1, StackIs
    <3>3. n > 1
      BY ONLY <3>2
    <3> QED
      BY <3>1, <3>3
  <2>3. Called(f, Top) /\ Len(calls) - 1 \in DOMAIN calls
    BY <2>1, <2>2, FactsTop
  <2>4. f.op = "close"
    BY <2>3 DEF Called
  <2>5. \A k \in DOMAIN calls : calls[k].op \in {"truncate", "close", "read"} => k = 1
    BY <1>1, Bottom
  <2>6. Len(calls) - 1 = 1
    BY <2>1, <2>3, <2>4, <2>5
  <2> QED
    BY <1>1, <2>1, <2>4, <2>6 DEF FrameOK
<1> QED
  BY <1>2, <1>3

\* What lfs_file_sync commits is what the handle stands for.
LEMMA SyncStores ==
  ASSUME FileInv, Facts, calls # <<>>, Top.op = "sync", Top.at = "flushed"
  PROVE  ~file.reading /\ ~file.writing /\ Stored(Content, file.ctz, disk)
<1>1. file.open /\ AtFlushed
  BY FactsTop, TopIs
<1>2. ~file.reading /\ ~file.writing
  BY <1>1 DEF Facts, Ends, AtFlushed, Callers
<1>3. Meant(Contents(entry), Content)
  BY FactsMeant
<1>4. PICK c : c = Content
  OBVIOUS
<1>5. Size = file.ctz.size /\ file.ctz.size \in Nat
  BY <1>2 DEF Size, FileInv, Shape
<1>6. CASE file.inline
  <2>1. Size <= Len(file.ctz.buf) /\ c = SubSeq(file.ctz.buf, 1, Size)
    BY <1>1, <1>3, <1>4, <1>6 DEF Meant
  <2>2. PICK s \in Seq(Data) : s = file.ctz.buf
    BY DEF Facts, Typed
  <2>3. PICK n \in Nat : n = Size /\ n <= Len(s)
    BY <1>5, <2>1, <2>2
  <2>4. c \in Seq(Data) /\ Len(c) = n
    BY <2>1, <2>2, <2>3
  <2>5. file.ctz.head = Inline
    BY <1>6 DEF FileInv, Small
  <2> QED
    BY <1>2, <1>4, <1>5, <2>1, <2>3, <2>4, <2>5 DEF Stored
<1>7. CASE ~file.inline
  <2>1. OldIs(c, file.ctz, disk)
    BY <1>1, <1>2, <1>3, <1>4, <1>7 DEF Meant
  <2>2. file.ctz.head # Inline
    BY <1>2, <1>7 DEF FileInv, Pending
  <2> QED
    BY <1>2, <1>4, <2>1, <2>2 DEF Stored, OldIs
<1> QED
  BY <1>6, <1>7

\* The commit stores what the handle stands for.
LEMMA CommitKeeps ==
  ASSUME FileInv, FileInv', Facts, Commit
  PROVE  Facts' /\ Promised
<1>1. /\ calls # <<>> /\ Top.op = "sync" /\ Top.at = "flushed" /\ Committable
      /\ entry' = file.ctz /\ file' = [file EXCEPT !.dirty = FALSE]
      /\ UNCHANGED <<disk, flight, calls, ops, ret>>
  BY DEF Commit, At, alloc
<1>2. /\ IsStack(calls) /\ file.open /\ AtFlushed /\ Top = calls[Len(calls)]
      /\ Len(calls) \in DOMAIN calls
  BY <1>1, FactsTop, TopIs
<1>3. ~file.reading /\ ~file.writing
  BY <1>1, <1>2 DEF Facts, Ends, AtFlushed, Callers
<1>4. /\ file'.open = file.open /\ file'.ctz = file.ctz /\ file'.inline = file.inline
      /\ file'.writing = file.writing /\ file'.pos = file.pos /\ file'.off = file.off
      /\ file'.block = file.block /\ file'.cur = file.cur /\ file'.dirty = FALSE
      /\ file'.reading = file.reading /\ file'.erred = file.erred
  BY <1>1 DEF FileInv, Shape, FileFields
<1>5. Meant(Contents(entry), Content)
  BY FactsMeant
<1>6. PICK c : c = Content
  OBVIOUS
<1>7. Size = file.ctz.size /\ Size' = Size /\ ~W /\ ~W' /\ file.ctz.size \in Nat
  BY <1>3, <1>4 DEF Size, W, FileInv, Shape
<1>8. Stored(c, file.ctz, disk)
  BY <1>1, <1>6, SyncStores
<1>9. Meant(c, c)'
  BY <1>1, <1>2, <1>3, <1>4, <1>5, <1>6, <1>7, <1>8 DEF Meant
<1>10. Contents(entry)' = c /\ Content' = c /\ Meaning'
  BY <1>9, NextMeant
<1>11. Typed'
  BY <1>1, <1>4, <1>7 DEF Facts, Typed
<1>12. Stacked(calls', file'.pos, Len(Content'), More', Coming')
  <2>1. More' = More /\ Coming' = Coming
    BY <1>1, <1>4 DEF More, Coming
  <2> QED
    BY <1>1, <1>4, <1>6, <1>10, <2>1, FactsTop
<1>13. Nest' /\ Reading' /\ Clean'
  BY <1>3, <1>4, <1>10, <1>12 DEF Nest, Reading, Clean
<1>14. Ends'
  <2>1. Top' = Top
    BY <1>1 DEF Top
  <2> QED
    BY <1>1, <1>3, <1>4, <2>1 DEF Ends, Running
<1>15. Task.op \in {"sync", "close"}
  BY <1>1, SyncIs, TaskIs
<1>16. Position' = Position /\ Task' = Task
  BY <1>1, <1>4, PositionTask, NextTask
<1>17. Promise!Store
  <2>1. ~file.erred
    BY <1>1 DEF Committable
  <2> QED
    BY <1>1, <1>4, <1>6, <1>10, <1>15, <1>16, <2>1 DEF Promise!Store
<1> QED
  BY <1>10, <1>11, <1>13, <1>14, <1>17 DEF Facts, Promised, Promise!Next

\* The commit of lfs_file_sync fails, before it has landed or after.
LEMMA CommitFailsKeeps ==
  ASSUME FileInv, FileInv', Facts, CommitFails
  PROVE  Facts' /\ Promised
<1>1. /\ calls # <<>> /\ Top.op = "sync" /\ Top.at = "flushed" /\ Fails
      /\ ~file.erred /\ entry' \in {entry, file.ctz}
      /\ UNCHANGED <<disk, alloc, ops>>
  BY DEF CommitFails, Committable, At
<1>2. ~file.reading /\ ~file.writing /\ Stored(Content, file.ctz, disk)
  BY <1>1, SyncStores
<1>3. CASE entry' = entry
  BY <1>1, <1>2, <1>3, FailsKeeps
<1>4. CASE entry' = file.ctz
  <2>1. file.open /\ flight' \subseteq Blocks /\ Meant(Contents(entry), Content)
    BY <1>1, FactsTop, FactsMeant DEF alloc
  <2>2. PICK c : c = Content
    OBVIOUS
  <2>3. Stored(c, entry', disk')
    BY <1>1, <1>2, <1>4, <2>2
  <2>4. Sound'
    BY <1>1, <1>4 DEF Facts, Typed, Sound
  <2>5. calls[1].op \in {"sync", "close"}
    BY <1>1, SyncIs
  <2>6. ASSUME calls[1].op # "close" PROVE Meant(c, c)'
    <3>1. /\ file'.open = file.open /\ file'.ctz = file.ctz /\ file'.inline = file.inline
          /\ file'.writing = file.writing /\ file'.pos = file.pos
      BY <1>1, <2>6, ErredIs
    <3>2. Size' = Size /\ ~W' /\ ~W
      BY <1>2, <3>1 DEF Size, W
    <3> QED
      BY <1>1, <1>2, <2>1, <2>2, <2>3, <3>1, <3>2 DEF Meant
  <2> QED
    BY <1>1, <1>2, <2>1, <2>2, <2>3, <2>4, <2>5, <2>6, FailsStoring
<1> QED
  BY <1>1, <1>3, <1>4

-----------------------------------------------------------------------------
\* A file that leaves the directory

\* The copying to a block is called.
LEMMA OutlineKeeps ==
  ASSUME FileInv, FileInv', Facts, calls # <<>>, file.inline, ~file.reading,
         UNCHANGED <<entry, disk, ops, ret>>, flight' = {},
         file' = [file EXCEPT !.off = file.pos], file.pos <= InlineMax,
         NEW f, Alike(f, Top), FrameOK(f, Len(Content)),
         f.op = "write" => file.pos + Len(f.data) <= MaxSize,
         calls' = Append([calls EXCEPT ![Len(calls)] = f], Frame("outline"))
  PROVE  Facts' /\ Promised
<1>1. /\ IsStack(calls) /\ file.open /\ Last(calls) = Top
      /\ Stacked(calls, file.pos, Len(Content), More, Coming)
  BY FactsTop
<1>2. /\ file'.open = file.open /\ file'.ctz = file.ctz /\ file'.inline = file.inline
      /\ file'.writing = file.writing /\ file'.pos = file.pos /\ file'.off = file.pos
      /\ file'.block = file.block /\ file'.cur = file.cur /\ file'.dirty = file.dirty
      /\ file'.reading = file.reading /\ file'.erred = file.erred
  BY DEF FileInv, Shape, FileFields
<1>3. Meant(Contents(entry), Content)
  BY FactsMeant
<1>4. PICK s, c : s = Contents(entry) /\ c = Content
  OBVIOUS
<1>5. Size' = Size /\ ~W /\ ~W' /\ More' = More /\ Coming' = Coming
  BY <1>2 DEF Size, W, More, Coming
<1>6. Meant(s, c)'
  BY <1>1, <1>2, <1>3, <1>4, <1>5 DEF Meant
<1>7. Contents(entry)' = Contents(entry) /\ Content' = Content /\ Meaning'
  BY <1>4, <1>6, NextMeant
<1>8. Typed'
  <2>1. file.pos \in 0 .. BlockSize
    BY FileAssumption DEF FileInv, Shape
  <2> QED
    BY <1>2, <1>5, <2>1 DEF Facts, Typed
<1>9. PICK g : g = Frame("outline")
  OBVIOUS
<1>10. g.op = "outline" /\ g.at = "begin" /\ g.n = 0 /\ g.data = <<>> /\ g.back = -1
  BY <1>9 DEF Frame
<1>11. FrameOK(g, Len(Content)) /\ Fits(f, g, file.pos, Len(Content), More, Coming)
  BY <1>10, FileAssumption DEF FrameOK, Sizes, Fits
<1>12. Push(calls, f, g, calls')
  BY <1>1, <1>9, PushShape
<1>13. Stacked(calls', file.pos, Len(Content), More, Coming)
  BY <1>1, <1>10, <1>11, <1>12, PushStacked
<1>14. SameTask(calls, calls')
  BY <1>1, <1>10, <1>12, PushTask
<1>15. Ends'
  BY <1>2, <1>10, <1>12 DEF Ends, Running, Push, Top
<1>16. Nest' /\ Reading' /\ Clean'
  BY <1>1, <1>2, <1>5, <1>7, <1>13 DEF Facts, Nest, Reading, Clean
<1>17. Promised
  BY <1>1, <1>2, <1>7, <1>14, Stutters
<1> QED
  BY <1>7, <1>8, <1>15, <1>16, <1>17 DEF Facts

\* The directory has no room for an inline file, at whose end the handle stands.
LEMMA CommitFullKeeps ==
  ASSUME FileInv, FileInv', Facts, ~FullElsewhere, CommitFull
  PROVE  Facts' /\ Promised
<1>1. /\ calls # <<>> /\ Top.op = "sync" /\ Top.at = "flushed"
      /\ file.inline /\ file.pos = file.ctz.size
      /\ flight' = {} /\ Enter("begin", Frame("outline"))
      /\ UNCHANGED <<entry, disk, ops>>
  BY DEF CommitFull, At, Kept
<1>9. file' = [file EXCEPT !.off = file.pos]
  BY <1>1 DEF CommitFull, FileInv, Shape
<1>2. /\ FrameOK(Top, Len(Content)) /\ Framed(Top) /\ Top = calls[Len(calls)]
  BY <1>1, FactsTop
<1>3. ~file.reading
  BY <1>1 DEF Facts, Ends
<1>4. file.pos <= InlineMax
  BY <1>1 DEF FileInv, Small
<1>5. PICK f : f = [Top EXCEPT !.at = "begin"]
  OBVIOUS
<1>6. f.op = "sync" /\ f.at = "begin" /\ Alike(f, Top)
  BY <1>1, <1>2, <1>5 DEF Alike, Framed
<1>7. FrameOK(f, Len(Content))
  BY <1>1, <1>2, <1>6 DEF FrameOK, Alike
<1>8. calls' = Append([calls EXCEPT ![Len(calls)] = f], Frame("outline")) /\ ret' = ret
  BY <1>1, <1>2, <1>5 DEF Enter, GoTo
<1> QED
  BY <1>1, <1>3, <1>4, <1>6, <1>7, <1>8, <1>9, OutlineKeeps

\* An inline file that a write makes too large is moved to a block first.
LEMMA CheckKeeps ==
  ASSUME FileInv, FileInv', Facts, Check
  PROVE  Facts' /\ Promised
<1>1. /\ calls # <<>> /\ Top.op = "write" /\ Top.at = "check"
      /\ UNCHANGED <<entry, disk, ops>>
  BY DEF Check, At, Kept
<1>2. /\ FrameOK(Top, Len(Content)) /\ Framed(Top) /\ Top = calls[Len(calls)]
      /\ Len(calls) \in DOMAIN calls /\ flight \subseteq Blocks /\ Standing
      /\ IsStack(calls)
  BY <1>1, FactsTop, TopIs DEF Running
<1>3. ~file.reading
  BY <1>1, <1>2 DEF Facts, Reading, Running
<1>4. file.pos + Len(Top.data) <= MaxSize
  BY <1>1 DEF Facts, Ends, Running
<1>5. CASE /\ file.inline /\ file' = [file EXCEPT !.off = file.pos]
           /\ flight' = {} /\ Enter("loop", Frame("outline"))
  <2>1. PICK f : f = [Top EXCEPT !.at = "loop"]
    OBVIOUS
  <2>2. f.op = "write" /\ f.at = "loop" /\ Alike(f, Top)
    BY <1>1, <1>2, <2>1 DEF Alike, Framed
  <2>3. FrameOK(f, Len(Content))
    BY <1>1, <1>2, <2>2 DEF FrameOK, Alike
  <2>4. calls' = Append([calls EXCEPT ![Len(calls)] = f], Frame("outline")) /\ ret' = ret
    BY <1>2, <1>5, <2>1 DEF Enter, GoTo
  <2>5. file.pos <= InlineMax
    BY <1>2, <1>5 DEF Standing
  <2>6. file.pos + Len(f.data) <= MaxSize
    BY <1>4, <2>2 DEF Alike
  <2> QED
    BY <1>1, <1>3, <1>5, <2>2, <2>3, <2>4, <2>5, <2>6, OutlineKeeps
<1>6. CASE Continue("loop") /\ UNCHANGED <<alloc, file>>
  <2>1. ASSUME NEW f, Alike(f, Top), f.at = "loop" PROVE FrameOK(f, Len(Content))
    BY <1>1, <1>2, <2>1 DEF FrameOK, Alike
  <2>2. Alike(Top', Top) /\ Top'.at = "loop" => Ends'
    BY <1>1, <1>3, <1>4, <1>6 DEF Alike, Ends, Running
  <2>3. flight' \subseteq Blocks
    BY <1>2, <1>6 DEF alloc
  <2> QED
    BY <1>1, <1>6, <2>1, <2>2, <2>3, TurnsAt
<1> QED
  BY <1>5, <1>6 DEF Check

-----------------------------------------------------------------------------
\* The write

\* If nothing comes next, it does not matter what.
LEMMA NoMoreStacked ==
  ASSUME NEW c, NEW p, NEW l, NEW z, NEW x, Stacked(c, p, l, z, x), ~z, NEW y, NEW u, ~y
  PROVE  Stacked(c, p, l, y, u)
<1>1. ASSUME NEW k \in DOMAIN c, k > 1 PROVE Fits(c[k - 1], c[k], p, l, y, u)
  <2>1. Fits(c[k - 1], c[k], p, l, z, x)
    BY <1>1 DEF Stacked
  <2> QED
    BY <2>1 DEF Fits
<1> QED
  BY <1>1 DEF Stacked

\* A running write goes on, with the same contents.
LEMMA WriteTurns ==
  ASSUME FileInv, FileInv', Facts, calls # <<>>, Running(Top), NEW a, Continue(a),
         Contents(entry)' = Contents(entry), Content' = Content, Meaning', Typed',
         More' = More, More => Coming' = Coming, file'.pos = file.pos,
         file'.erred = file.erred, ~file'.reading, Clean', Alike(Top', Top) /\ Top'.at = a => Ends'
  PROVE  Facts' /\ Promised
<1>1. PICK f : f = [Top EXCEPT !.at = a]
  OBVIOUS
<1>2. /\ Framed(Top) /\ IsStack(calls) /\ Top = calls[Len(calls)] /\ Len(calls) \in DOMAIN calls
      /\ Last(calls) = Top /\ FrameOK(Top, Len(Content))
      /\ Len(calls) > 1 => Fits(calls[Len(calls) - 1], Top, file.pos, Len(Content), More, Coming)
      /\ Stacked(calls, file.pos, Len(Content), More, Coming)
  BY FactsTop
<1>3. Alike(f, Top) /\ f.at = a /\ f.op = "write"
  BY <1>1, <1>2 DEF Alike, Framed, Running
<1>4. calls' = [calls EXCEPT ![Len(calls)] = f] /\ ret' = ret
  BY <1>1, <1>2 DEF Continue, GoTo
<1>5. Turn(calls, f, calls')
  BY <1>2, <1>4, TurnShape
<1>6. SameTask(calls, calls')
  BY <1>2, <1>3, <1>5, TurnTask DEF Alike
<1>7. Len(calls) > 1 => Fits(calls[Len(calls) - 1], f, file.pos, Len(Content), More, Coming)
  BY <1>2, <1>3, FitsAlike
<1>8. FrameOK(f, Len(Content))
  BY <1>2, <1>3 DEF FrameOK, Alike, Running
<1>9. Stacked(calls', file.pos, Len(Content), More, Coming)
  BY <1>2, <1>3, <1>5, <1>7, <1>8, TurnStacked DEF Running
<1>10. Nest' /\ Reading'
  <2>1. Stacked(calls', file.pos, Len(Content), More', Coming')
    <3>1. CASE More
      BY <1>9, <3>1
    <3>2. CASE ~More
      BY <1>9, <3>2, NoMoreStacked
    <3> QED
      BY <3>1, <3>2
  <2> QED
    BY <2>1 DEF Nest, Reading
<1>11. Ends'
  <2>1. Top' = f
    BY <1>5 DEF Turn, Top
  <2> QED
    BY <1>3, <2>1
<1>12. Promised
  BY <1>2, <1>4, <1>6, Stutters
<1> QED
  BY <1>10, <1>11, <1>12 DEF Facts

\* A write goes on in its block, or looks up the block to go on from.
LEMMA NeedsBlockKeeps ==
  ASSUME FileInv, FileInv', Facts, NeedsBlock
  PROVE  Facts' /\ Promised
<1>1. /\ calls # <<>> /\ Top.op = "write" /\ Top.at = "loop" /\ Top.data # <<>>
      /\ UNCHANGED <<entry, disk, ops>>
  BY DEF NeedsBlock, At, Kept
<1>2. /\ FrameOK(Top, Len(Content)) /\ Framed(Top) /\ Top = calls[Len(calls)]
      /\ Len(calls) \in DOMAIN calls /\ flight \subseteq Blocks /\ Standing
      /\ IsStack(calls) /\ file.open /\ Running(Top)
  BY <1>1, FactsTop, TopIs DEF Running
<1>3. ~file.reading
  BY <1>1, <1>2 DEF Facts, Reading, Running
<1>4. file.pos + Len(Top.data) <= MaxSize
  BY <1>1 DEF Facts, Ends, Running
<1>5. /\ DOMAIN file = FileFields /\ file.pos \in Nat /\ file.ctz.size \in Nat
  BY DEF FileInv, Shape
<1>6. Meant(Contents(entry), Content)
  BY FactsMeant
<1>7. PICK s, c : s = Contents(entry) /\ c = Content
  OBVIOUS
<1>8. ASSUME NEW a, a # "begin", Continue(a), UNCHANGED file, flight' \subseteq Blocks,
             a = "extend" => file.writing
      PROVE  Facts' /\ Promised
  <2>1. ASSUME NEW f, Alike(f, Top), f.at = a PROVE FrameOK(f, Len(Content))
    BY <1>1, <1>2, <2>1 DEF FrameOK, Alike
  <2>2. Alike(Top', Top) /\ Top'.at = a => Ends'
    BY <1>1, <1>3, <1>4, <1>8 DEF Alike, Ends, Running
  <2> QED
    BY <1>1, <1>8, <2>1, <2>2, TurnsAt
<1>9. CASE /\ file.writing /\ (file.inline \/ file.off < BlockSize)
           /\ Continue("prog") /\ UNCHANGED <<alloc, file>>
  BY <1>2, <1>8, <1>9 DEF alloc
<1>10. CASE /\ ~file.writing /\ file.inline
            /\ file' = [file EXCEPT !.writing = TRUE, !.off = file.pos]
            /\ Continue("prog") /\ UNCHANGED alloc
  <2>1. /\ file'.open = file.open /\ file'.ctz = file.ctz /\ file'.inline = file.inline
        /\ file'.writing /\ file'.pos = file.pos /\ file'.off = file.pos
        /\ file'.block = file.block /\ file'.cur = file.cur /\ file'.dirty = file.dirty
        /\ file'.reading = file.reading /\ file'.erred = file.erred
    BY <1>5, <1>10 DEF FileFields
  <2>2. Size' = Size /\ ~W /\ ~W' /\ More' = More /\ Coming' = Coming
    <3>1. file.pos <= file.ctz.size
      BY <1>2, <1>10 DEF Standing
    <3> QED
      BY <1>1, <1>5, <1>10, <2>1, <3>1 DEF Size, Larger, W, More, Coming
  <2>3. Meant(s, c)'
    BY <1>1, <1>2, <1>6, <1>7, <1>10, <2>1, <2>2 DEF Meant
  <2>4. Contents(entry)' = Contents(entry) /\ Content' = Content /\ Meaning'
    BY <1>7, <2>3, NextMeant
  <2>5. Typed'
    <3>1. file.pos \in 0 .. BlockSize
      BY <1>2, <1>5, <1>10, FileAssumption DEF Standing
    <3>2. flight' = flight
      BY <1>10 DEF alloc
    <3> QED
      BY <1>1, <2>1, <2>2, <3>1, <3>2 DEF Facts, Typed
  <2>6. Clean'
    BY <2>1 DEF Clean
  <2>7. Alike(Top', Top) /\ Top'.at = "prog" => Ends'
    BY <1>1, <1>3, <1>4, <2>1 DEF Alike, Ends, Running
  <2> QED
    BY <1>1, <1>2, <1>3, <1>10, <2>1, <2>2, <2>4, <2>5, <2>6, <2>7, WriteTurns
<1>11. CASE /\ ~file.inline /\ (~file.writing \/ file.off = BlockSize)
            /\ LET b == IF file.pos = 0 THEN Null
                        ELSE Find(disk, file.ctz.head, file.ctz.size, file.pos - 1)
               IN file' = IF file.writing THEN file
                          ELSE [file EXCEPT !.block = b,
                                  !.cur = IF b \in Blocks THEN disk[b] ELSE Erased]
            /\ flight' = {} /\ Continue("extend")
  <2>1. CASE file.writing
    BY <1>8, <1>11, <2>1
  <2>2. CASE ~file.writing
    <3>1. PICK b : b = IF file.pos = 0 THEN Null
                       ELSE Find(disk, file.ctz.head, file.ctz.size, file.pos - 1)
      OBVIOUS
    <3>2. PICK u : u = IF b \in Blocks THEN disk[b] ELSE Erased
      OBVIOUS
    <3>3. file' = [file EXCEPT !.block = b, !.cur = u]
      BY <1>11, <2>2, <3>1, <3>2
    <3>4. /\ file'.open = file.open /\ file'.ctz = file.ctz /\ file'.inline = file.inline
          /\ file'.writing = file.writing /\ file'.pos = file.pos /\ file'.off = file.off
          /\ file'.block = b /\ file'.cur = u /\ file'.dirty = file.dirty
          /\ file'.reading = file.reading /\ file'.erred = file.erred
      BY <1>5, <3>3 DEF FileFields
    <3>5. Contents(entry)' = Contents(entry) /\ Content' = Content /\ Meaning'
      BY <1>1, <1>2, <2>2, <3>4, Idle
    <3>6. /\ u.prev \in Blocks \cup {Null} /\ u.data \in Seq(Data)
          /\ Len(u.data) <= BlockSize
      <4>1. CASE b \in Blocks
        BY <3>2, <4>1 DEF Facts, Typed
      <4>2. CASE b \notin Blocks
        <5>1. u.prev = Null /\ u.data = <<>>
          BY <3>2, <4>2 DEF Erased
        <5>2. <<>> \in Seq(Data) /\ Len(<<>>) = 0
          OBVIOUS
        <5> QED
          BY <5>1, <5>2, FileAssumption
      <4> QED
        BY <4>1, <4>2
    <3>7. Typed'
      <4>1. ~W'
        BY <2>2, <3>4 DEF W
      <4>2. Typed /\ flight' \subseteq Blocks
        BY <1>11 DEF Facts
      <4> QED
        BY <1>1, <1>11, <3>4, <3>6, <4>1, <4>2 DEF Typed
    <3>8. More' = More /\ Coming' = Coming
      BY <1>1, <3>4 DEF More, Coming
    <3>9. Clean'
      BY <3>4, <3>5 DEF Facts, Clean
    <3>10. file.pos # 0 => b \in Blocks
      <4> SUFFICES ASSUME file.pos # 0 PROVE b \in Blocks
        OBVIOUS
      <4>1. file.pos <= file.ctz.size
        BY <1>2, <2>2 DEF Standing
      <4>2. file.ctz.head # Inline
        BY <1>11, <2>2 DEF FileInv, Pending
      <4>3. OldIs(c, file.ctz, disk)
        BY <1>2, <1>6, <1>7, <1>11, <2>2 DEF Meant
      <4>4. PICK n, p, h : n = file.ctz.size /\ p = file.pos - 1 /\ h = file.ctz.head
        OBVIOUS
      <4>5. n \in Nat \ {0} /\ p \in Nat /\ p < n
        BY <1>5, <4>1, <4>4
      <4>6. Len(c) = n /\ Holds(disk, h, Index(n - 1), c)
        BY <4>2, <4>3, <4>4 DEF OldIs, List
      <4>7. Stores(disk, Before(disk, h, Index(n - 1) - Index(p)), p, c[p + 1])
        BY <4>5, <4>6 DEF Holds
      <4>8. Find(disk, h, n, p) = Before(disk, h, Index(n - 1) - Index(p))
        BY <4>5, FindBack
      <4> QED
        BY <3>1, <4>4, <4>7, <4>8 DEF Stores
    <3>11. Alike(Top', Top) /\ Top'.at = "extend" => Ends'
      BY <1>1, <1>3, <1>4, <3>2, <3>4, <3>10 DEF Alike, Ends, Running
    <3> QED
      BY <1>1, <1>2, <1>3, <1>11, <3>4, <3>5, <3>7, <3>8, <3>9, <3>11, WriteTurns
  <2> QED
    BY <2>1, <2>2
<1> QED
  BY <1>9, <1>10, <1>11 DEF NeedsBlock

-----------------------------------------------------------------------------
\* Blocks that change

\* A list is what it was when its blocks are.
LEMMA ListSame ==
  ASSUME NEW d, NEW e, NEW h, NEW s, Len(s) \in Nat, List(d, h, s),
         \A b \in Chain(d, h, Len(s)) : e[b] = d[b]
  PROVE  List(e, h, s)
<1>1. PICK n : n = Len(s)
  OBVIOUS
<1>2. CASE n = 0
  <2>1. \A p \in Nat : ~(p < Len(s))
    BY <1>1, <1>2
  <2> QED
    BY <2>1 DEF List, Holds
<1>3. CASE n # 0
  <2>1. n \in Nat /\ n > 0
    BY <1>1, <1>3
  <2>2. PICK q \in Nat : q = Index(n - 1) /\ Chain(d, h, n) = Walk(d, h, q)
    BY <2>1, ChainIs
  <2>3. Holds(d, h, q, s) /\ \A b \in Walk(d, h, q) : e[b] = d[b]
    BY <1>1, <2>2 DEF List
  <2>4. Holds(e, h, q, s)
    BY <2>3, HoldsSame
  <2> QED
    BY <1>1, <2>2, <2>4 DEF List
<1> QED
  BY <1>2, <1>3

\* What is stored needs the blocks of its list only.
LEMMA StoredSame ==
  ASSUME NEW d, NEW e, NEW z, NEW s, Stored(s, z, d),
         \A b \in Chain(d, z.head, z.size) : e[b] = d[b]
  PROVE  Stored(s, z, e)
BY ListSame DEF Stored

\* So does the old list of the handle.
LEMMA OldSame ==
  ASSUME NEW d, NEW e, NEW z, NEW o, OldIs(o, z, d),
         \A b \in Chain(d, z.head, z.size) : e[b] = d[b]
  PROVE  OldIs(o, z, e)
BY ListSame DEF OldIs

\* What comes next in a list that is what it was.
LEMMA CellSame ==
  ASSUME NEW d, NEW e, NEW h, NEW s \in Seq(Data), List(d, h, s),
         \A b \in Chain(d, h, Len(s)) : e[b] = d[b],
         NEW p \in Nat, p < Len(s)
  PROVE  Cell(d, h, Len(s), p) = s[p + 1] /\ Cell(e, h, Len(s), p) = s[p + 1]
<1>1. List(e, h, s) /\ Len(s) \in Nat
  BY ListSame
<1>2. Cells(d, h, Len(s)) = s /\ Cells(e, h, Len(s)) = s
  BY <1>1, ListIs
<1>3. PICK n \in Nat, k \in Nat : n = Len(s) /\ k = p + 1
  OBVIOUS
<1>4. k \in 1 .. n /\ k - 1 = p
  BY <1>3
<1> QED
  BY <1>2, <1>3, <1>4 DEF Cells

\* The cells of an inline file, copied to a block.
LEMMA CopiedIs ==
  ASSUME NEW v, NEW b \in Blocks, NEW t \in Seq(Data), NEW n \in 0 .. BlockSize - 1,
         n <= Len(t), v[b].data = SubSeq(t, 1, n)
  PROVE  NewIs(SubSeq(t, 1, n), v, b, n, n)
<1>1. PICK w : w = SubSeq(t, 1, n)
  OBVIOUS
<1>2. w \in Seq(Data) /\ Len(w) = n /\ DOMAIN w = 1 .. n
  BY <1>1
<1>3. n = Start(0) + n
  BY StartIs
<1>4. Holds(v, b, 0, w)
  <2> SUFFICES ASSUME NEW p \in Nat, p < Len(w)
               PROVE  Index(p) <= 0 /\ Stores(v, Before(v, b, 0 - Index(p)), p, w[p + 1])
    BY DEF Holds
  <2>1. p \in 0 .. BlockSize - 1 /\ p = Start(0) + p
    BY <1>2, StartIs, FileAssumption
  <2>2. Index(p) = 0 /\ p % BlockSize = p
    BY <2>1, PlaceIs
  <2>3. Before(v, b, 0) = b
    BY BeforeIs
  <2>4. p + 1 \in DOMAIN v[b].data /\ v[b].data[p + 1] = w[p + 1]
    BY <1>1, <1>2
  <2> QED
    BY <2>2, <2>3, <2>4 DEF Stores
<1>5. Walk(v, v[b].prev, 0 - 1) = {}
  BY DEF Walk
<1> QED
  BY <1>1, <1>2, <1>3, <1>4, <1>5 DEF NewIs

\* The device when a block is handed out.
LEMMA ErasedIs ==
  ASSUME FileInv, Facts, NEW b \in window, disk' = [disk EXCEPT ![b] = Erased]
  PROVE  /\ b \in Blocks /\ b \notin Old \cup Ent
         /\ disk'[b] = Erased /\ DOMAIN disk' = Blocks
         /\ \A a \in Blocks : a # b => disk'[a] = disk[a]
         /\ \A a \in Blocks :
              /\ disk'[a].prev \in Blocks \cup {Null}
              /\ disk'[a].data \in Seq(Data) /\ Len(disk'[a].data) <= BlockSize
         /\ \A s : Stored(s, entry, disk) => Stored(s, entry, disk')
         /\ \A o : OldIs(o, file.ctz, disk) => OldIs(o, file.ctz, disk')
         /\ \A o : OldIs(o, file.ctz, disk) /\ More /\ file.pos \in Nat =>
              Cell(disk', file.ctz.head, file.ctz.size, file.pos) = Coming
<1>1. b \in Blocks /\ DOMAIN disk = Blocks /\ b \notin Old \cup Ent
  BY DEF FileInv, Shape, Apart
<1>2. /\ disk'[b] = Erased /\ DOMAIN disk' = Blocks
      /\ \A a \in Blocks : a # b => disk'[a] = disk[a]
  BY <1>1
<1>3. /\ \A a \in Chain(disk, entry.head, entry.size) : disk'[a] = disk[a]
      /\ \A a \in Chain(disk, file.ctz.head, file.ctz.size) : disk'[a] = disk[a]
  BY <1>1, <1>2, ChainBlocks DEF Old, Ent
<1>4. ASSUME NEW a \in Blocks
      PROVE  /\ disk'[a].prev \in Blocks \cup {Null}
             /\ disk'[a].data \in Seq(Data) /\ Len(disk'[a].data) <= BlockSize
  <2>1. CASE a = b
    <3>1. disk'[a].prev = Null /\ disk'[a].data = <<>>
      BY <1>2, <2>1 DEF Erased
    <3>2. <<>> \in Seq(Data) /\ Len(<<>>) = 0
      OBVIOUS
    <3>3. 0 <= BlockSize /\ Null \in Blocks \cup {Null}
      BY FileAssumption
    <3> QED
      BY <3>1, <3>2, <3>3
  <2>2. CASE a # b
    BY <1>2, <2>2 DEF Facts, Typed
  <2> QED
    BY <2>1, <2>2
<1>5. ASSUME NEW s, Stored(s, entry, disk) PROVE Stored(s, entry, disk')
  BY <1>3, <1>5, StoredSame
<1>6. ASSUME NEW o, OldIs(o, file.ctz, disk) PROVE OldIs(o, file.ctz, disk')
  BY <1>3, <1>6, OldSame
<1>7. ASSUME NEW o, OldIs(o, file.ctz, disk), More, file.pos \in Nat
      PROVE  Cell(disk', file.ctz.head, file.ctz.size, file.pos) = Coming
  <2>1. /\ o \in Seq(Data) /\ Len(o) = file.ctz.size /\ List(disk, file.ctz.head, o)
        /\ file.pos < Len(o)
    BY <1>7 DEF OldIs, More
  <2>2. \A a \in Chain(disk, file.ctz.head, Len(o)) : disk'[a] = disk[a]
    BY <1>3, <2>1
  <2>3. /\ Cell(disk, file.ctz.head, Len(o), file.pos) = o[file.pos + 1]
        /\ Cell(disk', file.ctz.head, Len(o), file.pos) = o[file.pos + 1]
    <3>1. PICK h, p, e : h = file.ctz.head /\ p = file.pos /\ e = disk'
      OBVIOUS
    <3>2. /\ p \in Nat /\ p < Len(o) /\ o \in Seq(Data) /\ List(disk, h, o)
          /\ \A a \in Chain(disk, h, Len(o)) : e[a] = disk[a]
      BY <1>7, <2>1, <2>2, <3>1
    <3>3. Cell(disk, h, Len(o), p) = o[p + 1] /\ Cell(e, h, Len(o), p) = o[p + 1]
      BY <3>2, CellSame
    <3> QED
      BY <3>1, <3>3
  <2> QED
    BY <2>1, <2>3 DEF Coming
<1> QED
  BY <1>1, <1>2, <1>4, <1>5, <1>6, <1>7

\* What has been written is seen unchanged.
LEMMA NewSame ==
  ASSUME NEW w, NEW v, NEW e, NEW h \in Blocks, NEW q \in Nat, NEW p \in Nat, NEW r \in Nat,
         p = Start(q) + r, NewIs(w, v, h, p, r), \A a \in Walk(v, h, q) : e[a] = v[a]
  PROVE  NewIs(w, e, h, p, r)
<1>1. PICK k \in Nat : /\ p = Start(k) + r /\ Holds(v, h, k, w)
                       /\ h \notin Walk(v, v[h].prev, k - 1)
  BY DEF NewIs
<1>2. k = q
  <2>1. Start(k) \in Nat /\ Start(q) \in Nat /\ BlockSize \in Nat \ {0}
    BY StartIs, FileAssumption
  <2>2. Start(k) = Start(q)
    BY <1>1, <2>1
  <2>3. k < q => Start(k) + BlockSize <= Start(q)
    BY StartGrows
  <2>4. q < k => Start(q) + BlockSize <= Start(k)
    BY StartGrows
  <2> QED
    BY <2>1, <2>2, <2>3, <2>4
<1>3. Holds(e, h, q, w)
  BY <1>1, <1>2, HoldsSame
<1>4. Walk(v, h, q) = {h} \cup Walk(v, v[h].prev, q - 1)
  BY WalkStep
<1>5. e[h] = v[h] /\ \A a \in Walk(v, v[h].prev, q - 1) : v[a].prev = e[a].prev
  BY <1>4
<1>6. q - 1 \in Int
  OBVIOUS
<1>7. Walk(e, v[h].prev, q - 1) = Walk(v, v[h].prev, q - 1)
  BY <1>5, <1>6, WalkSame
<1> QED
  BY <1>1, <1>2, <1>3, <1>5, <1>7 DEF NewIs

\* What a handle means goes on when it is not closed and its blocks stay.
LEMMA ErredMeant ==
  ASSUME FileInv, Facts, Fails, calls # <<>>, calls[1].op # "close", file.open,
         entry' = entry,
         \A s : Stored(s, entry, disk) => Stored(s, entry, disk'),
         \A o : OldIs(o, file.ctz, disk) => OldIs(o, file.ctz, disk'),
         NEW u, u = View', W =>
           \A w : NewIs(w, View, file.block, file.pos, file.off) =>
                    NewIs(w, u, file.block, file.pos, file.off),
         NEW s, NEW c, s = Contents(entry), c = Content
  PROVE  Meant(s, c)'
<1>1. /\ file'.open = file.open /\ file'.ctz = file.ctz /\ file'.inline = file.inline
      /\ file'.writing = file.writing /\ file'.pos = file.pos /\ file'.off = file.off
      /\ file'.block = file.block
  BY ErredIs
<1>2. Meant(s, c)
  BY FactsMeant
<1>3. Size' = Size /\ W' = W
  BY <1>1 DEF Size, W
<1>4. Stored(s, entry', disk') /\ c \in Seq(Data)
  BY <1>2 DEF Meant
<1>5. CASE file.inline
  BY <1>1, <1>2, <1>3, <1>4, <1>5 DEF Meant, W
<1>6. CASE ~file.inline /\ ~file.writing
  BY <1>1, <1>2, <1>3, <1>4, <1>6 DEF Meant, W
<1>7. CASE W
  <2>1. Mixed(c, file.ctz, disk', u, file.block, file.pos, file.off)
    BY <1>2, <1>7 DEF Meant, Mixed
  <2>2. ~file.inline /\ file.writing
    BY <1>7 DEF W
  <2> QED
    BY <1>1, <1>3, <1>4, <1>7, <2>1, <2>2 DEF Meant
<1> QED
  BY <1>5, <1>6, <1>7 DEF W

\* The block that was handed out is not erased, or is and is not used.
LEMMA EraseFailsKeeps ==
  ASSUME FileInv, FileInv', Facts, EraseFails
  PROVE  Facts' /\ Promised
<1>1. /\ calls # <<>> /\ Fails /\ UNCHANGED <<entry, bad, ops>>
      /\ (Top.op = "write" /\ Top.at = "extend") \/ Top.op \in {"relocate", "outline"}
  BY DEF EraseFails, Allocating, At
<1>2. Framed(Top) /\ file.open /\ flight \subseteq Blocks
  BY <1>1, FactsTop
<1>3. ~file.reading
  BY <1>1, <1>2 DEF Facts, Ends, Framed, Callers, Inner
<1>4. PICK b \in window : /\ flight' = flight \cup {b}
                         /\ disk' \in {disk, [disk EXCEPT ![b] = Erased]}
  BY DEF EraseFails, Take
<1>5. /\ b \in Blocks /\ DOMAIN disk' = Blocks
      /\ \A a \in Blocks : a # b => disk'[a] = disk[a]
      /\ \A a \in Blocks :
           /\ disk'[a].prev \in Blocks \cup {Null}
           /\ disk'[a].data \in Seq(Data) /\ Len(disk'[a].data) <= BlockSize
      /\ \A s : Stored(s, entry, disk) => Stored(s, entry, disk')
      /\ \A o : OldIs(o, file.ctz, disk) => OldIs(o, file.ctz, disk')
  <2>1. CASE disk' = disk
    BY <1>4, <2>1 DEF FileInv, Shape, Facts, Typed
  <2>2. CASE disk' = [disk EXCEPT ![b] = Erased]
    BY <1>4, <2>2, ErasedIs
  <2> QED
    BY <1>4, <2>1, <2>2
<1>6. PICK s, c : s = Contents(entry) /\ c = Content
  OBVIOUS
<1>7. Stored(s, entry', disk') /\ Sound' /\ flight' \subseteq Blocks
  <2>1. Stored(s, entry', disk') /\ flight' \subseteq Blocks
    BY <1>1, <1>2, <1>4, <1>5, <1>6, FactsMeant DEF Meant
  <2> QED
    BY <1>1, <1>5, <2>1 DEF Facts, Typed, Sound
<1>8. ASSUME calls[1].op # "close" PROVE Meant(s, c)'
  <2>1. PICK v, u : v = View /\ u = View'
    OBVIOUS
  <2>2. ASSUME W, NEW w, NewIs(w, v, file.block, file.pos, file.off)
        PROVE  NewIs(w, u, file.block, file.pos, file.off)
    <3>1. file.block \in Blocks /\ file.pos \in Nat /\ file.off \in Nat /\ file.writing
      BY <2>2 DEF FileInv, Geometry, Shape, W
    <3>2. PICK q \in Nat : /\ file.pos = Start(q) + file.off
                          /\ Walk(v, file.block, q) \cap window = {}
      BY <2>1, <2>2 DEF FileInv, Geometry, Start
    <3>3. \A a \in Blocks : a # b => u[a] = v[a]
      <4>1. v = [disk EXCEPT ![file.block] = file.cur]
        BY <2>1, <3>1 DEF View
      <4>2. u = [disk' EXCEPT ![file.block] = file.cur]
        BY <1>1, <1>8, <2>1, <3>1, ErredIs DEF View
      <4>3. DOMAIN disk = Blocks
        BY DEF FileInv, Shape
      <4> QED
        BY <1>5, <4>1, <4>2, <4>3
    <3>4. \A a \in Walk(v, file.block, q) : u[a] = v[a]
      BY <3>2, <3>3 DEF Walk
    <3>5. PICK h, p, r : h = file.block /\ p = file.pos /\ r = file.off
      OBVIOUS
    <3> QED
      BY <2>2, <3>1, <3>2, <3>4, <3>5, NewSame
  <2> QED
    BY <1>1, <1>2, <1>5, <1>6, <1>8, <2>1, <2>2, ErredMeant
<1> QED
  BY <1>1, <1>3, <1>6, <1>7, <1>8, FailsStoring

\* What is behind the position goes when an inline file is copied to a block: there
\* is nothing, or the write that goes on will cover it.
LEMMA RelocateKeeps ==
  ASSUME FileInv, FileInv', Facts, Relocate
  PROVE  Facts' /\ Promised
<1>1. /\ calls # <<>> /\ Top.op = "outline" /\ UNCHANGED <<entry, bad, ops>>
  BY TopIs DEF Relocate, At, Framed, Callers, Inner
<1>2. /\ FrameOK(Top, Len(Content)) /\ Framed(Top) /\ Top = calls[Len(calls)]
      /\ Len(calls) \in DOMAIN calls /\ flight \subseteq Blocks /\ Len(calls) \in Nat
      /\ IsStack(calls) /\ file.open /\ Last(calls) = Top /\ AtOutline
      /\ Stacked(calls, file.pos, Len(Content), More, Coming)
  BY <1>1, FactsTop, TopIs
<1>3. /\ Len(calls) > 1 /\ file.inline /\ file.off = file.pos /\ file.pos <= InlineMax
      /\ \/ /\ calls[Len(calls) - 1].op = "write"
            /\ file.pos + Len(calls[Len(calls) - 1].data) > InlineMax
         \/ calls[Len(calls) - 1].op = "sync" /\ file.pos = file.ctz.size
  BY <1>1, <1>2 DEF AtOutline
<1>4. ~file.reading
  BY <1>1 DEF Facts, Ends
<1>5. /\ DOMAIN file = FileFields /\ file.pos \in Nat /\ file.ctz.size \in Nat /\ bad = {}
      /\ file.ctz.head = Inline /\ file.ctz.size <= InlineMax
  BY <1>3 DEF FileInv, Shape, Small
<1>6. PICK b \in window :
        /\ flight' = flight \cup {b} /\ disk' = [disk EXCEPT ![b] = Erased]
        /\ Return(Nothing)
        /\ file' = [file EXCEPT !.block = b, !.writing = TRUE, !.inline = @ /\ Top.op # "outline",
                     !.cache = "right",
                     !.cur = [Erased EXCEPT !.data = SubSeq(file.ctz.buf, 1, file.off)]]
  <2>1. ~(file.off > BlockSize)
    <3>1. file.off \in Nat /\ InlineMax \in Nat /\ BlockSize \in Nat /\ InlineMax < BlockSize
      BY FileAssumption DEF FileInv, Shape
    <3> QED
      BY <1>3, <3>1
  <2>2. PICK old : old = IF file.inline THEN [Erased EXCEPT !.data = file.ctz.buf]
                         ELSE file.cur
    OBVIOUS
  <2>5. old = [Erased EXCEPT !.data = file.ctz.buf]
    BY <1>3, <2>2
  <2>3. PICK b \in window :
          /\ flight' = flight \cup {b} /\ disk' = [disk EXCEPT ![b] = Erased]
          /\ Return(Nothing)
          /\ file' = [file EXCEPT !.block = b, !.writing = TRUE, !.inline = @ /\ Top.op # "outline",
                       !.cache = "right", !.cur = [old EXCEPT !.data = SubSeq(@, 1, file.off)]]
    BY <1>5, <2>1, <2>2, Zenon DEF Relocate, Take
  <2>4. [old EXCEPT !.data = SubSeq(@, 1, file.off)]
          = [Erased EXCEPT !.data = SubSeq(file.ctz.buf, 1, file.off)]
    BY <2>5 DEF Erased
  <2> QED
    BY <2>3, <2>4, Zenon
<1>7. PICK w : w = SubSeq(file.ctz.buf, 1, file.pos)
  OBVIOUS
<1>8. /\ file'.open = file.open /\ file'.ctz = file.ctz /\ ~file'.inline
      /\ file'.writing /\ file'.pos = file.pos /\ file'.off = file.pos
      /\ file'.block = b /\ file'.dirty = file.dirty
      /\ file'.reading = file.reading /\ file'.erred = file.erred
      /\ file'.cur.prev = Null /\ file'.cur.data = w
  BY <1>1, <1>3, <1>5, <1>6, <1>7 DEF FileFields, Erased
<1>9. /\ b \in Blocks /\ DOMAIN disk' = Blocks
      /\ \A a \in Blocks :
           /\ disk'[a].prev \in Blocks \cup {Null}
           /\ disk'[a].data \in Seq(Data) /\ Len(disk'[a].data) <= BlockSize
      /\ \A s : Stored(s, entry, disk) => Stored(s, entry, disk')
  BY <1>6, ErasedIs
<1>10. Meant(Contents(entry), Content)
  BY FactsMeant
<1>11. PICK s, c : s = Contents(entry) /\ c = Content
  OBVIOUS
<1>12. PICK f : f = calls[Len(calls) - 1]
  OBVIOUS
<1>13. /\ Called(f, Top) /\ FrameOK(f, Len(Content)) /\ Framed(f)
       /\ Fits(f, Top, file.pos, Len(Content), More, Coming)
       /\ Len(calls) - 1 \in DOMAIN calls
  BY <1>1, <1>3, <1>12, FactsTop
<1>14. f.op = "write" => f.at = "loop" /\ Running(f)
  BY <1>1, <1>13 DEF Called, Running
<1>15. /\ file.pos <= Size /\ Size <= Len(file.ctz.buf) /\ c = SubSeq(file.ctz.buf, 1, Size)
       /\ Size \in Nat /\ Size <= InlineMax
       /\ f.op = "sync" => Size = file.pos
  <2>1. Size <= Len(file.ctz.buf) /\ c = SubSeq(file.ctz.buf, 1, Size)
    BY <1>2, <1>3, <1>10, <1>11 DEF Meant
  <2>2. file.writing \/ file.pos <= file.ctz.size
    <3>1. CASE f.op = "write"
      <4>1. Busy
        BY <1>12, <1>13, <1>14, <3>1 DEF Busy
      <4> QED
        BY <4>1 DEF FileInv, Positions, Standing
    <3>2. CASE f.op # "write"
      BY <1>3, <1>5, <1>12, <3>2
    <3> QED
      BY <3>1, <3>2
  <2>3. file.pos <= Size /\ Size \in Nat /\ Size <= InlineMax
    BY <1>3, <1>5, <2>2 DEF Size, Larger
  <2>4. f.op = "sync" => Size = file.pos
    BY <1>3, <1>5, <1>12 DEF Size, Larger
  <2> QED
    BY <2>1, <2>3, <2>4
<1>16. PICK t \in Seq(Data) : t = file.ctz.buf
  BY DEF Facts, Typed
<1>17. PICK n, m : n = file.pos /\ m = Size
  OBVIOUS
<1>18. /\ n \in Nat /\ m \in Nat /\ n <= m /\ m <= Len(t) /\ n \in 0 .. BlockSize - 1
       /\ w = SubSeq(t, 1, n) /\ c = SubSeq(t, 1, m)
  BY <1>3, <1>5, <1>7, <1>15, <1>16, <1>17, FileAssumption
<1>19. /\ w \in Seq(Data) /\ c \in Seq(Data) /\ Len(w) = n /\ Len(c) = m /\ w = SubSeq(c, 1, n)
       /\ n = m => w = c
  BY <1>18
<1>20. Meant(s, w)'
  <2>1. PICK v : v = View'
    OBVIOUS
  <2>2. v[b].data = w
    BY <1>8, <1>9, <2>1 DEF View
  <2>3. NewIs(w, v, b, n, n)
    BY <1>9, <1>18, <2>2, CopiedIs
  <2>4. OldIs(<<>>, file'.ctz, disk')
    BY <1>5, <1>8 DEF OldIs
  <2>5. w = Over(w, <<>>)
    <3>1. SubSeq(<<>>, Len(w) + 1, Len(<<>>)) = <<>>
      BY <1>18, <1>19
    <3>2. w \o <<>> = w
      BY <1>19
    <3> QED
      BY <3>1, <3>2 DEF Over
  <2>6. Mixed(w, file'.ctz, disk', View', file'.block, file'.pos, file'.off)
    BY <1>8, <1>17, <2>1, <2>3, <2>4, <2>5 DEF Mixed
  <2>7. Stored(s, entry', disk')
    BY <1>1, <1>9, <1>10, <1>11 DEF Meant
  <2> QED
    BY <1>2, <1>8, <1>19, <2>6, <2>7 DEF Meant
<1>21. Contents(entry)' = s /\ Content' = w /\ Meaning'
  BY <1>20, NextMeant
<1>22. Typed'
  <2>1. file'.off \in 0 .. BlockSize /\ Len(file'.cur.data) = file'.off
    BY <1>8, <1>17, <1>18, <1>19, FileAssumption
  <2>2. Typed /\ flight' \subseteq Blocks
    BY <1>2, <1>6, <1>9 DEF Facts
  <2>3. file'.cur.data \in Seq(Data) /\ Len(file'.cur.data) <= BlockSize
    BY <1>8, <1>19, <2>1, FileAssumption
  <2> QED
    BY <1>1, <1>8, <1>9, <2>1, <2>2, <2>3 DEF Typed
<1>23. calls' = Front(calls) /\ ret' = ret /\ Pops(calls, calls') /\ calls' # <<>> /\ Top' = f
  <2>1. calls' = Front(calls) /\ ret' = ret
    BY <1>2, <1>3, <1>6 DEF Return
  <2>2. Pops(calls, calls')
    BY <1>1, <1>2, <2>1, Popped
  <2> QED
    BY <1>2, <1>3, <1>12, <2>1, <2>2 DEF Pops, Top
<1>24. Ends'
  <2>1. f.op = "write" => file.pos + Len(f.data) <= MaxSize
    BY <1>1, <1>13 DEF Fits
  <2>3. f.op \in {"write", "sync"} /\ (f.op = "write" => f.at = "loop")
    BY <1>3, <1>12, <1>14
  <2> QED
    BY <1>4, <1>8, <1>23, <2>1, <2>3 DEF Ends, Running
<1>25. Reading' /\ Clean' /\ ~More /\ ~More'
  BY <1>4, <1>5, <1>8 DEF Reading, Clean, More
<1>26. /\ TaskOf(calls') = TaskOf(calls) /\ SameTask(calls, calls')
  <2>1. Top.back = -1
    BY <1>1, <1>2 DEF FrameOK
  <2> QED
    BY <1>1, <1>2, <1>23, <2>1, PopTask
<1>27. CASE n = m
  <2>1. Content' = Content /\ Contents(entry)' = Contents(entry)
    BY <1>11, <1>19, <1>21, <1>27
  <2>2. Stacked(calls', file.pos, Len(Content), More, Coming)
    BY <1>1, <1>2, <1>23, PopStacked
  <2>3. Stacked(calls', file.pos, Len(Content), More', Coming')
    BY <1>25, <2>2, NoMoreStacked
  <2>4. Nest'
    BY <1>8, <2>1, <2>3 DEF Nest
  <2>5. Promised
    BY <1>2, <1>8, <1>23, <1>26, <2>1, Stutters
  <2> QED
    BY <1>21, <1>22, <1>24, <1>25, <2>4, <2>5 DEF Facts
<1>28. CASE n # m
  <2>1. f.op = "write" /\ file.pos + Len(f.data) > InlineMax
    BY <1>3, <1>12, <1>15, <1>17, <1>28
  <2>2. Len(calls) = 2
    <3>1. SUFFICES ASSUME Len(calls) > 2 PROVE FALSE
      <4>1. PICK j : j = Len(calls)
        OBVIOUS
      <4>2. j \in Nat /\ j > 1
        BY <1>2, <1>3, <4>1
      <4>3. j > 2 \/ j = 2
        BY ONLY <4>2
      <4> QED
        BY <4>1, <4>3
    <3>2. PICK k \in Nat : k = Len(calls) - 1
      BY <1>2, <3>1
    <3>3. k \in DOMAIN calls /\ k - 1 \in DOMAIN calls /\ k > 1 /\ calls[k] = f
      BY <1>2, <1>12, <3>1, <3>2, StackIs
    <3>4. PICK g : g = calls[k - 1]
      OBVIOUS
    <3>5. Fits(g, f, file.pos, Len(Content), More, Coming) /\ Called(g, f)
      BY <1>2, <3>3, <3>4 DEF Stacked, IsStack
    <3>6. g.op \in {"fill", "flush", "truncate"} /\ (g.op = "flush" => g.at = "copy")
      BY <2>1, <3>5 DEF Called
    <3>7. CASE g.op = "flush"
      <4>1. W
        BY <3>3, <3>4, <3>6, <3>7 DEF FileInv, Positions, Waits
      <4> QED
        BY <1>3, <4>1 DEF W
    <3>8. CASE g.op # "flush"
      BY <1>11, <1>17, <1>19, <1>28, <2>1, <3>5, <3>6, <3>8 DEF Fits
    <3> QED
      BY <3>7, <3>8
  <2>3. DOMAIN calls' = {1} /\ calls'[1] = f /\ calls[1] = f
    <3>1. DOMAIN calls' = 1 .. 1
      <4>1. Len(calls') = 1 /\ IsStack(calls')
        BY <1>23, <2>2 DEF Pops
      <4> QED
        BY <4>1, StackIs
    <3> QED
      BY <1>12, <1>23, <2>2, <3>1 DEF Pops
  <2>4. FrameOK(f, Len(Content'))
    BY <1>13, <2>1 DEF FrameOK
  <2>5. Stacked(calls', file'.pos, Len(Content'), More', Coming')
    BY <2>1, <2>3, <2>4, SingleStacked DEF Outermost
  <2>6. Nest'
    BY <2>5 DEF Nest
  <2>7. f.back = -1 /\ Top.back = -1
    BY <1>1, <1>2, <1>13, <2>1 DEF FrameOK
  <2>8. Position = file.pos /\ Position' = file.pos
    <3>1. \A k \in DOMAIN calls' : calls'[k].back = -1
      BY <2>3, <2>7
    <3>2. PositionOf(calls', file'.pos) = file'.pos
      BY <3>1, SavedNone
    <3>3. \A k \in DOMAIN calls : calls[k].back = -1
      <4>1. DOMAIN calls = 1 .. 2
        BY <1>2, <2>2, StackIs
      <4> QED
        BY <1>2, <2>2, <2>3, <2>7, <4>1
    <3>4. PositionOf(calls, file.pos) = file.pos
      BY <3>3, SavedNone
    <3> QED
      BY <1>8, <3>2, <3>4, PositionTask, NextTask
  <2>9. Task' = Task
    BY <1>26, PositionTask, NextTask
  <2>10. Task.op = "write" /\ Task.n = Len(f.data)
    BY <1>1, <2>1, <2>3, TaskIs
  <2>11. Promise!Drop
    <3>1. Contents(entry)' = Contents(entry) /\ Content' = SubSeq(Content, 1, file.pos)
      BY <1>11, <1>17, <1>19, <1>21
    <3>2. file.pos <= Len(Content) /\ Len(Content) <= file.pos + Len(f.data)
      <4>1. Len(Content) = Size
        BY <1>11, <1>17, <1>19
      <4>2. Len(f.data) \in Nat
        BY <1>13, <2>1 DEF FrameOK
      <4> QED
        BY <1>15, <1>5, <2>1, <4>1, <4>2, FileAssumption
    <3> QED
      BY <1>8, <1>23, <2>8, <2>9, <2>10, <3>1, <3>2 DEF Promise!Drop
  <2> QED
    BY <1>21, <1>22, <1>24, <1>25, <2>6, <2>11 DEF Facts, Promised, Promise!Next
<1> QED
  BY <1>27, <1>28

-----------------------------------------------------------------------------
\* What has been written becomes the list

\* The device when the block that is written to is programmed.
LEMMA ViewedIs ==
  ASSUME FileInv, Facts, W, NEW cur, disk' = [disk EXCEPT ![file.block] = cur],
         cur.prev \in Blocks \cup {Null}, cur.data \in Seq(Data), Len(cur.data) <= BlockSize
  PROVE  /\ file.block \in Blocks /\ file.block \notin Old \cup Ent
         /\ disk'[file.block] = cur /\ DOMAIN disk' = Blocks
         /\ \A a \in Blocks : a # file.block => disk'[a] = disk[a]
         /\ \A a \in Blocks :
              /\ disk'[a].prev \in Blocks \cup {Null}
              /\ disk'[a].data \in Seq(Data) /\ Len(disk'[a].data) <= BlockSize
         /\ \A s : Stored(s, entry, disk) => Stored(s, entry, disk')
         /\ \A o : OldIs(o, file.ctz, disk) => OldIs(o, file.ctz, disk')
<1>1. file.block \in Blocks /\ DOMAIN disk = Blocks /\ file.block \notin Old \cup Ent
  BY DEF FileInv, Shape, Geometry
<1>2. /\ disk'[file.block] = cur /\ DOMAIN disk' = Blocks
      /\ \A a \in Blocks : a # file.block => disk'[a] = disk[a]
  BY <1>1
<1>3. /\ \A a \in Chain(disk, entry.head, entry.size) : disk'[a] = disk[a]
      /\ \A a \in Chain(disk, file.ctz.head, file.ctz.size) : disk'[a] = disk[a]
  BY <1>1, <1>2, ChainBlocks DEF Old, Ent
<1>4. ASSUME NEW a \in Blocks
      PROVE  /\ disk'[a].prev \in Blocks \cup {Null}
             /\ disk'[a].data \in Seq(Data) /\ Len(disk'[a].data) <= BlockSize
  <2>1. CASE a = file.block
    BY <1>2, <2>1
  <2>2. CASE a # file.block
    BY <1>2, <2>2 DEF Facts, Typed
  <2> QED
    BY <2>1, <2>2
<1>5. ASSUME NEW s, Stored(s, entry, disk) PROVE Stored(s, entry, disk')
  BY <1>3, <1>5, StoredSame
<1>6. ASSUME NEW o, OldIs(o, file.ctz, disk) PROVE OldIs(o, file.ctz, disk')
  BY <1>3, <1>6, OldSame
<1> QED
  BY <1>1, <1>2, <1>4, <1>5, <1>6

\* What is written, if it is not behind the old list's end.
LEMMA OverIs ==
  ASSUME NEW w \in Seq(Data), NEW o \in Seq(Data)
  PROVE  /\ Over(w, o) \in Seq(Data)
         /\ Len(Over(w, o)) = IF Len(o) > Len(w) THEN Len(o) ELSE Len(w)
         /\ Len(o) <= Len(w) => Over(w, o) = w
         /\ \A i \in 1 .. Len(w) : Over(w, o)[i] = w[i]
         /\ \A i \in Len(w) + 1 .. Len(o) : Over(w, o)[i] = o[i]
<1>1. PICK m \in Nat, n \in Nat : m = Len(w) /\ n = Len(o)
  OBVIOUS
<1>2. PICK u : u = SubSeq(o, m + 1, n)
  OBVIOUS
<1>3. /\ u \in Seq(Data) /\ Len(u) = IF n > m THEN n - m ELSE 0
      /\ \A i \in 1 .. Len(u) : u[i] = o[m + i]
  BY <1>1, <1>2
<1>4. PICK y : y = w \o u
  OBVIOUS
<1>5. /\ y \in Seq(Data) /\ Len(y) = m + Len(u)
      /\ \A i \in 1 .. m : y[i] = w[i]
      /\ \A i \in 1 .. Len(u) : y[m + i] = u[i]
  BY <1>1, <1>3, <1>4, ConcatIs
<1>6. Over(w, o) = y
  BY <1>1, <1>2, <1>4 DEF Over
<1>7. n <= m => y = w
  <2>1. SUFFICES ASSUME n <= m PROVE y = w
    OBVIOUS
  <2>2. Len(u) = 0
    BY <1>1, <1>3, <2>1
  <2>3. u = <<>>
    BY <1>3, <2>2
  <2> QED
    BY <1>4, <2>3
<1>8. Len(y) = IF n > m THEN n ELSE m
  BY <1>1, <1>3, <1>5
<1>9. ASSUME NEW i \in m + 1 .. n PROVE y[i] = o[i]
  <2>1. PICK j \in Nat : j = i - m
    BY <1>1
  <2>2. j \in 1 .. Len(u) /\ m + j = i
    BY <1>1, <1>3, <1>9, <2>1
  <2>3. y[m + j] = u[j] /\ u[j] = o[m + j]
    BY <1>3, <1>5, <2>2
  <2> QED
    BY <2>2, <2>3
<1> QED
  BY <1>1, <1>5, <1>6, <1>7, <1>8, <1>9

\* lfs_file_flush is through: the list that has been written is the list of the file.
LEMMA DrainKeeps ==
  ASSUME FileInv, FileInv', Facts, Drain
  PROVE  Facts' /\ Promised
<1>1. /\ calls # <<>> /\ Top.op = "flush" /\ Top.at = "drain"
      /\ UNCHANGED <<entry, bad, flight, ops>>
  BY DEF Drain, At, alloc
<1>2. /\ FrameOK(Top, Len(Content)) /\ Framed(Top) /\ Top = calls[Len(calls)]
      /\ Len(calls) \in DOMAIN calls /\ flight \subseteq Blocks /\ Len(calls) \in Nat
      /\ IsStack(calls) /\ file.open /\ Last(calls) = Top /\ AtFlushed /\ Waits(Top, Size, W)
      /\ Stacked(calls, file.pos, Len(Content), More, Coming)
  BY <1>1, FactsTop, TopIs
<1>3. W /\ file.pos >= file.ctz.size
  BY <1>1, <1>2 DEF AtFlushed, Waits
<1>4. ~file.reading
  BY <1>3 DEF Facts, Reading, W
<1>5. DOMAIN file = FileFields /\ file.pos \in Nat /\ file.ctz.size \in Nat /\ bad = {}
  BY DEF FileInv, Shape
<1>6. /\ disk' = [disk EXCEPT ![file.block] = file.cur]
      /\ file' = [file EXCEPT
           !.ctz = [head |-> file.block, size |-> file.pos, buf |-> <<>>],
           !.writing = FALSE, !.dirty = TRUE,
           !.pos = Top.back, !.block = Null, !.off = 0, !.cur = Erased,
           !.cache = "right", !.misread = Null]
      /\ Return(Nothing)
  BY <1>5 DEF Drain
<1>7. /\ file'.open = file.open /\ file'.ctz.head = file.block /\ file'.ctz.size = file.pos
      /\ file'.ctz.buf = <<>> /\ file'.inline = file.inline
      /\ ~file'.writing /\ file'.pos = Top.back /\ file'.off = 0 /\ file'.dirty
      /\ file'.reading = file.reading /\ file'.erred = file.erred
      /\ file'.cur.prev = Null /\ file'.cur.data = <<>>
  BY <1>5, <1>6 DEF FileFields, Erased
<1>8. /\ file.block \in Blocks
      /\ disk'[file.block] = file.cur /\ DOMAIN disk' = Blocks
      /\ \A a \in Blocks :
           /\ disk'[a].prev \in Blocks \cup {Null}
           /\ disk'[a].data \in Seq(Data) /\ Len(disk'[a].data) <= BlockSize
      /\ \A s : Stored(s, entry, disk) => Stored(s, entry, disk')
  <2>1. /\ file.cur.prev \in Blocks \cup {Null}
        /\ file.cur.data \in Seq(Data) /\ Len(file.cur.data) <= BlockSize
    BY DEF Facts, Typed
  <2>2. PICK cur : cur = file.cur
    OBVIOUS
  <2> QED
    BY <1>3, <1>6, <2>1, <2>2, ViewedIs
<1>9. Meant(Contents(entry), Content)
  BY FactsMeant
<1>10. PICK s, c : s = Contents(entry) /\ c = Content
  OBVIOUS
<1>11. PICK w, o : /\ NewIs(w, View, file.block, file.pos, file.off)
                   /\ OldIs(o, file.ctz, disk) /\ c = Over(w, o)
  BY <1>2, <1>3, <1>9, <1>10 DEF Meant, Mixed
<1>12. c = w /\ w \in Seq(Data) /\ Len(w) = file.pos
  <2>1. w \in Seq(Data) /\ Len(w) = file.pos /\ o \in Seq(Data)
    BY <1>11 DEF NewIs, OldIs
  <2>2. Len(o) <= Len(w)
    <3>1. CASE file.ctz.head = Inline
      <4>1. Len(o) = 0
        BY <1>11, <3>1 DEF OldIs
      <4> QED
        BY <1>5, <2>1, <4>1
    <3>2. CASE file.ctz.head # Inline
      BY <1>3, <1>5, <1>11, <2>1, <3>2 DEF OldIs
    <3> QED
      BY <3>1, <3>2
  <2> QED
    BY <1>11, <2>1, <2>2, OverIs
<1>13. List(disk', file.block, w)
  <2>1. PICK h, r, v : h = file.block /\ r = file.off /\ v = disk'
    OBVIOUS
  <2>2. View = v /\ h \in Blocks
    BY <1>3, <1>6, <1>8, <2>1 DEF View, W
  <2>3. PICK q \in Nat : file.pos = Start(q) + r /\ Holds(v, h, q, w)
    BY <1>11, <2>1, <2>2 DEF NewIs
  <2>4. r \in 0 .. BlockSize /\ (r = 0 => file.pos = 0)
    BY <1>1, <1>3, <2>1 DEF FileInv, Geometry, Facts, Typed, At
  <2>5. CASE r # 0
    BY <1>12, <2>1, <2>2, <2>3, <2>4, <2>5, NewestIs
  <2>6. CASE r = 0
    <3>1. \A p \in Nat : ~(p < Len(w))
      BY <1>12, <2>4, <2>6
    <3> QED
      BY <2>1, <2>2, <3>1 DEF List, Holds
  <2> QED
    BY <2>5, <2>6
<1>14. Meant(s, c)'
  <2>1. file.block # Inline
    BY <1>8, FileAssumption DEF Inline
  <2>2. OldIs(c, file'.ctz, disk')
    BY <1>7, <1>12, <1>13, <2>1 DEF OldIs
  <2>3. ~W' /\ ~file'.inline
    BY <1>3, <1>7 DEF W
  <2>4. Stored(s, entry', disk')
    BY <1>1, <1>8, <1>9, <1>10 DEF Meant
  <2> QED
    BY <1>2, <1>7, <1>12, <2>2, <2>3, <2>4 DEF Meant
<1>15. Contents(entry)' = Contents(entry) /\ Content' = Content /\ Meaning'
  BY <1>10, <1>14, NextMeant
<1>16. Top.back \in Sizes /\ Len(calls) > 1
  BY <1>1, FlushIs
<1>17. Typed'
  <2>1. 0 \in 0 .. BlockSize /\ <<>> \in Seq(Data) /\ Len(<<>>) = 0 /\ 0 <= BlockSize
    BY FileAssumption
  <2>2. ~W' /\ Typed
    BY <1>7 DEF W, Facts
  <2>3. Len(file'.cur.data) = 0
    BY <1>7
  <2> QED
    BY <1>1, <1>2, <1>7, <1>8, <1>16, <2>1, <2>2, <2>3 DEF Typed
<1>18. calls' = Front(calls) /\ ret' = ret
  BY <1>2, <1>6, <1>16 DEF Return
<1>19. /\ Ends' /\ Pops(calls, calls') /\ calls' # <<>> /\ IsStack(calls')
       /\ \A k \in DOMAIN calls' : calls'[k].op \notin Inner
  BY <1>1, <1>4, <1>7, <1>18, FlushEnds
<1>20. Stacked(calls', file'.pos, Len(Content'), More', Coming')
  <2>1. Stacked(calls', file.pos, Len(Content), More, Coming)
    BY <1>1, <1>2, <1>19, PopStacked
  <2> QED
    BY <1>15, <1>19, <2>1, PlainStacked
<1>21. Nest' /\ Reading' /\ Clean'
  BY <1>4, <1>7, <1>20 DEF Nest, Reading, Clean
<1>22. Promised
  <2>1. Top.back # -1
    BY <1>16, FileAssumption DEF Sizes
  <2>2. /\ TaskOf(calls') = TaskOf(calls)
        /\ Saved(calls) = Saved(calls') \cup {Len(calls)}
        /\ \A k \in Saved(calls') : calls'[k].back = calls[k].back /\ k < Len(calls)
    BY <1>1, <1>2, <1>19, <2>1, PopTask
  <2>3. PICK n \in Nat : n = Len(calls)
    BY <1>2
  <2>4. /\ Saved(calls) = Saved(calls') \cup {n}
        /\ \A k \in Saved(calls') : k < n
        /\ \A k \in Saved(calls') : calls[k].back = calls'[k].back
        /\ calls[n].back = Top.back
    BY <1>2, <2>2, <2>3
  <2>5. PositionOf(calls, file.pos) = PositionOf(calls', Top.back)
    BY <1>19, <2>4, SavedMore
  <2> QED
    BY <1>7, <1>15, <1>18, <2>2, <2>5, Stays
<1> QED
  BY <1>15, <1>17, <1>19, <1>21, <1>22 DEF Facts

\* The cache is not written, or is and is written again later.
LEMMA FlushFailsKeeps ==
  ASSUME FileInv, FileInv', Facts, FlushFails
  PROVE  Facts' /\ Promised
<1>1. /\ calls # <<>> /\ Top.op = "flush" /\ Top.at = "drain" /\ Fails
      /\ UNCHANGED <<entry, bad, window, flight, ops>>
      /\ disk' \in {disk, [disk EXCEPT ![file.block] = file.cur]}
  BY DEF FlushFails, At, alloc
<1>2. /\ file.open /\ flight' \subseteq Blocks /\ Waits(Top, Size, W)
  BY <1>1, FactsTop, TopIs
<1>3. W /\ ~file.reading
  BY <1>1, <1>2 DEF Waits, Facts, Reading, W
<1>4. /\ file.block \in Blocks /\ DOMAIN disk' = Blocks
      /\ \A a \in Blocks : a # file.block => disk'[a] = disk[a]
      /\ \A a \in Blocks :
           /\ disk'[a].prev \in Blocks \cup {Null}
           /\ disk'[a].data \in Seq(Data) /\ Len(disk'[a].data) <= BlockSize
      /\ \A s : Stored(s, entry, disk) => Stored(s, entry, disk')
      /\ \A o : OldIs(o, file.ctz, disk) => OldIs(o, file.ctz, disk')
  <2>1. CASE disk' = disk
    BY <1>3, <2>1 DEF FileInv, Shape, Facts, Typed, Geometry
  <2>2. CASE disk' = [disk EXCEPT ![file.block] = file.cur]
    <3>1. /\ file.cur.prev \in Blocks \cup {Null}
          /\ file.cur.data \in Seq(Data) /\ Len(file.cur.data) <= BlockSize
      BY DEF Facts, Typed
    <3>2. PICK cur : cur = file.cur
      OBVIOUS
    <3> QED
      BY <1>3, <2>2, <3>1, <3>2, ViewedIs
  <2> QED
    BY <1>1, <2>1, <2>2
<1>5. PICK s, c : s = Contents(entry) /\ c = Content
  OBVIOUS
<1>6. Stored(s, entry', disk') /\ Sound'
  <2>1. Stored(s, entry', disk')
    BY <1>1, <1>4, <1>5, FactsMeant DEF Meant
  <2> QED
    BY <1>1, <1>4, <2>1 DEF Facts, Typed, Sound
<1>7. ASSUME calls[1].op # "close" PROVE Meant(s, c)'
  <2>1. PICK u : u = View'
    OBVIOUS
  <2>2. u = View
    <3>1. u = [disk' EXCEPT ![file.block] = file.cur]
      BY <1>1, <1>3, <1>4, <1>7, <2>1, ErredIs DEF View, W
    <3>2. View = [disk EXCEPT ![file.block] = file.cur]
      BY <1>3, <1>4 DEF View, W
    <3>3. DOMAIN disk = Blocks
      BY DEF FileInv, Shape
    <3>4. CASE disk' = disk
      BY <3>1, <3>2, <3>4
    <3>5. CASE disk' = [disk EXCEPT ![file.block] = file.cur]
      BY <1>4, <3>1, <3>2, <3>3, <3>5
    <3> QED
      BY <1>1, <3>4, <3>5
  <2> QED
    BY <1>1, <1>2, <1>4, <1>5, <1>7, <2>1, <2>2, ErredMeant
<1> QED
  BY <1>1, <1>2, <1>3, <1>5, <1>6, <1>7, FailsStoring
=============================================================================
