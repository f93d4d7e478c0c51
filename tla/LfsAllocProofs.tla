--------------------------- MODULE LfsAllocProofs ---------------------------
(* Proofs about the block allocator, for every size of device and bitmap.   *)
EXTENDS LfsAlloc, Numbers, TLAPS

-----------------------------------------------------------------------------
\* Positions are reduced to numbers of blocks.
LEMMA BlockIsBlock ==
  ASSUME NEW o \in Int
  PROVE  o % BlockCount \in Blocks
BY AllocAssumption, SMT DEF Blocks

\* The position and the counters stay in range.
THEOREM TypeCorrect == Spec => []TypeOK
<1> USE AllocAssumption DEF TypeOK, Blocks, NoBlock, Errored
<1>1. Init => TypeOK
  <2> SUFFICES ASSUME Init PROVE TypeOK
    OBVIOUS
  <2>1. off \in Nat /\ (size # 0 => off \in Blocks) /\ size \in 0 .. BlockCount
        /\ inuse \subseteq Blocks
    <3>1. CASE Formatted
      BY <3>1, SMT DEF Formatted, lfs_min
    <3>2. CASE Mounted
      BY <3>2, SMT DEF Mounted
    <3> QED
      BY <3>1, <3>2 DEF Init
  <2>2. i \in 0 .. size /\ ack \in size - i .. BlockCount
    BY <2>1, SMT DEF Init
  <2> QED
    BY <2>1, <2>2 DEF Init
<1>2. TypeOK /\ [Next]_vars => TypeOK'
  <2> SUFFICES ASSUME TypeOK, [Next]_vars PROVE TypeOK'
    OBVIOUS
  <2>1. CASE SkipUsed
    <3>1. i' = i + 1 /\ i' \in 0 .. size /\ ack' = ack - 1
          /\ ack' \in size - i' .. BlockCount
      BY <2>1, SMT DEF SkipUsed
    <3> QED
      BY <2>1, <3>1 DEF SkipUsed
  <2>2. CASE Found
    <3>1. Block(i) \in Blocks
      BY BlockIsBlock, SMT DEF Block
    <3>2. PICK k \in i + 1 .. size : i' = k /\ ack' = ack - (k - i)
      BY <2>2 DEF Found
    <3>3. i' \in 0 .. size /\ ack' \in size - i' .. BlockCount
      BY <3>2, SMT
    <3> QED
      BY <2>2, <3>1, <3>3 DEF Found
  <2>3. CASE NoSpace
    BY <2>3 DEF NoSpace, free
  <2>4. ASSUME Shift PROVE off' \in Blocks /\ size' \in 1 .. BlockCount
                           /\ size' <= ack /\ i' = 0 /\ ack' = ack
    <3>1. off + size \in Int
      BY SMT
    <3> QED
      BY <2>4, <3>1, BlockIsBlock, SMT DEF Shift, lfs_min
  <2>5. Bits(inuse, off', size') \subseteq 0 .. size' - 1
    BY DEF Bits
  <2>6. CASE Refill
    <3>1. Shift
      BY <2>6 DEF Refill
    <3>2. i' \in 0 .. size' /\ ack' \in size' - i' .. BlockCount
          /\ size' \in 0 .. BlockCount /\ off' \in Nat
      BY <2>4, <3>1, SMT
    <3> QED
      BY <2>4, <2>5, <2>6, <3>1, <3>2 DEF Refill, Shift
  <2>7. CASE RefillFails
    <3>1. Shift
      BY <2>7 DEF RefillFails
    <3>2. buffer' \subseteq 0 .. size' - 1
      BY <2>5, <2>7 DEF RefillFails
    <3>3. i' \in 0 .. size' /\ ack' \in size' - i' .. BlockCount
          /\ size' \in 0 .. BlockCount /\ off' \in Nat
      BY <2>4, <3>1, SMT
    <3> QED
      BY <2>4, <2>7, <3>1, <3>2, <3>3 DEF RefillFails, Shift
  <2>8. CASE Call
    BY <2>8, SMT DEF Call, free
  <2>9. CASE Ack
    BY <2>9, SMT DEF Ack
  <2>10. CASE Publish
    BY <2>10, SMT DEF Publish, free
  <2>11. CASE GiveUp
    BY <2>11, SMT DEF GiveUp, free
  <2>12. CASE Free
    BY <2>12, SMT DEF Free, free
  <2>13. CASE UNCHANGED vars
    BY <2>13, SMT DEF vars, free
  <2> QED
    BY <2>1, <2>2, <2>3, <2>6, <2>7, <2>8, <2>9, <2>10, <2>11, <2>12, <2>13
    DEF Next, Alloc, Client
<1> QED
  BY <1>1, <1>2, PTL DEF Spec

-----------------------------------------------------------------------------
\* The facts about positions that the proofs below use, in terms of Block.

\* Two positions less than a circle apart stand for different blocks.
LEMMA BlockApart ==
  ASSUME off \in Nat, NEW k \in Nat, NEW d \in 1 .. BlockCount - 1
  PROVE  Block(k + d) # Block(k)
<1>1. off + (k + d) = (off + k) + d /\ off + k \in Int
  BY SMT
<1>2. ((off + k) + d) % BlockCount # (off + k) % BlockCount
  BY <1>1, AllocAssumption, ModApart
<1> QED
  BY <1>1, <1>2 DEF Block

\* A circle further on stands the same block.
LEMMA BlockCircle ==
  ASSUME off \in Nat, NEW k \in Nat
  PROVE  Block(k + BlockCount) = Block(k)
<1>1. off + (k + BlockCount) = (off + k) + BlockCount /\ off + k \in Int
  BY AllocAssumption, SMT
<1>2. ((off + k) + BlockCount) % BlockCount = (off + k) % BlockCount
  BY <1>1, AllocAssumption, ModCircle
<1> QED
  BY <1>1, <1>2 DEF Block

\* After the window has moved on, its position k is what lay k places behind
\* the end of the old window.
LEMMA BlockShift ==
  ASSUME TypeOK, Shift, NEW k \in Nat
  PROVE  Block(k)' = Block(size + k)
<1>1. off \in Nat /\ size \in Nat /\ off' = (off + size) % BlockCount
  BY AllocAssumption, SMT DEF TypeOK, Shift
<1>2. off + size \in Int /\ (off + size) + k = off + (size + k)
  BY <1>1, SMT
<1>3. (((off + size) % BlockCount) + k) % BlockCount
        = ((off + size) + k) % BlockCount
  BY <1>2, AllocAssumption, ModAdd
<1> QED
  BY <1>1, <1>2, <1>3 DEF Block

-----------------------------------------------------------------------------
\* No block in flight lies within the ack blocks that may still be looked at.
THEOREM FlightStaysBehind == Spec => []FlightIsBehind
<1> USE AllocAssumption
<1>1. Init => FlightIsBehind
  BY DEF Init, FlightIsBehind
<1>2. TypeOK /\ FlightIsBehind /\ [Next]_vars => FlightIsBehind'
  <2> SUFFICES ASSUME TypeOK, FlightIsBehind, [Next]_vars,
                      NEW k \in (0 .. ack - 1)'
               PROVE  (Block(i + k) \notin flight)'
    BY DEF FlightIsBehind
  <2>0. off \in Nat /\ i \in Nat /\ ack \in Nat /\ size \in Nat
        /\ ack <= BlockCount /\ i <= size
    BY SMT DEF TypeOK
  <2>1. CASE SkipUsed
    <3>1. /\ off' = off /\ i' = i + 1 /\ ack' = ack - 1 /\ flight' = flight
          /\ k \in Nat
      BY <2>0, <2>1, SMT DEF SkipUsed
    <3>2. (i + 1) + k = i + (k + 1) /\ k + 1 \in 0 .. ack - 1
      BY <2>0, <3>1, SMT
    <3>3. Block(i + (k + 1)) \notin flight
      BY <3>2 DEF FlightIsBehind
    <3> QED
      BY <3>1, <3>2, <3>3 DEF Block
  <2>2. CASE Found
    <3>1. PICK n \in i + 1 .. size : i' = n /\ ack' = ack - (n - i)
      BY <2>2 DEF Found
    <3>2. /\ off' = off /\ flight' = flight \cup {Block(i)}
      BY <2>2 DEF Found
    <3>3. PICK d \in 1 .. ack - 1 : d = (n - i) + k /\ n + k = i + d
      BY <2>0, <3>1, SMT
    <3>4. Block(i + d) \notin flight
      BY <2>0, <3>3, SMT DEF FlightIsBehind
    <3>5. d \in 1 .. BlockCount - 1
      BY <2>0, <3>3, SMT
    <3>6. Block(i + d) # Block(i)
      BY <2>0, <3>5, BlockApart
    <3> QED
      BY <3>1, <3>2, <3>3, <3>4, <3>6 DEF Block
  <2>3. CASE NoSpace
    BY <2>3 DEF NoSpace, free, Block, FlightIsBehind
  <2>4. CASE Refill \/ RefillFails
    <3>1. Shift /\ i = size /\ i' = 0 /\ ack' = ack /\ flight' = flight
      BY <2>4 DEF Refill, RefillFails, Shift
    <3>2. k \in 0 .. ack - 1 /\ k \in Nat /\ 0 + k = k
      BY <2>0, <3>1, SMT
    <3>3. Block(k)' = Block(i + k)
      BY <3>1, <3>2, BlockShift
    <3> QED
      BY <3>1, <3>2, <3>3 DEF FlightIsBehind, Block
  <2>5. CASE Call
    BY <2>5 DEF Call, free, Block, FlightIsBehind
  <2>6. CASE Ack
    BY <2>6 DEF Ack
  <2>7. CASE Publish
    BY <2>7 DEF Publish, free, Block, FlightIsBehind
  <2>8. CASE GiveUp
    BY <2>8 DEF GiveUp, free, Block, FlightIsBehind
  <2>9. CASE Free
    BY <2>9 DEF Free, free, Block, FlightIsBehind
  <2>10. CASE UNCHANGED vars
    BY <2>10 DEF vars, free, Block, FlightIsBehind
  <2> QED
    BY <2>1, <2>2, <2>3, <2>4, <2>5, <2>6, <2>7, <2>8, <2>9, <2>10
    DEF Next, Alloc, Client
<1> QED
  BY <1>1, <1>2, TypeCorrect, PTL DEF Spec

-----------------------------------------------------------------------------
\* The bit a block gets when the window starts at o is its place in it.
LEMMA BitOfBlock ==
  ASSUME NEW o \in Blocks, NEW k \in Blocks
  PROVE  Bit((o + k) % BlockCount, o) = k
<1> USE AllocAssumption
<1>1. o \in Int /\ k \in Int /\ BlockCount \in Int
      /\ k \in 0 .. BlockCount - 1 /\ o \in 0 .. BlockCount - 1
  BY SMT DEF Blocks
<1>2. CASE o + k < BlockCount
  <2>1. o + k = BlockCount * 0 + (o + k) /\ o + k \in 0 .. BlockCount - 1
        /\ o + k \in Int
    BY <1>1, <1>2, SMT
  <2>2. (o + k) % BlockCount = o + k
    BY <2>1, ModIs
  <2>3. ((o + k) - o) + BlockCount = BlockCount * 1 + k
        /\ ((o + k) - o) + BlockCount \in Int
    BY <1>1, SMT
  <2>4. (((o + k) - o) + BlockCount) % BlockCount = k
    BY <1>1, <2>3, ModIs
  <2> QED
    BY <2>2, <2>4 DEF Bit
<1>3. CASE o + k >= BlockCount
  <2> DEFINE r == o + k - BlockCount
  <2>1. o + k = BlockCount * 1 + r /\ r \in 0 .. BlockCount - 1
        /\ o + k \in Int
    BY <1>1, <1>3, SMT
  <2>2. (o + k) % BlockCount = r
    BY <2>1, ModIs
  <2>3. (r - o) + BlockCount = BlockCount * 0 + k
        /\ (r - o) + BlockCount \in Int
    BY <1>1, SMT
  <2>4. ((r - o) + BlockCount) % BlockCount = k
    BY <1>1, <2>3, ModIs
  <2> QED
    BY <2>2, <2>4 DEF Bit
<1> QED
  BY <1>1, <1>2, <1>3, SMT

\* Unless the traversal behind the window has failed, a clear bit ahead means
\* a free block.
THEOREM WindowStaysFree == Spec => []WindowIsFree
<1> USE AllocAssumption
<1>1. Init => WindowIsFree
  <2> SUFFICES ASSUME Init PROVE WindowIsFree
    OBVIOUS
  <2>1. CASE Formatted
    BY <2>1 DEF Formatted, WindowIsFree
  <2>2. CASE Mounted
    BY <2>2, SMT DEF Init, Mounted, WindowIsFree
  <2> QED
    BY <2>1, <2>2 DEF Init
<1>2. TypeOK /\ FlightIsBehind /\ WindowIsFree /\ [Next]_vars => WindowIsFree'
  <2> SUFFICES ASSUME TypeOK, FlightIsBehind, WindowIsFree, [Next]_vars,
                      ~partial',
                      NEW k \in (i .. size - 1)', (k \notin buffer)'
               PROVE  (Block(k) \notin inuse)'
    BY DEF WindowIsFree
  <2>0. off \in Nat /\ i \in Nat /\ ack \in Nat /\ size \in Nat
        /\ size - i <= ack /\ size <= BlockCount
    BY SMT DEF TypeOK
  <2>1. CASE SkipUsed
    <3>1. k \in i .. size - 1
      BY <2>0, <2>1, SMT DEF SkipUsed
    <3> QED
      BY <2>1, <3>1 DEF SkipUsed, WindowIsFree, Block
  <2>2. CASE Found
    <3>1. k \in i .. size - 1
      BY <2>0, <2>2, SMT DEF Found
    <3> QED
      BY <2>2, <3>1 DEF Found, WindowIsFree, Block
  <2>3. CASE NoSpace
    BY <2>3 DEF NoSpace, free, Block, WindowIsFree
  <2>4. CASE Refill
    <3>1. Shift /\ i' = 0 /\ inuse' = inuse /\ off' = (off + size) % BlockCount
          /\ buffer' = Bits(inuse, off', size')
      BY <2>4 DEF Refill, Shift
    <3>2. off' \in Blocks
      BY <2>0, <3>1, BlockIsBlock, SMT
    <3>3. size' \in Nat /\ size' <= BlockCount
      BY <2>0, <3>1, SMT DEF Shift, lfs_min, TypeOK
    <3>4. k \in Blocks /\ k \in 0 .. size' - 1
      <4>1. k \in 0 .. size' - 1
        BY <3>1
      <4>2. ASSUME NEW n \in Nat, n <= BlockCount, NEW j \in 0 .. n - 1
            PROVE  j \in 0 .. BlockCount - 1
        BY <4>2, SMT
      <4> QED
        BY <3>3, <4>1, <4>2 DEF Blocks
    <3>5. Bit((off' + k) % BlockCount, off') = k
      BY <3>2, <3>4, BitOfBlock
    <3>6. (off' + k) % BlockCount \notin inuse
      BY <3>1, <3>4, <3>5 DEF Bits
    <3> QED
      BY <3>1, <3>6 DEF Block
  <2>5. CASE RefillFails
    BY <2>5 DEF RefillFails
  <2>6. CASE Call
    BY <2>6 DEF Call, free, Block, WindowIsFree
  <2>7. CASE Ack
    BY <2>7 DEF Ack, Block, WindowIsFree
  <2>8. CASE Publish
    <3>1. PICK b \in flight : inuse' = inuse \cup {b}
      BY <2>8 DEF Publish
    <3>2. off' = off /\ i' = i /\ size' = size /\ buffer' = buffer /\ ~partial
      BY <2>8 DEF Publish, free
    <3>3. PICK d \in 0 .. ack - 1 : k = i + d
      BY <2>0, <3>2, SMT
    <3>4. Block(k) \notin flight
      BY <3>3 DEF FlightIsBehind
    <3>5. Block(k) \notin inuse
      BY <3>2 DEF WindowIsFree
    <3> QED
      BY <3>1, <3>2, <3>4, <3>5 DEF Block
  <2>9. CASE GiveUp
    BY <2>9 DEF GiveUp, free, Block, WindowIsFree
  <2>10. CASE Free
    BY <2>10 DEF Free, free, Block, WindowIsFree
  <2>11. CASE UNCHANGED vars
    BY <2>11 DEF vars, free, Block, WindowIsFree
  <2> QED
    BY <2>1, <2>2, <2>3, <2>4, <2>5, <2>6, <2>7, <2>8, <2>9, <2>10, <2>11
    DEF Next, Alloc, Client
<1> QED
  BY <1>1, <1>2, TypeCorrect, FlightStaysBehind, PTL DEF Spec

\* The allocator never hands out a block that anything holds, except from a
\* window whose traversal has failed.
THEOREM AllocatesFreeBlocks == Spec => HandsOutFreeBlocks
<1>1. TypeOK /\ FlightIsBehind /\ WindowIsFree /\ [Next]_vars
        => [Found /\ ~partial => got' \notin inuse \cup flight]_vars
  <2> SUFFICES ASSUME TypeOK, FlightIsBehind, WindowIsFree, Found, ~partial
               PROVE  got' \notin inuse \cup flight
    OBVIOUS
  <2>1. i \in i .. size - 1 /\ 0 \in 0 .. ack - 1 /\ i + 0 = i
    BY AllocAssumption, SMT DEF TypeOK, Found
  <2>2. Block(i) \notin flight
    BY <2>1 DEF FlightIsBehind
  <2>3. Block(i) \notin inuse
    BY <2>1 DEF WindowIsFree, Found
  <2> QED
    BY <2>2, <2>3 DEF Found
<1> QED
  BY <1>1, TypeCorrect, FlightStaysBehind, WindowStaysFree, PTL
  DEF Spec, HandsOutFreeBlocks

-----------------------------------------------------------------------------
\* A circle of positions reaches every block.
LEMMA BlockOnto ==
  ASSUME NEW o \in Int, NEW b \in Blocks
  PROVE  \E k \in 0 .. BlockCount - 1 : (o + k) % BlockCount = b
<1> USE AllocAssumption
<1>1. b \in 0 .. BlockCount - 1 /\ b - o \in Int /\ BlockCount \in Nat \ {0}
  BY SMT DEF Blocks
<1>2. PICK k \in 0 .. BlockCount - 1 : k = (b - o) % BlockCount
  BY <1>1, ModSplit
<1>3. (k + o) % BlockCount = ((b - o) + o) % BlockCount
  BY <1>1, <1>2, ModAdd
<1>4. (b - o) + o = BlockCount * 0 + b /\ (b - o) + o \in Int /\ k + o = o + k
  BY <1>1, <1>2, SMT
<1>5. ((b - o) + o) % BlockCount = b
  BY <1>1, <1>4, ModIs
<1> QED
  BY <1>3, <1>4, <1>5

\* A set bit of a freshly filled bitmap stands for a block in use.
LEMMA BitIsUsed ==
  ASSUME NEW o \in Blocks, NEW k \in Int, NEW bs \in SUBSET Blocks, NEW n \in Nat,
         k \in Bits(bs, o, n)
  PROVE  (o + k) % BlockCount \in bs
<1> USE AllocAssumption
<1>1. PICK b \in bs : k = Bit(b, o)
  BY DEF Bits
<1>2. b \in 0 .. BlockCount - 1 /\ o \in Int /\ BlockCount \in Nat \ {0}
  BY SMT DEF Blocks
<1>3. k = ((b - o) + BlockCount) % BlockCount
  BY <1>1 DEF Bit
<1>4. (b - o) + BlockCount \in Int /\ k + o = o + k
  BY <1>2, SMT
<1>5. (k + o) % BlockCount = (((b - o) + BlockCount) + o) % BlockCount
  BY <1>2, <1>3, <1>4, ModAdd
<1>6. ((b - o) + BlockCount) + o = BlockCount * 1 + b
      /\ ((b - o) + BlockCount) + o \in Int
  BY <1>2, SMT
<1>7. (((b - o) + BlockCount) + o) % BlockCount = b
  BY <1>2, <1>6, ModIs
<1> QED
  BY <1>4, <1>5, <1>7

\* Every block looked at since the last ack was used when it was looked at.
THEOREM LookedAtStaysUsed == Spec => []LookedAtIsUsed
<1> USE AllocAssumption
<1>1. Init => LookedAtIsUsed
  BY SMT DEF Init, LookedAtIsUsed
<1>2. TypeOK /\ LookedAtIsUsed /\ [Next]_vars => LookedAtIsUsed'
  <2> SUFFICES ASSUME TypeOK, LookedAtIsUsed, [Next]_vars
               PROVE  LookedAtIsUsed'
    OBVIOUS
  <2>0. off \in Nat /\ i \in Nat /\ ack \in Nat /\ size \in Nat
        /\ size - i <= ack /\ size <= BlockCount /\ ack <= BlockCount
        /\ BlockCount \in Nat
    BY SMT DEF TypeOK
  <2>1. CASE SkipUsed
    <3>1. /\ off' = off /\ size' = size /\ i' = i + 1 /\ ack' = ack - 1
          /\ buffer' = buffer /\ inuse' = inuse /\ flight' = flight
          /\ usedW' = usedW /\ usedA' = usedA
      BY <2>1 DEF SkipUsed
    <3>2. i \in 0 .. size - 1 /\ i \in buffer
      BY <2>0, <2>1, SMT DEF SkipUsed, TypeOK
    <3>3. Block(i) \in usedA
      BY <3>2 DEF LookedAtIsUsed
    <3>4. ASSUME NEW k \in ack - 1 .. BlockCount - 1
          PROVE  Block((i + 1) + k) \in usedA
      <4>1. (i + 1) + k = i + (k + 1) /\ k + 1 \in ack .. BlockCount
        BY <2>0, SMT
      <4>2. CASE k + 1 = BlockCount
        BY <2>0, <3>3, <4>1, <4>2, BlockCircle
      <4>3. CASE k + 1 # BlockCount
        <5>1. k + 1 \in ack .. BlockCount - 1
          BY <2>0, <4>1, <4>3, SMT
        <5> QED
          BY <4>1, <5>1 DEF LookedAtIsUsed
      <4> QED
        BY <4>2, <4>3
    <3>5. ASSUME NEW k \in 0 .. size - 1, k \in buffer \/ k < i + 1
          PROVE  Block(k) \in usedW
      <4>1. k = i \/ k < i \/ k \in buffer
        BY <2>0, <3>5, SMT
      <4> QED
        BY <3>2, <4>1 DEF LookedAtIsUsed
    <3> QED
      BY <3>1, <3>4, <3>5 DEF LookedAtIsUsed, Block
  <2>2. CASE Found
    <3>1. PICK n \in i + 1 .. size : StopsAt(i + 1, n) /\ i' = n /\ ack' = ack - (n - i)
      BY <2>2 DEF Found
    <3>2. /\ off' = off /\ size' = size
          /\ buffer' = buffer /\ inuse' = inuse
          /\ flight' = flight \cup {Block(i)}
          /\ usedW' = usedW \cup {Block(i)} /\ usedA' = usedA \cup {Block(i)}
      BY <2>2 DEF Found
    <3>3. ASSUME NEW k \in i .. n - 1
          PROVE  Block(k) \in usedW \cup {Block(i)}
      <4>1. k = i \/ k \in i + 1 .. n - 1
        BY <2>0, <3>1, SMT
      <4>2. k \in 0 .. size - 1
        BY <2>0, <3>1, SMT
      <4> QED
        BY <3>1, <4>1, <4>2 DEF LookedAtIsUsed, StopsAt
    <3>4. ASSUME NEW k \in ack - (n - i) .. BlockCount - 1
          PROVE  Block(n + k) \in usedA \cup {Block(i)}
      <4> DEFINE m == (n - i) + k
      <4>1. n + k = i + m /\ m \in ack .. BlockCount - 1 + (n - i) /\ m \in Nat
        BY <2>0, <3>1, SMT
      <4>2. CASE m < BlockCount
        <5>1. m \in ack .. BlockCount - 1
          BY <2>0, <3>1, <4>1, <4>2, SMT
        <5> QED
          BY <4>1, <5>1 DEF LookedAtIsUsed
      <4>3. CASE m >= BlockCount
        <5>1. PICK j \in i .. n - 1 : i + m = j + BlockCount
          BY <2>0, <3>1, <4>1, <4>3, SMT
        <5>2. j \in Nat
          BY <2>0, <3>1, SMT
        <5>3. Block(j + BlockCount) = Block(j)
          BY <2>0, <5>2, BlockCircle
        <5>4. Block(j) \in usedW \cup {Block(i)}
          BY <3>3
        <5> QED
          BY <4>1, <5>1, <5>3, <5>4 DEF LookedAtIsUsed
      <4> QED
        BY <4>1, <4>2, <4>3, SMT
    <3>5. ASSUME NEW k \in 0 .. size - 1, k \in buffer \/ k < n
          PROVE  Block(k) \in usedW \cup {Block(i)}
      <4>1. k \in i .. n - 1 \/ k < i \/ k \in buffer
        BY <2>0, <3>1, <3>5, SMT
      <4> QED
        BY <3>3, <4>1 DEF LookedAtIsUsed
    <3> QED
      BY <3>1, <3>2, <3>4, <3>5 DEF LookedAtIsUsed, Block
  <2>3. CASE NoSpace
    BY <2>3 DEF NoSpace, free, Block, LookedAtIsUsed
  <2>4. CASE Refill \/ RefillFails
    <3>1. /\ Shift /\ i = size /\ i' = 0 /\ ack' = ack
          /\ off' = (off + size) % BlockCount
          /\ inuse' = inuse /\ flight' = flight /\ usedA' = usedA
          /\ usedW' = inuse \cup flight
          /\ buffer' \subseteq Bits(inuse, off', size')
      BY <2>4 DEF Refill, RefillFails, Shift
    <3>2. off' \in Blocks /\ size' \in Nat
      BY <2>0, <3>1, BlockIsBlock, SMT DEF Shift, lfs_min
    <3>3. ASSUME NEW k \in ack .. BlockCount - 1
          PROVE  Block(k)' \in usedA
      <4>1. k \in Nat
        BY <2>0, SMT
      <4>2. Block(k)' = Block(i + k)
        BY <3>1, <4>1, BlockShift
      <4> QED
        BY <4>2 DEF LookedAtIsUsed
    <3>4. ASSUME NEW k \in Int, k \in Bits(inuse, off', size')
          PROVE  Block(k)' \in inuse
      <4>1. inuse \in SUBSET Blocks
        BY DEF TypeOK
      <4> QED
        BY <3>2, <3>4, <4>1, BitIsUsed DEF Block
    <3>5. \A k \in 0 .. size' - 1 : k \in buffer' \/ k < 0 => Block(k)' \in usedW'
      <4> SUFFICES ASSUME NEW k \in 0 .. size' - 1, k \in buffer' \/ k < 0
                   PROVE  Block(k)' \in usedW'
        OBVIOUS
      <4>1. ASSUME NEW n \in Nat, NEW j \in 0 .. n - 1
            PROVE  j \in Int /\ ~(j < 0)
        BY SMT
      <4>2. k \in Int /\ ~(k < 0)
        BY <3>2, <4>1
      <4> QED
        BY <3>1, <3>4, <4>2
    <3>6. \A k \in ack .. BlockCount - 1 : 0 + k = k
      BY <2>0, SMT
    <3> QED
      BY <3>1, <3>3, <3>5, <3>6 DEF LookedAtIsUsed, Block
  <2>5. CASE Call
    BY <2>5 DEF Call, free, Block, LookedAtIsUsed
  <2>6. CASE Ack
    <3>1. ~ \E k \in BlockCount .. BlockCount - 1 : TRUE
      BY <2>0, SMT
    <3> QED
      BY <2>6, <3>1 DEF Ack, Block, LookedAtIsUsed
  <2>7. CASE Publish
    BY <2>7 DEF Publish, free, Block, LookedAtIsUsed
  <2>8. CASE GiveUp
    BY <2>8 DEF GiveUp, free, Block, LookedAtIsUsed
  <2>9. CASE Free
    BY <2>9 DEF Free, free, Block, LookedAtIsUsed
  <2>10. CASE UNCHANGED vars
    BY <2>10 DEF vars, free, Block, LookedAtIsUsed
  <2> QED
    BY <2>1, <2>2, <2>3, <2>4, <2>5, <2>6, <2>7, <2>8, <2>9, <2>10
    DEF Next, Alloc, Client
<1> QED
  BY <1>1, <1>2, TypeCorrect, PTL DEF Spec

\* LFS_ERR_NOSPC is only returned when every block was used at some moment
\* since the window of the last ack was filled.
THEOREM NoSpaceIsNotSpurious == Spec => NoSpaceIsReal
<1>1. TypeOK /\ LookedAtIsUsed /\ [Next]_vars
        => [NoSpace => Blocks \subseteq usedA]_vars
  <2> SUFFICES ASSUME TypeOK, LookedAtIsUsed, NoSpace, NEW b \in Blocks
               PROVE  b \in usedA
    OBVIOUS
  <2>1. ack = 0 /\ off + i \in Int /\ off \in Int /\ i \in Int
    BY AllocAssumption, SMT DEF TypeOK, NoSpace
  <2>2. PICK k \in 0 .. BlockCount - 1 : ((off + i) + k) % BlockCount = b
    BY <2>1, BlockOnto
  <2>3. (off + i) + k = off + (i + k)
    BY <2>1, SMT
  <2>4. Block(i + k) \in usedA
    BY <2>1 DEF LookedAtIsUsed
  <2> QED
    BY <2>2, <2>3, <2>4 DEF Block
<1> QED
  BY <1>1, TypeCorrect, LookedAtStaysUsed, PTL DEF Spec, NoSpaceIsReal
=============================================================================
