------------------------------- MODULE LfsCtz --------------------------------
(***************************************************************************)
(* The skip list a large file is kept in, to the byte.  The n-th block     *)
(* starts with a pointer to the block before it and, where 2^k divides n,  *)
(* with one to the block 2^k before it; the rest is data.  How many bytes  *)
(* precede a block therefore depends on its number, and lfs_ctz_index      *)
(* computes the number from a closed formula.  This module models          *)
(* lfs_ctz_index, lfs_ctz_find, lfs_ctz_extend and lfs_ctz_traverse on a   *)
(* file that grows a byte at a time, and remembers where each byte went.   *)
(***************************************************************************)
EXTENDS Integers, Sequences, FiniteSets

CONSTANTS
  BlockSize,  \* lfs_config.block_size
  Width,      \* bits of a number
  MaxIndex,   \* bound on the file: its last block's number
  MaxCopies   \* bound on the blocks that are copied to be continued

ASSUME CtzAssumption ==
  /\ Width \in Nat \ {0} /\ MaxIndex \in Nat /\ MaxIndex < 2 ^ Width
  /\ MaxCopies \in Nat /\ BlockSize \in Nat

VARIABLES
  ptrs,   \* what the blocks start with: ptrs[b] is a sequence of blocks
  head,   \* the last block of the list, Null before there is one
  size,   \* the bytes of the file
  off,    \* the offset in the last block at which the next byte goes
  where,  \* history: where[p + 1] is the [block, off] byte p was programmed to
  copies, \* the copies made
  walk    \* the search or traversal under way

list == <<ptrs, head, size, off, where, copies>>
vars == <<list, walk>>

Null == -1
Idle == [op |-> "idle"]

\* A block's name tells the number it has in the list, and how many times it
\* has been copied (the code's allocator hands out any free block).
Name(index, copied) == index + copied * (MaxIndex + 1)
Names == 0 .. (MaxIndex + 1) * (MaxCopies + 1) - 1

-----------------------------------------------------------------------------
\* lfs_util.h

Bit(a, k) == (a \div 2 ^ k) % 2

\* lfs_popc: the number of binary ones
popc(a) == Cardinality({k \in 0 .. Width - 1 : Bit(a, k) = 1})

\* lfs_init asserts that the pointers fit into a block.  The formula of Index
\* needs a little more, in every block a file may reach: with 128 bytes a block
\* a file of 2^31 bytes has it, as no number below 2^25 - 1 has 25 ones.
ASSUME PointersFit ==
  \A n \in 0 .. MaxIndex : 4 * (popc(n) + 2) <= BlockSize - 2 * 4

\* lfs_ctz: the number of trailing zeros, of an a that is not 0
ctz(a) ==
  CHOOSE k \in 0 .. Width - 1 : Bit(a, k) = 1 /\ \A j \in 0 .. k - 1 : Bit(a, j) = 0

\* lfs_npw2: the exponent of the smallest power of 2 that is a or more
npw2(a) == CHOOSE k \in 0 .. Width : 2 ^ k >= a /\ \A j \in 0 .. k - 1 : 2 ^ j < a

Smaller(m, n) == IF m < n THEN m ELSE n

-----------------------------------------------------------------------------
\* Mutant of Index: the pointers of the last block are not counted.
IndexGuess(p) ==
  LET b == BlockSize - 2 * 4
      i == p \div b
  IN IF i = 0 THEN [index |-> 0, off |-> p]
     ELSE LET n == (p - 4 * (popc(i) + 1)) \div b IN
          [index |-> n, off |-> p - b * n - 4 * popc(n)]

\* lfs_ctz_index: the number of the block that holds byte p, and its offset.
Index(p) ==
  LET b == BlockSize - 2 * 4
      i == p \div b
  IN IF i = 0 THEN [index |-> 0, off |-> p]
     ELSE LET n == (p - 4 * (popc(i - 1) + 2)) \div b IN
          [index |-> n, off |-> p - b * n - 4 * popc(n)]

\* The last block has been written to, as when lfs_file_flush makes it the
\* head of the file.
Flushed == walk = Idle /\ size > 0 /\ where[size].block = head

Init ==
  /\ ptrs = [b \in Names |-> <<>>]
  /\ head = Null /\ size = 0 /\ off = 0 /\ where = <<>> /\ copies = 0
  /\ walk = Idle

-----------------------------------------------------------------------------
\* Mutant of Pointers: each pointer is read from where the one before it was.
PointersSlow(index, last) ==
  LET count == ctz(index) + 1
      p[i \in 1 .. count] ==
        IF i = 1 THEN last ELSE ptrs[p[i - 1]][1]
  IN p

\* The pointers of a new block: the first to the last block, each next one
\* read from the block the one before it points to.
Pointers(index, last) ==
  LET count == ctz(index) + 1
      p[i \in 1 .. count] ==
        IF i = 1 THEN last ELSE ptrs[p[i - 1]][i - 1]
  IN p

\* lfs_ctz_extend of an incomplete last block, when a file is opened again and
\* written to: a copy takes its place.
Copy ==
  /\ Flushed /\ off < BlockSize /\ copies < MaxCopies
  /\ LET last == Index(size - 1)
         new == Name(last.index, copies + 1)
     IN /\ head' = new
        /\ ptrs' = [ptrs EXCEPT ![new] = ptrs[head]]
        /\ off' = last.off + 1
        /\ where' = [k \in DOMAIN where |->
             IF where[k].block = head THEN [where[k] EXCEPT !.block = new]
             ELSE where[k]]
  /\ copies' = copies + 1
  /\ UNCHANGED <<size, walk>>

\* lfs_ctz_extend with the first block, and with one after a complete one.
First ==
  /\ walk = Idle /\ size = 0 /\ head = Null
  /\ head' = Name(0, 0) /\ off' = 0
  /\ UNCHANGED <<ptrs, size, where, copies, walk>>

Extend ==
  /\ walk = Idle /\ off = BlockSize
  /\ LET index == Index(size - 1).index + 1
         new == Name(index, copies)
     IN /\ index <= MaxIndex
        /\ head' = new
        /\ ptrs' = [ptrs EXCEPT ![new] = Pointers(index, head)]
        /\ off' = 4 * (ctz(index) + 1)
  /\ UNCHANGED <<size, where, copies, walk>>

\* lfs_file_write of a byte
Write ==
  /\ walk = Idle /\ head # Null /\ off < BlockSize
  /\ size' = size + 1 /\ off' = off + 1
  /\ where' = Append(where, [block |-> head, off |-> off])
  /\ UNCHANGED <<ptrs, head, copies, walk>>

-----------------------------------------------------------------------------
\* lfs_ctz_find, for the bytes at the ends of the blocks' data.

Probes ==
  {p \in 0 .. size - 1 :
     \/ p = 0 \/ p = size - 1
     \/ where[p + 1].block # where[p].block
     \/ where[p + 1].block # where[p + 2].block}

Find(p) ==
  /\ Flushed
  /\ walk' = [op |-> "find", at |-> head, current |-> Index(size - 1).index,
              target |-> Index(p).index, pos |-> p, hops |-> 0]
  /\ UNCHANGED list

\* Mutant of Skip: what the block has is not considered.
SkipFar(current, target) == npw2(current - target + 1) - 1

\* Mutant of Skip: the list is gone through block by block.
SkipNone(current, target) == 0

\* Which pointer to follow.
Skip(current, target) ==
  Smaller(npw2(current - target + 1) - 1, ctz(current))

Hop ==
  /\ walk.op = "find" /\ walk.current > walk.target
  /\ LET skip == Skip(walk.current, walk.target) IN
     /\ skip < Len(ptrs[walk.at])
     /\ walk' = [walk EXCEPT !.at = ptrs[walk.at][skip + 1],
                             !.current = @ - 2 ^ skip, !.hops = @ + 1]
  /\ UNCHANGED list

Found ==
  /\ walk.op = "find" /\ walk.current <= walk.target
  /\ walk' = Idle
  /\ UNCHANGED list

\* lfs_ctz_traverse
Traverse ==
  /\ Flushed
  /\ walk' = [op |-> "traverse", at |-> head, index |-> Index(size - 1).index,
              seen |-> <<head>>]
  /\ UNCHANGED list

\* Two blocks at a time from a block of even number.
Count(index) == 2 - (index % 2)

\* Mutant of Visit: only the block that is gone to is reported.
VisitLast ==
  /\ walk.op = "traverse" /\ walk.index > 0
  /\ LET count == Count(walk.index) IN
     /\ count <= Len(ptrs[walk.at])
     /\ walk' = [walk EXCEPT !.at = ptrs[walk.at][count], !.index = @ - count,
                             !.seen = Append(@, ptrs[walk.at][count])]
  /\ UNCHANGED list

Visit ==
  /\ walk.op = "traverse" /\ walk.index > 0
  /\ LET count == Count(walk.index) IN
     /\ count <= Len(ptrs[walk.at])
     /\ walk' = [walk EXCEPT !.at = ptrs[walk.at][count],
                             !.index = @ - count,
                             !.seen = @ \o SubSeq(ptrs[walk.at], 1, count)]
  /\ UNCHANGED list

Traversed ==
  /\ walk.op = "traverse" /\ walk.index <= 0
  /\ walk' = Idle
  /\ UNCHANGED list

Next == Copy \/ First \/ Extend \/ Write \/ (\E p \in Probes : Find(p)) \/ Hop
          \/ Found \/ Traverse \/ Visit \/ Traversed

Spec == Init /\ [][Next]_vars

-----------------------------------------------------------------------------
ListBlocks == {where[k].block : k \in DOMAIN where}

\* The bytes are laid out without gaps, each block's after its pointers
\* (lfs_ctz_extend), and the numbers and offsets lfs_ctz_index computes are
\* those the list was built with.
IndexAgrees ==
  \A k \in {1, size} \cap DOMAIN where :
    /\ where[k].block % (MaxIndex + 1) = Index(k - 1).index
    /\ where[k].off = Index(k - 1).off
    /\ where[k].off >= 4 * Len(ptrs[where[k].block])

\* Every pointer that is followed exists: neither walk reads data as a pointer
\* (LFS_ASSERT(head >= 2 && head <= block_count)).
PointersExist ==
  /\ walk.op = "find" /\ walk.current > walk.target =>
       Skip(walk.current, walk.target) < Len(ptrs[walk.at])
  /\ walk.op = "traverse" /\ walk.index > 0 =>
       Count(walk.index) <= Len(ptrs[walk.at])

\* A search ends in the block the byte was written to (lfs_ctz_find).
FindLands ==
  walk.op = "find" /\ walk.current <= walk.target =>
    [block |-> walk.at, off |-> Index(walk.pos).off] = where[walk.pos + 1]

\* It reads a pointer at most about twice per bit of the block's number,
\* however long the file is.
FindIsFast ==
  walk.op = "find" =>
    walk.hops <= 2 * npw2(Index(size - 1).index + 1)

\* A traversal reports each block of the file once (lfs_ctz_traverse).
TraverseIsExact ==
  walk.op = "traverse" /\ walk.index <= 0 =>
    /\ {walk.seen[k] : k \in DOMAIN walk.seen} = ListBlocks
    /\ Len(walk.seen) = Cardinality(ListBlocks)
=============================================================================
