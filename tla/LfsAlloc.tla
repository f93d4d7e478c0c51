------------------------------- MODULE LfsAlloc ------------------------------
(***************************************************************************)
(* The block allocator of littlefs (lfs_alloc and friends) and the way its *)
(* callers use it.  The allocator keeps no free list: it walks round the   *)
(* device in windows of at most Lookahead blocks, and fills the bitmap of  *)
(* a window by traversing the file system.  A block that was handed out    *)
(* but is not linked into the file system yet is invisible to that         *)
(* traversal; what keeps it from being handed out twice is ack, the number *)
(* of blocks that may still be looked at since the last lfs_alloc_ack.     *)
(***************************************************************************)
EXTENDS Integers

CONSTANTS
  BlockCount,      \* cfg->block_count
  Lookahead,       \* 8 * cfg->lookahead_size, the bits of the bitmap
  BlockSize,       \* cfg->block_size, which bounds the first offset
  TraverseMayFail  \* may lfs_fs_traverse return an error?

ASSUME AllocAssumption ==
  /\ BlockCount \in Nat \ {0, 1}
  /\ Lookahead \in Nat \ {0}
  /\ BlockSize \in Nat \ {0}
  /\ TraverseMayFail \in BOOLEAN

Blocks == 0 .. BlockCount - 1

VARIABLES
  off, size, i, ack, \* lfs->free
  buffer,  \* the bits set in lfs->free.buffer
  calling, \* is a call of lfs_alloc running?
  got,     \* the block the last call returned, NoBlock if it failed
  inuse,   \* the blocks lfs_fs_traverse reports
  flight,  \* blocks handed out by lfs_alloc and not linked anywhere yet
  usedW,   \* history: used at some moment since the window was filled
  usedA,   \* history: the same, for the window of the last lfs_alloc_ack
  partial  \* history: the traversal that filled the window's bitmap failed

free == <<off, size, i, ack, buffer>>
vars == <<free, calling, got, inuse, flight, usedW, usedA, partial>>

NoBlock == -1
Errored == -2

lfs_min(a, b) == IF a < b THEN a ELSE b

\* The block that bit k of the window stands for.
Block(k) == (off + k) % BlockCount

\* Mutant of Bit: the window does not wrap round the end of the device.
BitUnwrapped(b, o) == b - o

\* lfs_alloc_lookahead: the bit of a block in the window that starts at o.
Bit(b, o) == ((b - o) + BlockCount) % BlockCount
Bits(bs, o, n) == {Bit(b, o) : b \in bs} \cap 0 .. n - 1

\* The state left by lfs_format, and by lfs_mount of an image whose blocks in
\* use are u.
Formatted ==
  /\ off = 0 /\ size = lfs_min(Lookahead, BlockCount) /\ inuse = {}

\* Mutant of Mounted: the first window counts as filled.
MountedWithWindow ==
  /\ off \in 0 .. BlockSize - 1 /\ size = lfs_min(Lookahead, BlockCount)
  /\ inuse \in {u \in SUBSET Blocks : {0, 1} \subseteq u}

Mounted ==
  /\ off \in 0 .. BlockSize - 1 /\ size = 0
  /\ inuse \in {u \in SUBSET Blocks : {0, 1} \subseteq u}

Init ==
  /\ Formatted \/ Mounted
  /\ i = 0 /\ ack = BlockCount /\ buffer = {}
  /\ calling = FALSE /\ got = NoBlock /\ flight = {}
  /\ usedW = inuse /\ usedA = inuse /\ partial = FALSE

-----------------------------------------------------------------------------
\* lfs_alloc

Call ==
  /\ ~calling
  /\ calling' = TRUE
  /\ UNCHANGED <<free, got, inuse, flight, usedW, usedA, partial>>

\* Mutant of SkipUsed: blocks that are taken do not count against ack.
SkipUsedUncounted ==
  /\ calling /\ i # size
  /\ i \in buffer
  /\ i' = i + 1
  /\ UNCHANGED <<off, size, ack, buffer, calling, got, inuse, flight, usedW,
                 usedA, partial>>

\* The block at i is taken: look at the next one.
SkipUsed ==
  /\ calling /\ i # size
  /\ i \in buffer
  /\ i' = i + 1 /\ ack' = ack - 1
  /\ UNCHANGED <<off, size, buffer, calling, got, inuse, flight, usedW, usedA,
                 partial>>

\* Where the eager search for the next free block, started at j, stops.
StopsAt(j, k) == (k = size \/ k \notin buffer) /\ j .. k - 1 \subseteq buffer

\* The block at i is free: return it, having looked ahead for the next one.
Found ==
  /\ calling /\ i # size
  /\ i \notin buffer
  /\ got' = Block(i)
  /\ \E k \in i + 1 .. size :
       StopsAt(i + 1, k) /\ i' = k /\ ack' = ack - (k - i)
  /\ calling' = FALSE
  /\ flight' = flight \cup {Block(i)}
  /\ usedW' = usedW \cup {Block(i)} /\ usedA' = usedA \cup {Block(i)}
  /\ UNCHANGED <<off, size, buffer, inuse, partial>>

\* Mutant of NoSpace: gives up at the end of any window.
NoSpaceEarly ==
  /\ calling /\ i = size
  /\ calling' = FALSE /\ got' = NoBlock
  /\ UNCHANGED <<free, inuse, flight, usedW, usedA, partial>>

\* Every block has been looked at since the last ack.
NoSpace ==
  /\ calling /\ i = size
  /\ ack = 0
  /\ calling' = FALSE /\ got' = NoBlock
  /\ UNCHANGED <<free, inuse, flight, usedW, usedA, partial>>

\* Mutant of Shift: a window may reach over blocks looked at before.
ShiftTooFar ==
  /\ calling /\ i = size
  /\ ack # 0
  /\ off' = (off + size) % BlockCount
  /\ size' = lfs_min(Lookahead, BlockCount)
  /\ i' = 0
  /\ UNCHANGED <<ack, inuse, flight>>

\* The next window.
Shift ==
  /\ calling /\ i = size
  /\ ack # 0
  /\ off' = (off + size) % BlockCount
  /\ size' = lfs_min(Lookahead, ack)
  /\ i' = 0
  /\ UNCHANGED <<ack, inuse, flight>>

\* Mutant of Refill: the bitmap of the old window is not cleared.
RefillOnTop ==
  /\ Shift
  /\ buffer' = (buffer \cap 0 .. size' - 1) \cup Bits(inuse, off', size')
  /\ usedW' = inuse \cup flight
  /\ partial' = FALSE
  /\ UNCHANGED <<calling, got, usedA>>

Refill ==
  /\ Shift
  /\ buffer' = Bits(inuse, off', size')
  /\ usedW' = inuse \cup flight
  /\ partial' = FALSE
  /\ UNCHANGED <<calling, got, usedA>>

\* Mutant of RefillFails: the same, when the traversal fails.
RefillFailsOnTop ==
  /\ Shift /\ TraverseMayFail
  /\ buffer' = buffer \cap 0 .. size' - 1
  /\ calling' = FALSE /\ got' = Errored
  /\ usedW' = inuse \cup flight /\ partial' = TRUE
  /\ UNCHANGED usedA

\* The traversal stops with an error after some of its callbacks.
RefillFails ==
  /\ Shift /\ TraverseMayFail
  /\ buffer' \in SUBSET Bits(inuse, off', size')
  /\ calling' = FALSE /\ got' = Errored
  /\ usedW' = inuse \cup flight /\ partial' = TRUE
  /\ UNCHANGED usedA

Alloc == SkipUsed \/ Found \/ NoSpace \/ Refill \/ RefillFails

-----------------------------------------------------------------------------
\* What the callers do between two calls

\* Mutant of Ack: made while a block is in flight.
AckTooEarly ==
  /\ ~calling
  /\ ack' = BlockCount
  /\ usedA' = usedW
  /\ UNCHANGED <<off, size, i, buffer, calling, got, inuse, flight, usedW,
                 partial>>

\* lfs_alloc_ack, which every caller makes when all it was handed out before
\* is linked (or given up): at the start of lfs_mkdir and of an outline, and
\* around each block lfs_file_write adds.
Ack ==
  /\ ~calling /\ flight = {}
  /\ ack' = BlockCount
  /\ usedA' = usedW
  /\ UNCHANGED <<off, size, i, buffer, calling, got, inuse, flight, usedW,
                 partial>>

\* A commit links a block, or an open file comes to hold it.
Publish ==
  /\ ~calling
  /\ \E b \in flight : inuse' = inuse \cup {b} /\ flight' = flight \ {b}
  /\ UNCHANGED <<free, calling, got, usedW, usedA, partial>>

\* The operation fails, or finds the block bad and asks for another one.
GiveUp ==
  /\ ~calling
  /\ \E b \in flight : flight' = flight \ {b}
  /\ UNCHANGED <<free, calling, got, inuse, usedW, usedA, partial>>

\* A commit unlinks a block.
Free ==
  /\ ~calling
  /\ \E b \in inuse : inuse' = inuse \ {b}
  /\ UNCHANGED <<free, calling, got, flight, usedW, usedA, partial>>

Client == Call \/ Ack \/ Publish \/ GiveUp \/ Free

Next == Alloc \/ Client

\* lfs_alloc is a loop without blocking calls: once called, it runs.
Spec == Init /\ [][Next]_vars /\ WF_vars(Alloc)

-----------------------------------------------------------------------------
\* The shape of the allocator's state; in particular ack, an unsigned counter
\* decremented once per block looked at, never runs below what is left of the
\* window, so it cannot wrap around.
TypeOK ==
  /\ off \in Nat /\ (size # 0 => off \in Blocks)
  /\ size \in 0 .. BlockCount
  /\ i \in 0 .. size
  /\ ack \in size - i .. BlockCount
  /\ buffer \subseteq 0 .. size - 1
  /\ calling \in BOOLEAN
  /\ got \in Blocks \cup {NoBlock, Errored}
  /\ inuse \subseteq Blocks /\ flight \subseteq Blocks
  /\ usedW \subseteq Blocks /\ usedA \subseteq Blocks /\ partial \in BOOLEAN

\* A block in flight lies behind the allocator: none of the ack blocks it may
\* still look at is one of them, though no bitmap has a bit for it.
FlightIsBehind == \A k \in 0 .. ack - 1 : Block(i + k) \notin flight

\* A clear bit in what is left of the window stands for a block that no part
\* of the file system uses, however the file system changed since the refill;
\* the one exception is a window whose traversal failed.
WindowIsFree ==
  ~partial => \A k \in i .. size - 1 : k \notin buffer => Block(k) \notin inuse

\* What NoSpace rests on: of the blocks looked at since the last ack (those
\* more than ack places ahead) each was used when it was looked at, because it
\* was handed out or because the window's bitmap, which never claims more than
\* the file system uses, had its bit.
LookedAtIsUsed ==
  /\ \A k \in ack .. BlockCount - 1 : Block(i + k) \in usedA
  /\ \A k \in 0 .. size - 1 : k \in buffer \/ k < i => Block(k) \in usedW
  /\ inuse \cup flight \subseteq usedW /\ usedW \subseteq usedA

\* The heart of the allocator: the block it hands out belongs to nothing, be
\* it linked in the file system or handed out and still in flight, as soon as
\* the window is again one that a whole traversal has filled.
HandsOutFreeBlocks ==
  [][Found /\ ~partial => got' \notin inuse \cup flight]_vars

\* The same for every window ("found a free block").
EveryBlockIsFree == [][Found => got' \notin inuse \cup flight]_vars

\* It gives up only when every block was used at some moment since the window
\* current at the last ack was filled: a device with a block that stayed free
\* all that time is never reported full.
NoSpaceIsReal == [][NoSpace => Blocks \subseteq usedA]_vars

\* A call of lfs_alloc always returns.
AllocReturns == calling ~> ~calling
=============================================================================
