# lfs-tool in TLA+

lfs-tool packs a host directory into a littlefs image (`-c`) or unpacks an image
into a directory (`-x`). This directory holds TLA+ models of the tool and of the
parts of the bundled littlefs (v2.1) it stands on, the TLC configurations that
check them, and proofs checked by TLAPS. Paths below are relative to the
repository; `lfs.c` is `src/lfs/lfs.c`.

## 1. The system

| component | state | operations | interacts with | what makes it correct |
|---|---|---|---|---|
| command line, `main` (`main.c`) | `options`, `result` | choose an action, get the two file systems, mount, traverse, unmount, exit status | both adapters | unmounts exactly what it mounted; the exit status tells the truth |
| `traversal`, `process_file` (`main.c`) | one stack frame per directory, two handles, `m_buffer` | mkdir on the target, list the source, recurse, copy a file by 4096-byte buffers | source and target through `struct vfs` | every node is delivered once, after its directory, whole; nothing is left open; the first error ends all |
| littlefs adapter (`vfs_lfs.c`) | `opaque` (the `lfs_t`), the image's `FILE` | `struct vfs` on littlefs; `fs_read`, `fs_prog`, `fs_erase`, `fs_sync` as block device | littlefs in both directions (calls and callbacks) | opens with the access asked for; life cycle of `opaque` |
| host adapter (`vfs_native.c`) | root path | `struct vfs` on POSIX | host kernel | reports what the host reports |
| block allocator (`lfs.c` 433-492) | `free.off/size/i/ack/buffer` | `lfs_alloc`, `lfs_alloc_ack` | fills its bitmap by `lfs_fs_traverse`; called by mkdir, commits and writes | never hands out a block in use; never reports a full device that is not |
| metadata pairs (`lfs.c` 754-974, 1176-1844) | two blocks of commits, `lfs_mdir_t` in RAM | alloc, fetch, commit, compact, relocate | block device, allocator, the parent's own pair | an update is atomic and, once it returned 0, durable |
| caches (`lfs.c` 14-222) | `pcache`, `rcache` | read, prog, flush, sync | block device | reads see what was programmed |
| tags, lookup, global state (`lfs.c` 260-376, 496-750, 983-1170) | commits of a block as a map of ids | traverse, get, find | metadata pairs | the log means the map |
| directory tree (`lfs.c` 1848-2110, 3073-3280, 3811-4060) | list of tails, tree of pairs, `gstate` | mkdir, remove, rename, deorphan, demove | metadata pairs, allocator | a call changes the names in one step or not at all; list and tree agree, or the disk says that they do not |
| files, CTZ lists (`lfs.c` 2116-3070) | `lfs_file_t`, chain of blocks | open, read, write, seek, truncate, flush, sync, close, relocate | allocator, metadata pairs | a handle reads what it wrote; the stored file changes at a sync or close only, and as a whole |
| format, mount (`lfs.c` 3368-3710) | superblock's pair | format, mount, unmount | all of the above | what format leaves, mount accepts |
| version 1 migration (`lfs.c` 4080-4742) | - | not compiled (`LFS_MIGRATE`) | - | - |
| tests, build | - | one empty test; Makefile, CI | - | - |

The program is one thread; what is hard about it is not interleaving but
**failure and restart**: a call failing at any depth of the recursion, a process
that ends between two writes to the image, a block that does not take what is
programmed, counters that wrap, and state (a bitmap, a directory in RAM) that is
read long after it was computed. Within littlefs the allocator and its callers do
interleave: between the refill of a window and its use the file system changes.
The hazards are listed, at their lines, in `PROJECT.json`.

## 2. Modules

| module | models |
|---|---|
| `TreeCopy` | abstract: what one run of the traversal promises |
| `LfsTool`, `MCLfsTool` | `main`, `traversal`, `process_file` and both adapters as they see them; implements `TreeCopy` |
| `LfsToolProofs` | theorems about `LfsTool` |
| `LfsAlloc` | the allocator and its callers |
| `LfsAllocProofs` | theorems about `LfsAlloc` |
| `AtomicCell` | abstract: what a metadata pair promises |
| `LfsPair` | one metadata pair with crashes, errors, bad blocks and second tries; implements `AtomicCell` |
| `LfsPairProofs` | theorems about `LfsPair` |
| `AtomicFile` | abstract: what an open file promises |
| `LfsFile`, `MCLfsFile` | one file and its handle, with allocation, bad blocks, errors of the device and crashes; implements `AtomicFile` |
| `LfsFileProofs` | theorems about `LfsFile`: which blocks are in use |
| `LfsFileFacts`, `LfsFilePromise` | theorems about `LfsFile`: what the blocks hold, and that it implements `AtomicFile` |
| `LfsCtz` | the skip list of a large file, to the byte |
| `LfsCtzProofs` | theorems about `LfsCtz` and its arithmetic |
| `Numbers` | lemmas on quotients and remainders, powers of two and least members; induction over the natural numbers |
| `AtomicTree` | abstract: a set of names that each call changes in one step |
| `LfsTree`, `MCLfsTree` | the directories: tree, list of tails and global state; implements `AtomicTree` |

The modules rest on each other through what the abstractions promise. `LfsTool`
stands on littlefs calls that work or fail, as `LfsFile` and `LfsTree` describe
them; `LfsFile` and `LfsTree` take each commit to one pair to be atomic, which
is what `LfsPair` shows of it; both allocate blocks the way `LfsAlloc` does it,
any free block not in flight, and say what `lfs_fs_traverse` reports, which is
the `inuse` of `LfsAlloc`; `LfsFile` has one pointer per block where `LfsCtz` has
the pointers in full.

Definitions whose comment calls them a *mutant* of another are deliberately wrong
variants of it. No specification uses them; substituted for
the original they show that a property can fail, one for each property of each
passing run.

### LfsTool

One `pc` names the next call. The recursion of `traversal` needs no stack of its
own: the frames are the directories from `Root` to `cur`, a frame's only state
is what `readdir` has still to report (`left[d]`), whether its handle is open
(`dirh`), and its result, which becomes the caller's (`res`). `Mkdir`, `Opendir`,
`ReadEntry`, `ReadEnd`, `ReadFails`, `Closedir` and `Return` are the lines of
`traversal` in order; `OpenOut`, `OpenIn`, `Read`, `Write`, `WriteFails`,
`CloseIn` and `CloseOut` those of `process_file`. Each vfs call has a failing
outcome when `Faults` is TRUE, and the two directions differ where the adapters
do: littlefs shows a file's data at close, the host at once; littlefs marks a
handle after a failed write and then commits nothing; a write to the host may be
short. `kind` and `data` are the target; before an extraction they hold any
leftover of an earlier tree. `made` and `lost` are history.

A directory entry that vanishes while the tool runs, symbolic links and other
file types are not modelled (the latter make `readdir` fail, which `ReadFails`
covers).

### LfsAlloc

`off`, `size`, `i`, `ack` and `buffer` are `lfs->free`, the bitmap as the set of
its set bits. One `lfs_alloc` is `Call` followed by steps: `SkipUsed` and `Found`
(lines 447-467; `Found` includes the eager search for the next free block),
`NoSpace` (470-474), and `Refill` or `RefillFails` (476-486). `inuse` is what
`lfs_fs_traverse` reports: blocks linked on disk or held by an open file.
`flight` are blocks handed out and not linked. Between calls the callers ack
(`Ack`), link a block (`Publish`), drop one (`GiveUp`) or unlink one (`Free`), in
any order; the only discipline they keep, as the code does, is that nothing is
in flight at an ack: `lfs_mkdir` (1873) and `lfs_file_outline` (2571) ack before
they allocate, `lfs_file_write` (2884, 2930) when the block it was given is held
by the file. `usedW` and `usedA` are history: blocks in use or in flight at some
moment since the current window was filled, and since the window of the last ack.

### LfsPair

A block is `[rev, log, torn]`: its revision, the commits whose checksum holds,
and whether garbage follows them. A commit is one number, so a directory's
content is the last number in the log. `Fetch` is `lfs_dir_fetch` (order of the
blocks by `lfs_scmp`, fall-back to the other block, `erased`). `Commit` starts
`lfs_dir_commit`, which runs through `AppendCommit`/`AppendFull`, `VerifyAppend`,
`Compact`, `Erase`, `Rewrite`, `CheckRewrite`, `Frozen`/`Relocate` and `Link`/
`Linked`; `Create` starts the commit of a directory `lfs_mkdir` has just
allocated, over blocks that hold stale commits. `images` is what the process may
leave behind if it ends now: every state of `[disk, ref]` that the writes since
the last sync have gone through, with erases and commits cut off anywhere; a sync
leaves one. `Crash` picks any of them. `IOError` ends the operation with an error
after any part of the writes.

A commit that fails leaves its `lfs_mdir_t` in RAM. `dir` keeps it (`TryAgain`) where the
code goes on with it: after `LFS_ERR_NOSPC`, when `lfs_file_sync` moves an inline file to a
block and commits again in the same call (2702, 2716). Such an error comes from a
superblock pair that cannot move (`Frozen`, 1638), from a split (1461-1472) or from
the commits to the parent and the predecessor after a move (1657); `NoSpace` has the
last three, at the places `NoRoom` names. By then the revision has been counted up
(1478), the second block may have been replaced (1642), and `erased` is as it was. After
any other error `dir` becomes `None` (`GiveUp`): the file is marked (2705), `lfs_file_close` stores
nothing more, and lfs-tool calls neither `lfs_file_sync` nor `lfs_file_write` on a file after a
failed commit, which is what it would take to use that directory again.

`Wear` makes a block bad: it keeps what it has or is
left with part of what is written, and the read-back of `lfs_dir_commitcrc`
sees it.

The parent's commit is one step (`Link`, `Linked`): the parent is a pair too, and
that a pair is an atomic cell is what this module shows. The list of tails, and
pairs that are split or dropped, are in `LfsTree`. `block_cycles` is -1 in this
program (`vfs_lfs.c` 56), so a pair is moved only for a bad block. The caches
appear as what a flush leaves.

### LfsFile

`file` is the `lfs_file_t` as littlefs has it (`ctz`, `pos`, `off`, `block`, and
the flags as Booleans), with `cur` for what its cache shows of `block`; `entry`
is what the directory stores, `disk` the blocks, `window` and `flight` the
allocator. `calls` is the C stack: `lfs_file_truncate` flushes, seeks and writes,
a seek flushes, a flush writes what follows the written part, a write relocates,
and each of these is a frame with the place its code has reached. So one API call
is many steps, and the allocator may be refilled, a block may go bad, and the
process may end between any two. `Fails` is the return of an error through all
frames; those that write or sync set `LFS_F_ERRED`. Reading and the copy at a
flush go cell by cell; a cell is a number that names the write it comes from. The
cache of a file being written is programmed when its block is full or at the
flush, which is where a bad block shows.

`Faults` names where the device may return an error of its own, as `fs_prog` and
`fs_erase` do when the host does, and each has its action: `EraseFails` (2178-2183, 2509-2514),
`CopyFails` (the read of the old list at a flush, 2609-2612), `FlushFails` (2628-2633), `ProgFails`
(2904-2912), and for reads `ExtendFails` (2200-2205) and `FetchFails` (2788-2793). What such an error leaves in a
cache is part of the state: `cache` says whether the handle's own cache is in step
with its block (`"right"`), is still full of what was refused (`"full"`), or has been flushed before the
end of the block (`"blank"`); `stale` and `misread` say that a read failed after the cache
had been marked with its block (lfs.c 76), so that the reads that follow are answered
from it (`FetchStale`, `ExtendMisread`, `CopyMisread`). `CommitFull` is a directory without room for an inline file,
which is then moved to a block up to the position (2570); with `FullElsewhere` at any position, also
behind the end. `CommitFails` is a commit that returns an error, before or after it has landed.

What is read, programmed and cached at a time is a whole block: `vfs_lfs_get` gives the
three sizes one value, `io_size` (`vfs_lfs.c` 389-392), and the model is that of an
`io_size` equal to the block's size. Then `lfs_ctz_extend` and `lfs_file_relocate` program only their
caches, so the errors at 2211-2214, 2232-2236, 2534 and 2546 cannot come, and the one at 2528
only as the `LFS_ERR_CORRUPT` of an offset beyond a block (569), which `Relocate` has.

### LfsCtz

Blocks with their pointers (4 bytes each), a file that grows byte by byte, and
the position each byte was programmed to, as history. `Index` is the closed
formula of `lfs_ctz_index` with `lfs_popc`; `Find`/`Hop`/`Found` and `Traverse`/
`Visit`/`Traversed` are the loops of `lfs_ctz_find` and `lfs_ctz_traverse` on it;
`Copy` is what `lfs_ctz_extend` does with an incomplete last block.

### LfsTree

`disk` is, for each block, what its newest commits add up to: revision, entries,
tail, and the delta of the global state. `gstate`, `gpending` and `gdelta` are the
fields of `lfs_t`. A call of the API (`Make`, `Unlink`, `Rename`, `Open`) first goes
through `lfs_fs_forceconsistency` (`Demove`, `Deorphan`, ...), then through its own
steps, one for each commit it asks for (`Mkdir`, `MkdirLink`, `MkdirEnter`;
`RemoveEntry`, `DropDir`; `RenameEntry`, `RenameClean`, `DropDir`). `job` holds the
local variables, among them copies of directories that a later step uses.
`commits` is the stack of `lfs_dir_commit`, which may call itself: a commit lands
(`Land`), drops the pair it has emptied (`Drop`, a commit to the pair before),
splits it (`Split`, `SplitRest`), or moves it off a bad block (`Relocate`, then
commits to the parent and to the predecessor). `Crash` at any point, also in the
middle of these; the mount adds up the deltas along the list. `handle` is a file
another caller keeps open, whose pair and id each commit has to adjust. `view`,
`goal` and `ret` are history: the names a mount would find, and what the call is
to make of them.

## 3. Runs

| run | instance | question and answer |
|---|---|---|
| `tool_faults` | 3 directories, 2 files (one fills the buffer exactly, one exceeds it), buffer of 2 bytes; runs in which any call may fail, and runs in which none does | cleanup, prefix, success is a copy, a clean run copies all, fail-stop, delivered is final, termination, refinement of `TreeCopy`: hold |
| `tool_exit` | as `tool_faults` | *violated*: EXIT_SUCCESS after an incomplete copy |
| `tool_pending` | as `tool_faults`, no failing call | *violated*: an image with a pending move or orphan is not extracted, because a file is opened for reading without `LFS_O_RDONLY` |
| `alloc` | 5 blocks, windows of 3, offsets up to 6, the traversal may fail half way | all properties of the allocator hold; free blocks are promised for a window that a whole traversal filled |
| `alloc_unsafe` | 4 blocks | *violated*: a block in use is handed out after a failed traversal |
| `pair` | 5 blocks, one of which may go bad, revisions modulo 8, 2 commits per block, 2 operations; a split or a predecessor's commit may find no room | atomic, durable, coherent, returns: hold |
| `file` | 4 blocks of 2 cells, files up to 4 cells, inline up to 1; 4 calls with up to 3 cells each; device full with 4 blocks; erase, copy and flush may fail | refinement of `AtomicFile`, the traversal sees every block, no assertion fails: hold |
| `file_worn` | 3 blocks of 3 cells, one of which may go bad, 3 calls; erase, copy and flush may fail | refinement of `AtomicFile`, every call returns: hold |
| `file_faults` | 3 blocks of 3 cells, files of up to two blocks, 5 calls; every call of the device may fail at any point, and the directory may be full at any point | what is stored changes with the commit of a sync only: holds |
| `ctz` | blocks of 32 bytes, up to 14 blocks, one copied | formula and list agree, every search and traversal lands: hold |
| `tree` | 10 blocks, 3 names, up to 5 calls, in eight modes | the five invariants and the refinement of `AtomicTree`: hold |
| `tree_delta` | the same, one commit that runs out of room late | *violated*: a delta of the global state is lost, and with it a renamed file |

Why the bounds suffice. The tree copied by the tool has an empty directory, a
nested file, and files on both sides of the buffer's size; the traversal treats
all else alike. With 5 blocks and windows of 3 a window both wraps round the device and
is cut short by `ack`, and the offset after a mount may lie beyond the device
(`seed % block_size` is not reduced by `block_count`, so offset 5 is one).
Revisions modulo 8 start near their wrap and cross it; two commits per block make
an operation compact, and its stale neighbour has a revision of an earlier life.
A file of 4 cells in blocks of 2 has a block that is skipped over, one that is
copied to be continued and one that is added; with 4 blocks the device is full while
an old and a new version of the file exist. In `file_worn` a block takes three
cells, so it can go bad with one or two cells written; files have one block there,
because with a second one the code breaks the promise (`lfs.c` 3799 in section 6). `file_faults` has room for two blocks
of three cells and as many calls as it takes to write, fail, write again, sync and read; every
action of the module is taken in it or in `file_worn`. In `ctz` fourteen blocks
reach block 8 with four pointers and go beyond it; `Width` 4 is wide enough for
their numbers.

The modes of `tree` (`MCLfsTree`) each bound what is costly together: `Plain` all
four calls with a crash; `Replacing` five calls of mkdir and rename, where a
directory takes the place of another; `Splitting` a directory of two pairs, and
directories below its first and second pair; `Moving` entries that move between
the pairs of a split directory; `Worn` a pair that moves off a bad block, with a
crash; `Watched` and `Shared` an open file while its directory changes, splits and
moves; `Tight` a commit that runs out of room late but has no older delta to lose.
Ten blocks are five pairs: the root, a split pair, and three directories. Where a
mode leaves a call out that would break a property, section 6 says so.

Deadlock is checked everywhere: `LfsTool` loops in `Halted` once it has exited,
the others can always go on.

Fairness. Weak fairness is asked only of the steps of a sequential piece of code
that has been called: `Step` in `LfsTool`, `LfsPair` and `LfsFile`, `Alloc` in
`LfsAlloc`. The code blocks on nothing but the C library. Callers, crashes, wear
and errors are not fair. `LfsCtz` and `LfsTree` state no fairness: no liveness is
claimed of them.

## 4. Properties

* `LfsTool`: `UnmountsIdle`, `FailStop` (unwinding), `PrefixOfSource`,
  `SuccessIsCopy`, `DeliveredIsFinal` (the copy), `CopiesTheTree` (refinement),
  `Termination`, `CleanRunCopies`. `SuccessIsCopy` names the two exceptions the
  code has: a file whose close failed is logged and passed over, and mkdir takes
  `EEXIST` for success though a regular file may be in the way.
* `LfsAlloc`: `HandsOutFreeBlocks` rests on `WindowIsFree` (the bitmap errs only
  towards used, whatever happened since the refill) and `FlightIsBehind` (no
  block in flight is among the next `ack` ones, so neither this window nor the
  next ones reach it). `NoSpaceIsReal` rests on `LookedAtIsUsed`.
* `LfsPair`: `UpdatesAtomically` (refinement of `AtomicCell` by the set of values a
  crash may leave), `AckedSurvives`, `CacheIsCoherent` (the directory in RAM, also one
  whose commit has failed and that is going to be used again, names the block and the
  place in it a fetch would find), `RevisionsStayClose` (why a signed difference of
  wrapping counters is safe), `CommitReturns`.
* `LfsFile`: `KeepsItsPromise` (refinement of `AtomicFile`: reads, holes, positions
  and sizes are those of a plain sequence, and what is stored is that sequence at
  the last sync), `TraverseSeesAll` (every block the handle still needs is either
  reported by the traversal or in flight, whenever the allocator may look),
  `NeverAsserts`, `CallsReturn`, and `OnlySyncStores` (whatever the device
  refuses and whatever state that leaves the handle in, no block the entry leads to is touched, and
  the entry changes with the commit of a sync only).
* `LfsCtz`: `IndexAgrees`, `PointersExist`, `FindLands`, `FindIsFast` (the bound that
  makes it a skip list), `TraverseIsExact`.
* `LfsTree`: `CallsAreAtomic` (refinement of `AtomicTree`: the names a mount would
  find change in one step of the call, or not at all), `DifferenceIsAnnounced`
  (a disk on which list and tree differ has its orphan bit set, so that the next
  call repairs it), `GstateIsKept` (the sum of the deltas is the state in RAM),
  `ListEnds`, `HandleFollows`.

## 5. Proofs

A run checks a property on its instance; the theorems below state it for every
value of the constants that satisfies the named assumptions. TLC evaluates these
assumptions in every run of the module.

### The tool: `LfsToolProofs`

For every source tree, every content of its files, every size of the buffer and
with or without failing calls: `TypeCorrect`, `UnmountsIdleCorrect`, `FailStopCorrect`,
`PrefixOfSourceCorrect`, `SuccessIsCopyCorrect`, `DeliveredIsFinalCorrect`,
`CleanRunCopiesCorrect`, and `CopiesTheTreeSafely`, the refinement of `TreeCopy` step
by step (its fairness stays with `CopiesTheTree` of the run).

None of these is inductive as it stands. `ToolInv` is, in parts that build on each
other: `InHand` (which handles `process_file` holds at each of its calls), `Chain`
(the open directories are the way from `Root` to `cur`, one at each level: this is
the call stack of `traversal`, and what a cleanup at any depth rests on), `Status`
(where an error has been noticed and the image is mounted), `Visits` (what has been
delivered is not ahead of `readdir` any more, and no directory is entered twice),
`Progress` (as long as nothing failed, whatever is delivered and not ahead of
`readdir` is complete), `CopyLoop` (buffer and target add up to what has been read)
and `Delivered` (what is delivered is what the source has, but for the two
exceptions of `SuccessIsCopy`); `Clean` adds that without faults nothing is lost.
`TreeAssumption` says that `Parent` makes a tree with root `Root`, as a principle of
induction: a set of nodes that holds `Root` and with a directory its entries holds all. It is
used once, to conclude at the end that every node was delivered. `DataAssumption`
types the contents and asks for a buffer of at least one byte.

### The allocator: `LfsAllocProofs`

For every device size, window and block size:

* `TypeCorrect`, `FlightStaysBehind`, `LookedAtStaysUsed`, `NoSpaceIsNotSpurious`:
  with or without failing traversals;
* `WindowStaysFree`, `AllocatesFreeBlocks`: for a window that was filled by a whole
  traversal (`partial` is FALSE), which is needed, as `alloc_unsafe` shows.

`TypeOK` is inductive because it bounds `ack` from below by what is left of the
window. `FlightIsBehind` is inductive given `TypeOK`: `Found` moves `i` and `ack`
by the same amount, `Refill` starts at the block where the old window ended, and
`Ack` finds nothing in flight. The block just found is not among the next `ack`
because fewer than `BlockCount` blocks lie between; this and the other facts on
positions round the device follow from `Numbers`.
`WindowIsFree` needs `FlightIsBehind`: a block may be linked only after it was in
flight, hence behind the window. `LookedAtIsUsed` is inductive by itself given
`TypeOK`. The only assumption is `AllocAssumption` (at least two blocks, and
positive sizes).

### Metadata pairs: `LfsPairProofs`

For every device, every width of the revision counter that `PairAssumption` allows,
every capacity of a block, any number of bad blocks, with crashes and errors at every
point, and with commits tried again on the directory in RAM after `LFS_ERR_NOSPC`: `PairTypeCorrect`, `AckedSurvivesCorrect`,
`CacheIsCoherentCorrect`, `RevisionsStayCloseCorrect`, and `UpdatesAtomicallyCorrect`,
the whole refinement of `AtomicCell`. Their hypothesis is `"link" \notin NoRoom`: the parent's
commit does not run out of room after the directory has moved. Without it the code
loses an acknowledged commit (`lfs.c` 2702 in section 6).

They rest on `PairInvCorrect`. `PairInv` has one part per phase of `lfs_dir_commit`
(`AtRest`, `Appending`, `Compacting`, `Linking`), and `AllSound`: of every image a crash may
leave, one block of the pair `Leads`, that is, a fetch takes it, and it holds every
acknowledged commit. `Leads` compares revisions that wrap: the invariant is that the
leading block's revision is one ahead of the other's, or two where `lfs_dir_alloc` has made it
even, so the signed difference of `lfs_scmp` has the right sign. The phases say which
block must not hold the commit at hand yet (`Without`), so that a crash finds the old
contents, and which one holds it whole (`Rewritten`). Each action then keeps
`PairInv`, and each image it adds is a value the cell may have: the old one or the one
being written, until the commit returns.

### CTZ skip lists: `LfsCtzProofs`

For every block size, every width of the numbers, files of every length and blocks
copied any number of times: `IndexAgreesCorrect`, `PointersExistCorrect`,
`FindLandsCorrect`, `FindIsFastCorrect` and `TraverseIsExactCorrect`.

The first part is pure arithmetic. `CtzSplit` and `CtzUnique` say that a
number is an odd multiple of two to the power of its trailing zeros, in one way only.
`PopcNext` says what the closed formula rests on: to count from n to n + 1 turns the
trailing ones of n into zeros, so popc(n) + 1 = popc(n + 1) + ctz(n + 1); the sizes of
all pointers up to a block therefore add up to a term with one popc (`Base`).
`IndexIs` concludes that `lfs_ctz_index` is right for every byte: the first quotient is
the block's number or one more, and in both cases the correction lands on the number.
`PointersFit` is exactly what the second case needs: the pointers counted up to any
block a file may reach fit into a block. `lfs_init` asserts a weaker bound.

The inductive invariant is `CtzInv`. It names the list, as a function
`L` from numbers to blocks with head `L[m]`: `Linked` (block n points to the blocks
n - 2^j of `L`), `Filled` (the file ends in block m, at `off`) and `Placed` (every byte is
in the block, at the offset, that `Index` says). A search stands on `L[current]`
and a traversal has seen `L` from m down. `Paced` is the argument for the bound on hops: as
long as a search follows each block's last pointer, the next block has
more trailing zeros, so it has made no more hops than that; from the first time it follows
another one, the distance is below the power of two it has just gone back by, and halves with every hop.
`PointersAre` shows what the loop of `lfs_ctz_extend` reads: the recursive function has
the closed form as its only solution.

The arithmetic rests on `Numbers`. That 2^n is a natural number and doubles comes from the
library's count of the subsets of a set of n members. The library's induction theorems
take a predicate as a parameter, which the provers cannot instantiate; `Upwards` is
induction for a set, derived from the library's fact that < is well-founded.

### Files: `LfsFileProofs`

For every device, block size, limit of inline files, bitmap and length of writes, with any
number of calls, through a full device, crashes at every point, and errors of every erase, of the
read of the old list and of the program at the end of a flush: `TraverseSeesAllCorrect` and
`NeverAssertsCorrect`. They have three hypotheses, and the code breaks the properties without each:

* `MaxBad = 0`: no bad blocks (`lfs.c` 3799 and 2917 in section 6);
* `~FullElsewhere`: the directory has room for an inline file unless the handle stands at its end
  (`lfs.c` 2701);
* `Mild`: `Faults` has `"erase"`, `"copy"` and `"flush"` at most. It excludes the program of a full cache that
  fails in the middle of a write (`lfs.c` 2910 and 2605) and reads that leave a stale cache (`lfs.c` 76).

The run `file` satisfies all three. Under faults of any kind `file_faults` checks what is left:
that nothing stored is touched.

They rest on `FileInvCorrect`. `FileInv` says what holds in the middle of every call:

* `IsStack`: which function may call which, and at which place. Nothing a flush or a
  write calls flushes in its turn, so the end of a flush finds no other one that
  waits for it (`Outer`, `Bottom`).
* `Apart`: neither the entry's list nor the handle's has a block of the allocator's
  window, and a handle that is not dirty has the entry's list. It gives the
  traversal its answer: what it does not see through the handle it sees through
  the entry (`UsedHolds`).
* `Geometry`: the block that is written to is in neither list and not free; with the blocks
  before it, it holds what has been written, and only between an extension and the first
  byte programmed is it empty with data before it.
* `Pending`: a file that has left the directory is written over to where it
  ended before, or in a write that will get there. This is what keeps a flush off the list of
  an inline file, and it is false with bad blocks: a relocation on a full device fails in between.
* `Positions` and `Tops`: where a write may stand in an inline file and in one opened
  to append, and what each function has established at the place it has reached.

The first part of the module is about lists: `Before` is a recursive function on d's
predecessors (`BeforeIs`, `BeforeAdd`), so a list stays the same under any change that leaves
the predecessors of its own blocks alone (`ChainSame`, `OutsideSame`), what `lfs_ctz_find`
returns is on the list with a part of it behind (`FindPart`), and a new block before a list
with no free block has none behind it (`WalkGrows`). The other lemmas have one action each.
`FileAssumption` asks for an inline limit below the size of a block, which `lfs_file_write`
guarantees (an eighth of it, line 2853).

### Files keep their promise: `LfsFileFacts` and `LfsFilePromise`

`KeepsItsPromiseCorrect`, the whole refinement of `AtomicFile`: whatever calls are made, every step
of the code is a step of a file whose contents are stored as a whole, or none. `TypeOKCorrect`
follows on the way. Beside the three hypotheses above there is a fourth: no truncation asks for a
positive multiple of a block. At such a size the code loses the place of the last block (`lfs.c`
2995 in section 6), and both the promise and the invariant fail. The run `file` satisfies all
four; `file_worn` checks the promise with a bad block where none of the defects fits in.

They rest on `FactsCorrect`: `FileInv` and `Facts` are inductive together. `FileInv` says which
blocks are whose; `Facts` says what is in them, and has the parts

* `Meaning`: there are two sequences, one the entry stands for (`Stored`) and one the handle stands
  for (`Meant`): the buffer of an inline file, the list of a file that is not being
  written, and otherwise the cells of the new list up to the position over those of the
  old one from there on (`Mixed`). `Holds` says cell by cell in which block of a list each is, without
  the recursion that reads them. The model's `Content` is that sequence (`MeantIs`), and a list keeps
  its cells under any step that leaves its own blocks alone, which is what
  `Apart` and `Geometry` of `FileInv` grant.
* `Nest`: the functions that run, seen in pairs of caller and callee (`Fits`). A flush that copies
  the rest of the old list hands its write the very cell that the abstract file has at that
  place, so it changes nothing; a write that fills a hole, or a truncate that grows, hands over zeros at
  the end. Only the outermost call is the task of `AtomicFile`, and its position is the one
  that the outermost seek, flush or truncate will go back to (`PositionOf`).
* `Ends`: what the innermost function has reached at the place where its code stands: the old block
  loaded for a write in the middle of it, the position where a truncate goes on, the contents stored before a
  close ends.
* `Reading` and `Clean`: a handle that reads knows its block and offset, and one that is not
  dirty shows what is stored.
* `Typed`: sizes, offsets and data in their ranges, so that a block being written has been
  programmed exactly up to the offset.

Each action has one lemma (`...Keeps`) that gives `Facts` after the step and the step of `AtomicFile`
it is. `LfsFileFacts` has those that put nothing into the file: a sync or a close makes
the entry stand for what the handle does (`CommitKeeps`), a relocation copies a block and loses at most
what the write that caused it is going to cover (`RelocateKeeps`), the end of a flush turns the mixed contents into a list (`DrainKeeps`). `LfsFilePromise` has
the others: the cut (`CutKeeps`), the start of a write, which may load a block (`WriteBeginKeeps`),
the block that is added (`ExtendKeeps`), and the cells that are programmed (`ProgKeeps`), where a
`Put`, a `Pad` or no step is made, according to who has called the write (`ProgFor`, `ProgUnder`).

One part of the model was found too wide on the way: `Init` had stored inline files longer than
the longest file. A mount refuses an image whose limit on files is above its own (`lfs.c` 3652), so
`Entries` now keeps to `MaxSize` for inline files as it does for lists.

### Only model-checked

`LfsTree`, and of `LfsFile` what is claimed with bad blocks (`file_worn`) and with faults of every
kind (`OnlySyncStores` of `file_faults`), are model-checked. The invariants and the refinement of `LfsTree` hold for the combinations of calls,
crashes and bad blocks that its runs name, and not for all (section 6), so there is no theorem to state
for every value of its constants. Liveness (`AllocReturns`, `Termination`, `CommitReturns`,
`CallsReturn`, and the fairness in `CopiesTheTree`) is not in TLAPS's reach, and stays with TLC.

## 6. Known defects

Each was met while modelling, as a counterexample of TLC. Where a run is named it is a run of
this project; the others can be seen by the change given in brackets, or follow from the lines named. The passing
runs keep clear of them where it says so.

| where | what |
|---|---|
| `main.c` 247, `main.c` 102 | exit status (`tool_exit`) |
| `vfs_lfs.c` 140 | read-only open writes (`tool_pending`) |
| `lfs.c` 484 | a half-filled window is used (`alloc_unsafe`) |
| `lfs.c` 1643 | endless relocation [4 blocks in `pair` violate `CommitReturns`] |
| `lfs.c` 2702 | after a move whose parent has no room a second commit goes to a pair nobody refers to, and is acknowledged [`NoRoom = {"link"}`, `MaxOps = 3` and `JunkRevs = {}` in `pair` violate `AckedSurvives`] |
| `lfs.c` 1638 | after a failed compaction the directory in RAM is taken for erased behind its last commit, over which a part of another lies [`pc = "append" /\ dir.erased => ~disk[dir.pair[1]].torn` is not an invariant of `pair`] |
| `lfs.c` 2910 | a program that fails on a block just added leaves the handle in it: the traversal misses the file's first block, and the next flush makes that block the head, so that what the file holds is out of place [`Faults = {"prog"}` in `file` violates `TraverseSeesAll` and `KeepsItsPromise`] |
| `lfs.c` 2605 | a program that fails on a file just moved out of the directory: the next flush reads a list that is none [`Faults = {"prog"}` in `file` violates `NeverAsserts`] |
| `lfs.c` 3799 | between an extension and the first byte programmed the traversal starts with an index one too small and misses the first block; a bad block makes the allocator look just then [`MaxBad = 1` in `file` violates `TraverseSeesAll`] |
| `lfs.c` 76 | a cache is marked before the read that fails, and answers for it afterwards [`Faults = {"read"}` in `file` violates `KeepsItsPromise`] |
| `lfs.c` 2718 | a sync that finds no room for an inline file moves as much as the position says, and a seek behind the end becomes a longer file [`FullElsewhere = TRUE` and `Faults = {}` in `file` violate `KeepsItsPromise`] |
| `lfs.c` 1757 and 1522 | an append that goes over to a compaction reads its pair's delta twice and loses it (`tree_delta`) |
| `lfs.c` 1522 | the same when a compaction starts again on another block after a bad one: the delta is read once per round [`Worn` with `"remove"` among its calls violates `GstateIsKept`] |
| `vfs_lfs.c` 247 | after a failed mount `main` unmounts an `lfs_t` that has been freed |
| `lfs.c` 3169 | a file renamed to itself is deleted [`"self"` among the calls of a mode with `"rename"` violates `CallsAreAtomic`] |
| `lfs.c` 3169 | a directory renamed into its own subtree is not refused, and is lost [dropping the second conjunct of `MayRename`] |
| `lfs.c` 3235 | a rename that fails after `lfs_fs_prepmove` leaves the move in `gpending`, and the next commit announces it (errors in the middle of a call are not modelled in `LfsTree`) |
| `lfs.c` 1894 | the first commit to the pair mkdir makes takes the delta of the global state with it, though the pair is not on the list yet; if a repair has just been made and the parent then moves off a bad block, a crash finds an orphan bit that cancels out [two bad blocks and two crashes in `Worn` violate `DifferenceIsAnnounced`] |
| `lfs.c` 1722 | a pair that is dropped with a move pending in it leaves the move in `gpending`: the next `lfs_fs_demove` commits to a pair that is not on the list any more, and asserts if it has no entry [`Moving` with 5 calls and a crash]; `GstateIsKept` exempts the state in between |
| `lfs.c` 1833 | an open file that was the last entry of a split pair's first half and is removed is followed into the tail, and its handle then names another file [`Watched` with `"remove"` violates `HandleFollows`] |
| `lfs.c` 1820 | a commit that deletes and creates adjusts open files for the deletion only [`Shared` with `"rename"`] |
| `lfs.c` 1724 | a commit that drops its pair does not adjust open files at all |
| `lfs.c` 1904 | mkdir keeps its copy of the parent's pair over the commit to the list, which may move that pair |
| `lfs.c` 2995 | truncation to a multiple of a block leaves the next block as the head, and what is read or appended later is out of place [`Cuts = {2}` in `file` violates `KeepsItsPromise`] |
| `lfs.c` 2701 | an inline file that the directory has no room for is moved to a block only up to its position; the next flush reads the rest from a list that is none [`FullElsewhere = TRUE` in `file` violates `NeverAsserts`] |
| `lfs.c` 2917 | an inline file that is written over from the front and moved to a block that goes bad keeps its size with a list that is none when the second move fails too, for want of a block or by an error of the device; the next flush reads it [`NeverAsserts` in `file_worn`] |
| `lfs.c` 2673 | after an error `lfs_file_sync` returns 0 without storing anything (`AtomicFile` allows it: `broken`) |
| `lfs.c` 2934 | the writes that a flush or a hole makes inside another call clear the mark of an error (`Mend` in `AtomicFile`) |
| `lfs.c` 2641 | a flush that fails leaves the position where the copy had come to (`Fail` in `AtomicFile`) |
| `lfs.c` 2124 | the closed formula is wrong for blocks too small for their pointers, of which `lfs_init` asserts only a weaker bound (`PointersFit`) |

## 7. Not modelled, and the plan

Option parsing (the usage text names an IO size of 512 by default, `main.c` 57; the
code's is 256, `vfs_lfs.c` 32), string handling and logging; 32-bit offsets in `fs_read`,
`fs_prog` and `fs_erase`; loss of data by the host after `fflush`; symbolic links in
the source; custom attributes, which the tool never uses; the migration of version 1
images, which is not compiled; moves of pairs for wear, as `block_cycles` is -1.

In `LfsTree`: a bad block met in the same commit as a split, the expansion of the
root's superblock, errors in the middle of a call other than a full device before its
first commit, open directories (`lfs_dir_read`), and calls that a lookup refuses.
In `LfsTree` no mode joins a split, a move and a crash, and `CallsAreAtomic` holds for each mode
on its own; that a delta is lost in a compaction (`lfs.c` 1757) is seen by `tree_delta` only, as the modes of `tree` have
no older delta where that could happen.
In `LfsFile`: a file that is removed while it is open, and several handles on one file; an
`io_size` smaller than a block, with which errors at 2534 and 2546 would leave `lfs->pcache` filled
(the assertion at 206) and a second try of `lfs_ctz_extend` (2257) would start from a size and a
head already changed; errors of reading a pointer of a list (2147-2153, 2240-2246), as the lists of
`LfsFile` are followed without reads and `LfsCtz` has no errors; and an error of the traversal inside
`lfs_alloc` (483-486), which is in `LfsAlloc` (`alloc_unsafe`).
In `LfsPair`: an assertion that fails on a `pcache` left filled (206), after which the program would stop; and
a directory used again after an error other than `LFS_ERR_NOSPC`, which lfs-tool never does.
The tags of a commit (`lfs_dir_traverse`, `lfs_dir_getslice`) are represented by the
entries they add up to, and the caches `pcache` and `rcache` by what a flush leaves.

What is left, in order:

1. `LfsTree`: its invariants as theorems, one for each combination of calls, crashes and bad blocks for which they hold.
2. `LfsLog`: the tags of one block against a map of ids (create, delete, splice).
3. `LfsCache`: `pcache` and `rcache` against the device, and the assertion at `lfs.c` 206.
