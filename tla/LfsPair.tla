------------------------------- MODULE LfsPair -------------------------------
(***************************************************************************)
(* A metadata pair of littlefs: two blocks that hold the same directory,   *)
(* each a log of commits behind a revision count.  A commit is appended to *)
(* the newer block, or, when that is full or cannot be programmed safely,  *)
(* the directory is compacted into the older one under the next revision;  *)
(* when that block does not take the data the pair is moved to another and *)
(* the parent is made to refer to the new pair.  This module models        *)
(* lfs_dir_fetch, lfs_dir_alloc, lfs_dir_commit and lfs_dir_compact for    *)
(* one pair, and the crashes, errors and bad blocks they are written for.  *)
(* A directory's contents are one number: that of the last commit in it.   *)
(***************************************************************************)
EXTENDS Integers, Sequences, FiniteSets

CONSTANTS
  Blocks,     \* the blocks of the device; 0 and 1 are the superblock's pair
  Revisions,  \* revision counts are taken modulo this (2^32 in the code)
  Capacity,   \* the number of commits that fit into a block
  JunkRevs,   \* the revisions in headers left over from an earlier life of a
              \* block, or written in part
  MaxOps,     \* bound on the commits
  MaxBad,     \* bound on the blocks that go bad
  NoRoom      \* the places where a commit may find the device full: "compact"
              \* for a split, "link" for the parent's commit, "linked" for
              \* that of the directory before it in the list

ASSUME PairAssumption ==
  /\ IsFiniteSet(Blocks) /\ {0, 1} \subseteq Blocks
  /\ Revisions \in Nat /\ Revisions % 2 = 0 /\ Revisions > 4
  /\ Capacity \in Nat \ {0}
  /\ JunkRevs \subseteq 0 .. Revisions - 1
  /\ MaxOps \in Nat /\ MaxBad \in Nat
  /\ NoRoom \subseteq {"compact", "link", "linked"}

VARIABLES
  disk,       \* the blocks: [rev, log, torn], torn if garbage follows the log
  ref,        \* the pair that the parent refers to, NoPair before lfs_mkdir
  images,     \* the states [disk, ref] a crash may leave
  bad,        \* the blocks that no longer take what is programmed
  dir,        \* lfs_mdir_t: [pair, rev, off, erased], None if not fetched
  pc,         \* where the running lfs_dir_commit stands
  want,       \* what it writes, 0 if none runs
  relocated,  \* lfs_dir_compact's variable
  handed,     \* the blocks lfs_alloc has handed out to it
  ops,        \* the commits begun so far
  acked       \* history: what the last commit that returned 0 has written

device == <<disk, ref, images>>
vars == <<device, bad, dir, pc, want, relocated, handed, ops, acked>>

NoPair == <<>>
None == [pair |-> NoPair, rev |-> 0, off |-> 0, erased |-> FALSE]
Superblock == {0, 1}
Stale == -1
Corrupt == -2

Elems(s) == {s[k] : k \in DOMAIN s}
Revs == 0 .. Revisions - 1
Last(s) == s[Len(s)]
Swap(p) == <<p[2], p[1]>>

Erased == [rev |-> Revisions - 1, log |-> <<>>, torn |-> FALSE]
\* What an interrupted erase or compaction leaves: a header of any kind, and
\* no commit whose checksum holds.
Garbled == [rev : JunkRevs \cup {dir.rev}, log : {<<>>}, torn : {TRUE}]
Leftovers == {Erased} \cup [rev : JunkRevs, log : {<<Stale>>}, torn : {FALSE}]

\* Mutant of Continued: a new pair starts at revision 0.
ContinuedFromZero(rev) == 0

\* lfs_dir_alloc: a new pair's revision continues that of the block that will
\* be written last, made even.
Continued(rev) == (rev + (rev % 2)) % Revisions

-----------------------------------------------------------------------------
\* lfs_dir_fetch

\* Mutant of Newer: an unsigned comparison.
NewerUnsigned(a, b) == a > b

\* lfs_scmp(a, b) > 0: a comes after b in sequence, ignoring overflow.
Newer(a, b) == (a - b) % Revisions \in 1 .. Revisions \div 2 - 1

\* The pair, the block with the most recent revision first.
Ordered(d, p) == IF Newer(d[p[2]].rev, d[p[1]].rev) THEN Swap(p) ELSE p

\* The same, falling back on the other block if the first holds no commit.
Chosen(d, p) ==
  LET o == Ordered(d, p) IN IF d[o[1]].log = <<>> THEN Swap(o) ELSE o

Fetched(d, p) ==
  LET o == Chosen(d, p)
      block == d[o[1]]
  IN [pair |-> o, rev |-> block.rev, off |-> Len(block.log),
      erased |-> ~block.torn]

Fetchable(d, p) == \E b \in Elems(p) : d[b].log # <<>>

\* What a mount of the image finds.
Value(img) ==
  CASE img.ref = NoPair -> 0
    [] img.ref # NoPair /\ ~Fetchable(img.disk, img.ref) -> Corrupt
    [] OTHER -> Last(img.disk[Chosen(img.disk, img.ref)[1]].log)

Now == [disk |-> disk, ref |-> ref]
Durable == {Value(img) : img \in images}

-----------------------------------------------------------------------------
\* The directory is yet to be made by lfs_mkdir, or it is the superblock's
\* pair as lfs_format leaves it: compacted twice, the second time into 1.
Init ==
  /\ \/ /\ ref = NoPair
        /\ disk \in [Blocks -> Leftovers]
        /\ \A b \in Superblock : disk[b] = Erased
     \/ /\ ref = <<0, 1>>
        /\ \E old \in Leftovers :
             disk = [b \in Blocks |->
               IF b \in Superblock
               THEN [rev |-> (Continued(old.rev) + 1 + b) % Revisions,
                     log |-> <<0>>, torn |-> FALSE]
               ELSE Erased]
  /\ images = {Now}
  /\ bad = {} /\ dir = None /\ pc = "idle" /\ want = 0
  /\ relocated = FALSE /\ handed = {} /\ ops = 0 /\ acked = 0

\* Block b is being written: whole at the end, one of parts on the way there.
\* A bad block keeps what it had, or is left with some part.
Put(b, parts, whole) ==
  LET With(x) == [disk EXCEPT ![b] = x] IN
  /\ \E x \in IF b \in bad THEN parts \cup {disk[b]} ELSE {whole} :
       disk' = With(x)
  /\ images' = images \cup
       {[disk |-> With(x), ref |-> ref] : x \in parts \cup {disk'[b]}}
  /\ ref' = ref

\* Mutant of Sync: it does nothing.
SyncNothing == UNCHANGED device

\* lfs_bd_sync
Sync == images' = {Now} /\ UNCHANGED <<disk, ref>>

\* The operation returns: with an error, or with 0.  Nobody commits again on a
\* directory in RAM whose commit has failed, except after LFS_ERR_NOSPC:
\* lfs_file_sync then takes an inline file out of the directory and tries again.
GiveUp == pc' = "idle" /\ want' = 0 /\ dir' = None
TryAgain == pc' = "idle" /\ want' = 0 /\ dir' = dir
Succeed == pc' = "idle" /\ want' = 0 /\ acked' = want

-----------------------------------------------------------------------------
\* lfs_dir_fetch, for the next operation on the directory
Fetch ==
  /\ pc = "idle" /\ dir = None
  /\ ref # NoPair /\ Fetchable(disk, ref)
  /\ dir' = Fetched(disk, ref)
  /\ UNCHANGED <<device, bad, pc, want, relocated, handed, ops, acked>>

\* An operation on the directory starts.
Start ==
  /\ pc = "idle" /\ ops < MaxOps
  /\ ops' = ops + 1 /\ want' = ops' /\ relocated' = FALSE
  /\ UNCHANGED <<device, bad, acked>>

\* lfs_alloc: a block that is not in use and has not been handed out since
\* the operation's lfs_alloc_ack.
Free == Blocks \ (Superblock \cup Elems(ref) \cup handed)

\* lfs_dir_commit.  A directory of 255 entries or more is appended to even
\* where it is not erased.
Commit ==
  /\ Start
  /\ dir # None
  /\ \/ pc' = "append"
     \/ ~dir.erased /\ pc' = "compact"
  /\ handed' = {}
  /\ UNCHANGED dir

\* lfs_mkdir: lfs_dir_alloc, and the commit of the new directory.
Create ==
  /\ Start
  /\ ref = NoPair
  /\ \E a, b \in Blocks \ Superblock :
       /\ a # b
       /\ handed' = {a, b}
       /\ dir' = [pair |-> <<a, b>>, rev |-> Continued(disk[a].rev),
                  off |-> 0, erased |-> FALSE]
  /\ pc' = "compact"

\* The commit goes after the last one in the active block.
Append1(block) ==
  [block EXCEPT !.log = Append(SubSeq(@, 1, dir.off), want), !.torn = FALSE]
Torn(block) == [block EXCEPT !.torn = TRUE]

AppendCommit ==
  /\ pc = "append"
  /\ dir.off < Capacity
  /\ LET block == disk[dir.pair[1]] IN
     Put(dir.pair[1], {Torn(block)}, Append1(block))
  /\ pc' = "verify"
  /\ UNCHANGED <<bad, dir, want, relocated, handed, ops, acked>>

\* Mutant of AppendFull: the commit is tried again as it is.
AppendFullAgain ==
  /\ pc = "append"
  /\ \/ UNCHANGED device
     \/ Put(dir.pair[1], {}, Torn(disk[dir.pair[1]]))
  /\ UNCHANGED <<bad, dir, pc, want, relocated, handed, ops, acked>>

\* lfs_dir_commitattr runs out of room, maybe with part of the commit flushed
\* already.
AppendFull ==
  /\ pc = "append"
  /\ \/ UNCHANGED device
     \/ Put(dir.pair[1], {}, Torn(disk[dir.pair[1]]))
  /\ pc' = "compact"
  /\ UNCHANGED <<bad, dir, want, relocated, handed, ops, acked>>

\* Mutant of Written: the commit is not read back.
WrittenUnchecked(b) == TRUE

\* lfs_dir_commitcrc syncs and reads the commit back.
Written(b) == disk[b].log # <<>> /\ Last(disk[b].log) = want /\ ~disk[b].torn

\* Mutant of VerifyAppend: dir.off is set before the commit has been checked.
VerifyAppendLate ==
  /\ pc = "verify"
  /\ Sync
  /\ dir' = [dir EXCEPT !.off = @ + 1]
  /\ IF Written(dir.pair[1]) THEN Succeed
     ELSE pc' = "compact" /\ UNCHANGED <<want, acked>>
  /\ UNCHANGED <<bad, relocated, handed, ops>>

VerifyAppend ==
  /\ pc = "verify"
  /\ Sync
  /\ \/ /\ Written(dir.pair[1])
        /\ dir' = [dir EXCEPT !.off = @ + 1]
        /\ Succeed
     \/ /\ ~Written(dir.pair[1])
        /\ pc' = "compact"
        /\ UNCHANGED <<dir, want, acked>>
  /\ UNCHANGED <<bad, relocated, handed, ops>>

-----------------------------------------------------------------------------
\* lfs_dir_compact

\* Mutant of Compact: the revision does not wrap.
CompactUnwrapped ==
  /\ pc = "compact"
  /\ dir' = [dir EXCEPT !.rev = @ + 1]
  /\ pc' = "erase"
  /\ UNCHANGED <<device, bad, want, relocated, handed, ops, acked>>

Compact ==
  /\ pc = "compact"
  /\ dir' = [dir EXCEPT !.rev = (@ + 1) % Revisions]
  /\ pc' = "erase"
  /\ UNCHANGED <<device, bad, want, relocated, handed, ops, acked>>

\* Mutant of Erase: the active block is erased.
EraseActive ==
  /\ pc = "erase"
  /\ Put(dir.pair[1], Garbled, Erased)
  /\ pc' = "rewrite"
  /\ UNCHANGED <<bad, dir, want, relocated, handed, ops, acked>>

Erase ==
  /\ pc = "erase"
  /\ Put(dir.pair[2], Garbled, Erased)
  /\ pc' = "rewrite"
  /\ UNCHANGED <<bad, dir, want, relocated, handed, ops, acked>>

Rewrite ==
  /\ pc = "rewrite"
  /\ Put(dir.pair[2], Garbled,
         [rev |-> dir.rev, log |-> <<want>>, torn |-> FALSE])
  /\ pc' = "check"
  /\ UNCHANGED <<bad, dir, want, relocated, handed, ops, acked>>

\* The compaction sticks, and the pair is swapped; a pair the parent does not
\* know yet remains to be linked.  dir.erased is left as it was.
CheckRewrite ==
  /\ pc = "check"
  /\ Sync
  /\ \/ /\ Written(dir.pair[2])
        /\ dir' = [dir EXCEPT !.pair = Swap(@), !.off = 1]
        /\ IF relocated \/ ref = NoPair
           THEN pc' = "link" /\ UNCHANGED <<want, acked>>
           ELSE Succeed
     \/ /\ ~Written(dir.pair[2])
        /\ pc' = "relocate"
        /\ UNCHANGED <<dir, want, acked>>
  /\ UNCHANGED <<bad, relocated, handed, ops>>

\* The superblock's pair cannot move: LFS_ERR_NOSPC.
Frozen ==
  /\ pc = "relocate"
  /\ Elems(dir.pair) \cap Superblock # {}
  /\ GiveUp \/ TryAgain
  /\ UNCHANGED <<device, bad, relocated, handed, ops, acked>>

\* Mutant of Relocate: the bad block stays in the pair.
RelocateNowhere ==
  /\ pc = "relocate"
  /\ Elems(dir.pair) \cap Superblock = {}
  /\ relocated' = TRUE
  /\ pc' = "erase"
  /\ UNCHANGED <<device, bad, dir, want, handed, ops, acked>>

\* Any other pair goes on with another second block; if there is none, with
\* the one it has (LFS_ERR_NOSPC is not returned).
Relocate ==
  /\ pc = "relocate"
  /\ Elems(dir.pair) \cap Superblock = {}
  /\ relocated' = TRUE
  /\ \/ /\ Free = {}
        /\ UNCHANGED <<dir, handed>>
     \/ \E c \in Free :
          handed' = handed \cup {c} /\ dir' = [dir EXCEPT !.pair[2] = c]
  /\ pc' = "erase"
  /\ UNCHANGED <<device, bad, want, ops, acked>>

\* lfs_fs_relocate, or lfs_mkdir's insertion: the parent's own commit makes it
\* refer to the new pair.
Link ==
  /\ pc = "link"
  /\ ref' = dir.pair
  /\ images' = images \cup {[disk |-> disk, ref |-> ref']}
  /\ pc' = "linked"
  /\ UNCHANGED <<disk, bad, dir, want, relocated, handed, ops, acked>>

Linked ==
  /\ pc = "linked"
  /\ Sync
  /\ Succeed
  /\ UNCHANGED <<bad, dir, relocated, handed, ops>>

\* LFS_ERR_NOSPC from lfs_dir_split, or, once the directory has moved, from
\* lfs_fs_relocate, and the commit is tried again; lfs_mkdir does not.
NoSpace ==
  /\ pc \in NoRoom /\ ref # NoPair
  /\ pc # "compact" => relocated
  /\ TryAgain
  /\ UNCHANGED <<device, bad, relocated, handed, ops, acked>>

\* The device reports an error other than LFS_ERR_CORRUPT: the operation
\* returns it, with what it wrote since the last sync written in part.
IOError ==
  /\ pc # "idle"
  /\ \E img \in images : disk' = img.disk /\ ref' = img.ref
  /\ GiveUp
  /\ UNCHANGED <<images, bad, relocated, handed, ops, acked>>

Step == AppendCommit \/ AppendFull \/ VerifyAppend \/ Compact \/ Erase
          \/ Rewrite \/ CheckRewrite \/ Frozen \/ Relocate \/ Link \/ Linked

-----------------------------------------------------------------------------
\* The environment

Crash ==
  /\ \E img \in images : disk' = img.disk /\ ref' = img.ref /\ images' = {img}
  /\ GiveUp
  /\ UNCHANGED <<bad, relocated, handed, ops, acked>>

Wear ==
  /\ Cardinality(bad) < MaxBad
  /\ \E b \in Blocks \ bad : bad' = bad \cup {b}
  /\ UNCHANGED <<device, dir, pc, want, relocated, handed, ops, acked>>

Next == Fetch \/ Commit \/ Create \/ Step \/ NoSpace \/ IOError \/ Crash \/ Wear

\* lfs_dir_commit is sequential code: once called, it runs.
Spec == Init /\ [][Next]_vars /\ WF_vars(Step)

-----------------------------------------------------------------------------
BlockStates ==
  [rev : Revs, torn : BOOLEAN,
   log : UNION {[1 .. n -> {Stale} \cup 0 .. MaxOps] : n \in 0 .. Capacity}]

\* The shape of the state.
TypeOK ==
  /\ disk \in [Blocks -> BlockStates]
  /\ ref \in {NoPair} \cup Blocks \X Blocks
  /\ Now \in images
  /\ bad \subseteq Blocks
  /\ dir.pair \in {NoPair} \cup Blocks \X Blocks
  /\ dir.rev \in Revs /\ dir.off \in 0 .. Capacity /\ dir.erased \in BOOLEAN
  /\ pc \in {"idle", "append", "verify", "compact", "erase", "rewrite", "check",
             "relocate", "link", "linked"}
  /\ want \in 0 .. MaxOps /\ ops \in 0 .. MaxOps /\ acked \in 0 .. MaxOps
  /\ relocated \in BOOLEAN /\ handed \subseteq Blocks

\* Whatever moment the machine stops at, a mount finds the directory, with no
\* commit lost that returned 0 before and nothing a block held in an earlier
\* life.
AckedSurvives == \A v \in Durable : v >= acked

\* A compaction of the superblock's pair can only fail: its second block is bad.
Stuck == Elems(dir.pair) \cap Superblock # {} /\ dir.pair[2] \in bad

\* Between two operations the directory in RAM, one whose commit has just
\* failed too, names the block and the place in it that a fetch would find, and
\* that block's revision, if the pair is not stuck.
CacheIsCoherent ==
  pc = "idle" /\ dir # None =>
    LET found == Fetched(disk, ref) IN
    /\ dir.pair = found.pair /\ dir.off = found.off
    /\ dir.rev = found.rev \/ Stuck

\* The two revisions never drift apart: where both blocks hold commits, the
\* later one is at most two ahead, far from where the sequence comparison of
\* the counters turns over.
RevisionsStayClose ==
  \A img \in images :
    img.ref # NoPair /\ (\A b \in Elems(img.ref) : img.disk[b].log # <<>>) =>
      LET o == Chosen(img.disk, img.ref) IN
      (img.disk[o[1]].rev - img.disk[o[2]].rev) % Revisions \in {1, 2}

\* The pair implements an atomic cell.
Cell == INSTANCE AtomicCell WITH durable <- Durable, pending <- want
UpdatesAtomically == Cell!Spec

\* lfs_dir_commit returns.
CommitReturns == pc # "idle" ~> pc = "idle"
=============================================================================
