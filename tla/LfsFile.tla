------------------------------- MODULE LfsFile -------------------------------
(***************************************************************************)
(* One file of littlefs and the handle that is open on it.  Small files    *)
(* live inside the directory; larger ones are a backward-linked list of    *)
(* blocks that is never changed in place.  A write copies the block it     *)
(* starts in, or adds one, programs it through the handle's cache, moves   *)
(* to another block when one turns out to be bad, and at a flush copies    *)
(* what follows the written part from the old list.  The directory entry   *)
(* is replaced in one commit by lfs_file_sync.  This module models         *)
(* lfs_file_open .. lfs_file_truncate step by step, with the allocation of *)
(* blocks in between, bad blocks, a full device, errors of the device and  *)
(* crashes.  What is read, programmed and cached at a time is a block:     *)
(* lfs-tool makes the three sizes one, io_size, which may be block_size.   *)
(***************************************************************************)
EXTENDS Integers, Sequences, FiniteSets, SequencesExt

CONSTANTS
  Blocks,     \* the blocks of the device that are not metadata
  BlockSize,  \* cells of data in a block
  InlineMax,  \* the size up to which a file is kept in the directory
  MaxSize,    \* lfs->file_max
  Lookahead,  \* the blocks the allocator's bitmap can find free at a time
  Cuts,       \* the sizes lfs_file_truncate is called with
  FullElsewhere, \* may the directory run out of room for an inline file
              \* while the handle stands elsewhere than at the file's end?
  Faults,     \* the places where the device may return an error of its own
  MaxWrite,   \* bound on the cells of a write
  MaxOps,     \* bound on the calls
  MaxBad      \* bound on the blocks that go bad

ASSUME FileAssumption ==
  /\ IsFiniteSet(Blocks) /\ "null" \notin Blocks /\ "inline" \notin Blocks
  /\ BlockSize \in Nat \ {0} /\ InlineMax \in 0 .. BlockSize - 1
  /\ MaxSize \in Nat \ {0} /\ Lookahead \in Nat \ {0}
  /\ Cuts \subseteq 0 .. MaxSize /\ FullElsewhere \in BOOLEAN
  /\ Faults \subseteq {"erase", "copy", "flush", "prog", "read"}
  /\ MaxWrite \in Nat \ {0} /\ MaxOps \in Nat /\ MaxBad \in Nat

VARIABLES
  entry,   \* the file's entry in its directory: [head, size, buf]
  disk,    \* what the blocks hold: [prev, data]
  bad,     \* the blocks that no longer take what is programmed
  window,  \* lfs->free: blocks found free and not handed out yet
  flight,  \* the blocks handed out since lfs_alloc_ack
  file,    \* lfs_file_t; cur is the block at file.block as its cache shows it,
           \* cache, stale and misread are what errors leave in the caches
  calls,   \* the stack of running functions, the innermost last
  ops,     \* the calls made so far
  ret      \* what the last call returned (see AtomicFile)

alloc == <<window, flight>>
vars == <<entry, disk, bad, alloc, file, calls, ops, ret>>

Null == "null"
Inline == "inline"
Erased == [prev |-> Null, data |-> <<>>]
Nothing == <<>>
Error == <<-1>>
Lost == -2
Garbage(n) == [k \in 1 .. n |-> Lost]

\* s up to position p, followed by d and by what s has after that.
Spliced(s, p, d) ==
  SubSeq(s, 1, p) \o d \o SubSeq(s, p + Len(d) + 1, Len(s))

-----------------------------------------------------------------------------
\* The list of a file's blocks (with one pointer per block: LfsCtz)

\* lfs_ctz_index: the block, counted from the first, that holds byte p.
Index(p) == p \div BlockSize

\* The k-th block before h on d.
Before(d, h, k) ==
  LET f[i \in 0 .. k] ==
        IF i = 0 THEN h ELSE IF f[i - 1] \in Blocks THEN d[f[i - 1]].prev
                             ELSE Null
  IN f[k]

\* lfs_ctz_find
Find(d, h, size, p) ==
  IF Index(p) < Index(size - 1) THEN Before(d, h, Index(size - 1) - Index(p))
  ELSE h

\* lfs_ctz_traverse
Chain(d, h, size) ==
  IF size = 0 THEN {}
  ELSE {Before(d, h, k) : k \in 0 .. Index(size - 1)} \cap Blocks

Cell(d, h, size, p) ==
  LET b == Find(d, h, size, p)
      at == (p % BlockSize) + 1
  IN IF b \in Blocks /\ at \in DOMAIN d[b].data THEN d[b].data[at] ELSE Lost

Cells(d, h, size) == [k \in 1 .. size |-> Cell(d, h, size, k - 1)]

Contents(e) == IF e.head = Inline THEN SubSeq(e.buf, 1, e.size)
               ELSE Cells(disk, e.head, e.size)

\* The blocks as the handle sees them, through its cache.
View == IF file.writing /\ file.block \in Blocks
        THEN [disk EXCEPT ![file.block] = file.cur] ELSE disk

Larger(m, n) == IF m > n THEN m ELSE n
Smaller(m, n) == IF m < n THEN m ELSE n

\* lfs_file_size
Size == IF file.writing THEN Larger(file.pos, file.ctz.size) ELSE file.ctz.size

-----------------------------------------------------------------------------
\* lfs_fs_traverse, as far as this file is concerned.

\* Mutant of Used: files being written are left out.
UsedUnlessWriting ==
  Chain(disk, entry.head, entry.size)
    \cup (IF file.dirty THEN Chain(View, file.ctz.head, file.ctz.size) ELSE {})

\* Mutant of Used: a list that is being replaced is left out.
UsedIfCurrent ==
  (IF file.dirty \/ file.writing THEN {}
   ELSE Chain(disk, entry.head, entry.size))
    \cup (IF file.dirty /\ ~file.inline
          THEN Chain(View, file.ctz.head, file.ctz.size) ELSE {})
    \cup (IF file.writing /\ ~file.inline
          THEN Chain(View, file.block, file.pos) ELSE {})

Used ==
  Chain(disk, entry.head, entry.size)
    \cup (IF file.dirty /\ ~file.inline
          THEN Chain(View, file.ctz.head, file.ctz.size) ELSE {})
    \cup (IF file.writing /\ ~file.inline
          THEN Chain(View, file.block, file.pos) ELSE {})

-----------------------------------------------------------------------------
Fresh == [ctz |-> [head |-> Inline, size |-> 0, buf |-> <<>>], inline |-> TRUE,
          open |-> FALSE, append |-> FALSE, reading |-> FALSE, writing |-> FALSE,
          dirty |-> FALSE, erred |-> FALSE,
          pos |-> 0, off |-> 0, block |-> Null, cur |-> Erased,
          cache |-> "right", stale |-> FALSE, misread |-> Null]

\* The file may exist at the start, with cells no write of the run produces.
Entries(h) ==
  IF h = Inline
  THEN {[head |-> h, size |-> n, buf |-> [k \in 1 .. n |-> MaxOps + k]] :
          n \in 0 .. Smaller(InlineMax, MaxSize)}
  ELSE {[head |-> h, size |-> n, buf |-> <<>>] : n \in InlineMax + 1 .. MaxSize}

Init ==
  /\ \E order \in {s \in [1 .. MaxSize \div BlockSize + 1 -> Blocks] :
                     IsInjective(s)} :
       /\ entry \in Entries(Inline)
            \cup UNION {Entries(order[k]) : k \in DOMAIN order}
       /\ entry.head # Inline => entry.head = order[Index(entry.size - 1) + 1]
       /\ disk = [b \in Blocks |->
            IF entry.head # Inline
                 /\ \E k \in 1 .. Index(entry.size - 1) + 1 : order[k] = b
            THEN LET k == CHOOSE i \in DOMAIN order : order[i] = b IN
                 [prev |-> IF k = 1 THEN Null ELSE order[k - 1],
                  data |-> [i \in 1 .. Smaller(BlockSize,
                                          entry.size - (k - 1) * BlockSize) |->
                              MaxOps + (k - 1) * BlockSize + i]]
            ELSE Erased]
  /\ bad = {} /\ window = {} /\ flight = {}
  /\ file = Fresh /\ calls = <<>> /\ ops = 0 /\ ret = Nothing

-----------------------------------------------------------------------------
\* The stack of calls.  n and data are arguments; back is a position that is
\* to be restored, or reached, later, -1 if there is none.
Frame(op) == [op |-> op, at |-> "begin", n |-> 0, data |-> <<>>, back |-> -1]

Top == Last(calls)
At(op, at) == calls # <<>> /\ Top.op = op /\ Top.at = at
GoTo(at) == [calls EXCEPT ![Len(calls)].at = at]
Enter(at, frame) == calls' = Append(GoTo(at), frame) /\ UNCHANGED ret
Continue(at) == calls' = GoTo(at) /\ UNCHANGED ret
Return(r) ==
  calls' = Front(calls) /\ ret' = IF Len(calls) = 1 THEN r ELSE ret

\* An error goes up through all callers; those that write or sync mark the
\* file, and a close closes it all the same.  f is what the handle has become.
FailsWith(f) ==
  /\ calls' = <<>> /\ ret' = Error
  /\ file' =
       IF calls[1].op = "close" THEN Fresh
       ELSE [f EXCEPT !.erred =
               @ \/ \E k \in DOMAIN calls : calls[k].op \in {"write", "sync"}]

Fails == FailsWith(file)

Kept == UNCHANGED <<entry, disk, bad, ops>>

Call(frame) ==
  /\ file.open /\ calls = <<>> /\ ops < MaxOps
  /\ ops' = ops + 1 /\ calls' = <<frame>>
  /\ UNCHANGED <<entry, disk, bad, alloc, file, ret>>

\* lfs_file_opencfg of the existing file, or with LFS_O_TRUNC.
Open(trunc, append) ==
  /\ ~file.open /\ ops < MaxOps /\ ops' = ops + 1
  /\ file' = [Fresh EXCEPT !.open = TRUE, !.append = append, !.dirty = trunc,
                           !.inline = trunc \/ entry.head = Inline,
                           !.ctz = IF trunc THEN @ ELSE entry]
  /\ ret' = Nothing
  /\ UNCHANGED <<entry, disk, bad, alloc, calls>>

Write(n) ==
  Call([Frame("write") EXCEPT !.data = [k \in 1 .. n |-> ops + 1]])
Read == Call(Frame("read"))
Sync == Call(Frame("sync"))
Close == Call(Frame("close"))
Seek(p) == Call([Frame("seek") EXCEPT !.n = p])
Truncate(n) == Call([Frame("truncate") EXCEPT !.n = n])

-----------------------------------------------------------------------------
\* lfs_alloc

Take(b) == b \in window /\ window' = window \ {b} /\ flight' = flight \cup {b}

Allocating ==
  calls # <<>> /\ (At("write", "extend") \/ Top.op \in {"relocate", "outline"})

Refill ==
  /\ Allocating /\ window = {}
  /\ window' \in {w \in SUBSET (Blocks \ (Used \cup flight)) :
                    w # {} /\ Cardinality(w) <= Lookahead}
  /\ UNCHANGED <<entry, disk, bad, flight, file, calls, ops, ret>>

NoSpace ==
  /\ Allocating /\ window = {} /\ Blocks \ (Used \cup flight) = {}
  /\ Fails
  /\ UNCHANGED <<entry, disk, bad, alloc, ops>>

\* The block that lfs_alloc gave is not erased: the device returns an error.
EraseFails ==
  /\ "erase" \in Faults /\ Allocating
  /\ \E b \in window :
       /\ Take(b)
       /\ disk' \in {disk, [disk EXCEPT ![b] = Erased]}
  /\ Fails
  /\ UNCHANGED <<entry, bad, ops>>

-----------------------------------------------------------------------------
\* lfs_file_write

WriteBegin ==
  /\ At("write", "begin")
  /\ LET start == IF file.append /\ file.pos < file.ctz.size
                  THEN file.ctz.size ELSE file.pos
         f == [file EXCEPT !.reading = FALSE, !.pos = start]
     IN \/ /\ start + Len(Top.data) > MaxSize
           /\ file' = f /\ Return(Error)
        \/ /\ start + Len(Top.data) <= MaxSize
           /\ ~file.writing /\ start > file.ctz.size
           /\ file' = [f EXCEPT !.pos = file.ctz.size]
           /\ Enter("check", [Frame("fill") EXCEPT !.back = start])
        \/ /\ start + Len(Top.data) <= MaxSize
           /\ file.writing \/ start <= file.ctz.size
           /\ file' = f /\ Continue("check")
  /\ Kept /\ UNCHANGED alloc

\* A hole is filled by writes of one zero each.
Fill ==
  /\ At("fill", "begin")
  /\ IF file.pos < Top.back
     THEN Enter("begin", [Frame("write") EXCEPT !.data = <<0>>])
     ELSE Return(Nothing)
  /\ Kept /\ UNCHANGED <<alloc, file>>

\* An inline file that grows too large is moved to a block (lfs_file_outline).
Check ==
  /\ At("write", "check")
  /\ \/ /\ file.inline
        /\ Larger(file.pos + Len(Top.data), file.ctz.size) > InlineMax
        /\ file' = [file EXCEPT !.off = file.pos]
        /\ flight' = {} /\ window' = window
        /\ Enter("loop", Frame("outline"))
     \/ /\ ~file.inline
           \/ Larger(file.pos + Len(Top.data), file.ctz.size) <= InlineMax
        /\ Continue("loop") /\ UNCHANGED <<alloc, file>>
  /\ Kept

WriteEnds ==
  /\ At("write", "loop") /\ Top.data = <<>>
  /\ file' = [file EXCEPT !.erred = FALSE]
  /\ Return(Nothing)
  /\ Kept /\ UNCHANGED alloc

\* The block to go on from is looked up, unless the handle is in it already.
NeedsBlock ==
  /\ At("write", "loop") /\ Top.data # <<>>
  /\ \/ /\ file.writing /\ (file.inline \/ file.off < BlockSize)
        /\ Continue("prog") /\ UNCHANGED <<alloc, file>>
     \/ /\ ~file.writing /\ file.inline
        /\ file' = [file EXCEPT !.writing = TRUE, !.off = file.pos]
        /\ Continue("prog") /\ UNCHANGED alloc
     \/ /\ ~file.inline
        /\ ~file.writing \/ file.off = BlockSize
        /\ LET b == IF file.pos = 0 THEN Null
                    ELSE Find(disk, file.ctz.head, file.ctz.size, file.pos - 1)
           IN file' = IF file.writing THEN file
                      ELSE [file EXCEPT !.block = b,
                              !.cur = IF b \in Blocks THEN disk[b] ELSE Erased]
        /\ flight' = {} /\ window' = window
        /\ Continue("extend")
  /\ Kept

\* lfs_ctz_extend: block b is the first, continues a copy of the last one, or
\* comes after it.
Extended(b, size) ==
  LET filled == ((size - 1) % BlockSize) + 1 IN
  CASE size = 0 -> [file EXCEPT !.block = b, !.off = 0, !.cur = Erased]
    [] size > 0 /\ filled < BlockSize ->
         [file EXCEPT !.block = b, !.off = filled, !.misread = Null,
                      !.cur.data = SubSeq(@, 1, filled)]
    [] OTHER ->
         [file EXCEPT !.block = b, !.off = 0,
                      !.cur = [prev |-> file.block, data |-> <<>>]]

Extend ==
  /\ At("write", "extend")
  /\ \E b \in window :
       /\ Take(b)
       /\ disk' = [disk EXCEPT ![b] = Erased]
       /\ \/ /\ b \in bad
             /\ UNCHANGED <<file, calls, ret>>
          \/ /\ file' = [Extended(b, file.pos) EXCEPT !.writing = TRUE]
             /\ Continue("prog")
  /\ UNCHANGED <<entry, bad, ops>>

\* The last block is read to be copied, through lfs->rcache.  When that fails
\* the cache keeps on answering for the block, with what its buffer holds.
Copies == file.pos % BlockSize # 0

ExtendFails ==
  /\ "read" \in Faults /\ At("write", "extend") /\ Copies
  /\ \E b \in window : Take(b) /\ disk' = [disk EXCEPT ![b] = Erased]
  /\ FailsWith([file EXCEPT !.misread = file.block])
  /\ UNCHANGED <<entry, bad, ops>>

ExtendMisread ==
  /\ At("write", "extend") /\ Copies
  /\ file.misread \in Blocks /\ file.misread = file.block
  /\ \E b \in window :
       /\ Take(b)
       /\ disk' = [disk EXCEPT ![b] = Erased]
       /\ file' = [Extended(b, file.pos) EXCEPT !.writing = TRUE,
                    !.misread = file.block, !.cur.data = Garbage(Len(@))]
  /\ Continue("prog")
  /\ UNCHANGED <<entry, bad, ops>>

\* What of the data fits into the block, and the block with it.  A cache that
\* a failed write has left full stays full; one that has been flushed before
\* the end of the block starts again with nothing in front of the data.
Room == IF file.inline THEN Len(Top.data) ELSE BlockSize - file.off
Piece == SubSeq(Top.data, 1, Smaller(Room, Len(Top.data)))

Programmed(d) ==
  CASE file.cache = "right" -> [file.cur EXCEPT !.data = SubSeq(@, 1, file.off) \o d]
    [] file.cache = "full" -> [file.cur EXCEPT !.data = Spliced(@, file.off, d)]
    [] file.cache = "blank" -> [prev |-> Null, data |-> Garbage(file.off) \o d]

Fills(d) == file.off + Len(d) = BlockSize \/ file.cache = "full"

\* Mutant of Prog: the end of the block is not looked at.
ProgAtOnce ==
  /\ At("write", "prog")
  /\ LET d == Top.data IN
     /\ file' = [file EXCEPT
          !.pos = @ + Len(d), !.off = @ + Len(d),
          !.cur.data = IF file.inline THEN @ ELSE SubSeq(@, 1, file.off) \o d,
          !.ctz.buf = IF file.inline THEN Spliced(@, file.off, d) ELSE @]
     /\ calls' = [GoTo("loop") EXCEPT ![Len(calls)].data = <<>>]
  /\ flight' = {}
  /\ UNCHANGED <<entry, disk, bad, window, ops, ret>>

\* Mutant of Prog: the position stays where it was.
ProgInPlace ==
  /\ At("write", "prog")
  /\ calls' = [GoTo("loop") EXCEPT ![Len(calls)].data = <<>>]
  /\ flight' = {}
  /\ UNCHANGED <<entry, disk, bad, window, file, ops, ret>>

\* lfs_bd_prog of what fits into the block, whose cache is flushed when it is
\* full (at the end of the block it is); a bad block is left for another one.
Prog ==
  /\ At("write", "prog")
  /\ LET d == Piece
         rest == SubSeq(Top.data, Len(d) + 1, Len(Top.data))
         end == file.off + Len(d)
     IN
     \/ /\ file.inline \/ ~Fills(d) \/ file.block \notin bad
        /\ file' = [file EXCEPT
             !.pos = @ + Len(d), !.off = end,
             !.cur = IF file.inline THEN @ ELSE Programmed(d),
             !.cache = IF ~file.inline /\ Fills(d) /\ end < BlockSize
                       THEN "blank" ELSE "right",
             !.ctz.buf = IF file.inline THEN Spliced(@, file.off, d) ELSE @]
        /\ disk' = IF ~file.inline /\ Fills(d)
                   THEN [disk EXCEPT ![file.block] = Programmed(d)] ELSE disk
        /\ calls' = [GoTo("loop") EXCEPT ![Len(calls)].data = rest]
        /\ flight' = {}
     \/ /\ ~file.inline /\ Fills(d) /\ file.block \in bad
        /\ file' = [file EXCEPT !.cur = Programmed(d), !.cache = "full"]
        /\ calls' = Append(calls, Frame("relocate"))
        /\ UNCHANGED <<disk, flight>>
  /\ UNCHANGED <<entry, bad, window, ops, ret>>

\* The cache is full, and the device returns an error: the position stays, the
\* block is the handle's from now on, and the cache keeps what it holds.
ProgFails ==
  /\ "prog" \in Faults /\ At("write", "prog") /\ ~file.inline /\ Fills(Piece)
  /\ disk' \in {disk, [disk EXCEPT ![file.block] = Programmed(Piece)]}
  /\ FailsWith([file EXCEPT !.cur = Programmed(Piece), !.cache = "full"])
  /\ UNCHANGED <<entry, bad, alloc, ops>>

\* Mutant of Relocate: the new block starts empty.
RelocateEmpty ==
  /\ At("relocate", "begin") \/ At("outline", "begin")
  /\ \E b \in window :
       /\ Take(b)
       /\ disk' = [disk EXCEPT ![b] = Erased]
       /\ file' = [file EXCEPT !.block = b, !.writing = TRUE,
                    !.inline = @ /\ Top.op # "outline", !.cur = Erased]
       /\ Return(Nothing)
  /\ UNCHANGED <<entry, bad, ops>>

\* lfs_file_relocate: what the block holds up to the offset is copied; what
\* was inline cannot be more than a block.
Relocate ==
  /\ At("relocate", "begin") \/ At("outline", "begin")
  /\ \E b \in window :
       /\ Take(b)
       /\ disk' = [disk EXCEPT ![b] = Erased]
       /\ \/ /\ b \in bad
             /\ UNCHANGED <<file, calls, ret>>
          \/ /\ file.off > BlockSize
             /\ Fails
          \/ /\ file.off <= BlockSize
             /\ LET old == IF file.inline THEN [Erased EXCEPT !.data = file.ctz.buf]
                           ELSE file.cur
                IN file' = [file EXCEPT
                     !.block = b, !.writing = TRUE,
                     !.inline = @ /\ Top.op # "outline", !.cache = "right",
                     !.cur = [old EXCEPT !.data = SubSeq(@, 1, file.off)]]
             /\ Return(Nothing)
  /\ UNCHANGED <<entry, bad, ops>>

-----------------------------------------------------------------------------
\* lfs_file_flush

FlushBegin ==
  /\ At("flush", "begin")
  /\ \/ /\ ~file.writing
        /\ file' = [file EXCEPT !.reading = FALSE]
        /\ Return(Nothing)
     \/ /\ file.writing /\ file.inline
        /\ file' = [file EXCEPT !.ctz.size = Larger(@, file.pos),
                                !.writing = FALSE, !.dirty = TRUE]
        /\ Return(Nothing)
     \/ /\ file.writing /\ ~file.inline
        /\ calls' = [GoTo("copy") EXCEPT ![Len(calls)].back = file.pos]
        /\ UNCHANGED <<file, ret>>
  /\ Kept /\ UNCHANGED alloc

\* Mutant of Copy: one cell more.
CopyOneMore ==
  /\ At("flush", "copy")
  /\ \/ /\ file.pos > file.ctz.size
        /\ Continue("drain")
     \/ /\ file.pos <= file.ctz.size /\ file.ctz.head # Inline
        /\ Enter("copy", [Frame("write") EXCEPT !.data =
             <<Cell(disk, file.ctz.head, file.ctz.size, file.pos)>>])
     \/ /\ file.pos <= file.ctz.size /\ file.ctz.head = Inline
        /\ Continue("assert")
  /\ Kept /\ UNCHANGED <<alloc, file>>

\* What follows the written part is read from the old list, and written.
Copy ==
  /\ At("flush", "copy")
  /\ \/ /\ file.pos >= file.ctz.size
        /\ Continue("drain")
     \/ /\ file.pos < file.ctz.size /\ file.ctz.head # Inline
        /\ Enter("copy", [Frame("write") EXCEPT !.data =
             <<Cell(disk, file.ctz.head, file.ctz.size, file.pos)>>])
     \/ /\ file.pos < file.ctz.size /\ file.ctz.head = Inline
        /\ Continue("assert")
  /\ Kept /\ UNCHANGED <<alloc, file>>

\* The read of the old list fails: the position stays where the copy has come.
CopyFails ==
  /\ "copy" \in Faults /\ At("flush", "copy")
  /\ file.pos < file.ctz.size /\ file.ctz.head # Inline
  /\ Fails
  /\ UNCHANGED <<entry, disk, bad, alloc, ops>>

\* The old list is read through what was lfs->rcache (orig.cache).
CopyMisread ==
  /\ At("flush", "copy")
  /\ file.pos < file.ctz.size /\ file.ctz.head # Inline
  /\ file.misread \in Blocks
  /\ file.misread = Find(disk, file.ctz.head, file.ctz.size, file.pos)
  /\ Enter("copy", [Frame("write") EXCEPT !.data = <<Lost>>])
  /\ Kept /\ UNCHANGED <<alloc, file>>

\* The cache is written, and the file is what has been written.
Drain ==
  /\ At("flush", "drain")
  /\ \/ /\ file.block \notin bad \/ disk[file.block] = file.cur
        /\ disk' = [disk EXCEPT ![file.block] = file.cur]
        /\ file' = [file EXCEPT
             !.ctz = [head |-> file.block, size |-> file.pos, buf |-> <<>>],
             !.writing = FALSE, !.dirty = TRUE,
             !.pos = Top.back, !.block = Null, !.off = 0, !.cur = Erased,
             !.cache = "right", !.misread = Null]
        /\ Return(Nothing)
     \/ /\ file.block \in bad /\ disk[file.block] # file.cur
        /\ Enter("drain", Frame("relocate"))
        /\ UNCHANGED <<disk, file>>
  /\ UNCHANGED <<entry, bad, alloc, ops>>

\* The device returns an error: the cache keeps what it holds.
FlushFails ==
  /\ "flush" \in Faults /\ At("flush", "drain")
  /\ \/ file.cache = "full"
     \/ file.cache = "right" /\ file.off \in 1 .. BlockSize - 1
  /\ disk' \in {disk, [disk EXCEPT ![file.block] = file.cur]}
  /\ Fails
  /\ UNCHANGED <<entry, bad, alloc, ops>>

\* The callers that flush first.
Flush ==
  /\ calls # <<>> /\ Top.at = "begin"
  /\ \/ Top.op \in {"sync", "seek"}
     \/ Top.op = "read" /\ file.writing
  /\ Enter("flushed", Frame("flush"))
  /\ Kept /\ UNCHANGED <<alloc, file>>

-----------------------------------------------------------------------------
\* lfs_file_sync: the entry is replaced in one commit.

Committable == file.dirty /\ ~file.erred

Commit ==
  /\ At("sync", "flushed") /\ Committable
  /\ entry' = file.ctz
  /\ file' = [file EXCEPT !.dirty = FALSE]
  /\ UNCHANGED <<disk, bad, alloc, calls, ops, ret>>

\* The directory has no room for an inline file: it is moved to a block, up to
\* the position.  Behind its end the buffer holds whatever it does.
CommitFull ==
  /\ At("sync", "flushed") /\ Committable /\ file.inline
  /\ file.pos = file.ctz.size \/ FullElsewhere
  /\ LET f == [file EXCEPT !.off = file.pos] IN
     file' = IF file.pos <= file.ctz.size THEN f
             ELSE [f EXCEPT !.ctz.buf = @ \o Garbage(file.pos - Len(@))]
  /\ flight' = {} /\ window' = window
  /\ Enter("begin", Frame("outline"))
  /\ Kept

\* The commit returns an error, which may come when it has landed already.
CommitFails ==
  /\ At("sync", "flushed") /\ Committable
  /\ Fails
  /\ entry' \in {entry, file.ctz}
  /\ UNCHANGED <<disk, bad, alloc, ops>>

Synced ==
  /\ At("sync", "flushed") /\ ~Committable
  /\ Return(Nothing)
  /\ Kept /\ UNCHANGED <<alloc, file>>

\* lfs_file_close
CloseBegin ==
  /\ At("close", "begin")
  /\ Enter("flushed", Frame("sync"))
  /\ Kept /\ UNCHANGED <<alloc, file>>

Closed ==
  /\ At("close", "flushed")
  /\ file' = Fresh
  /\ Return(Nothing)
  /\ Kept /\ UNCHANGED alloc

-----------------------------------------------------------------------------
\* lfs_file_seek
Move ==
  /\ At("seek", "flushed")
  /\ file' = [file EXCEPT !.pos = Top.n]
  /\ Return(Nothing)
  /\ Kept /\ UNCHANGED alloc

\* lfs_file_read of one cell.
Fetching == At("read", "flushed") \/ (At("read", "begin") /\ ~file.writing)
InBlock == file.reading /\ file.off < BlockSize

Fetch ==
  /\ Fetching
  /\ \/ /\ file.pos >= file.ctz.size
        /\ Return(Nothing) /\ UNCHANGED file
     \/ /\ file.pos < file.ctz.size /\ file.inline
        /\ file' = [file EXCEPT !.pos = @ + 1, !.reading = TRUE]
        /\ Return(<<file.ctz.buf[file.pos + 1]>>)
     \/ /\ file.pos < file.ctz.size /\ ~file.inline
        /\ LET b == IF InBlock THEN file.block
                    ELSE Find(disk, file.ctz.head, file.ctz.size, file.pos)
               at == IF InBlock THEN file.off ELSE file.pos % BlockSize
           IN /\ file' = [file EXCEPT !.pos = @ + 1, !.reading = TRUE,
                                      !.stale = @ /\ InBlock,
                                      !.block = b, !.off = at + 1]
              /\ Return(<<IF b \in Blocks /\ at + 1 \in DOMAIN disk[b].data
                          THEN disk[b].data[at + 1] ELSE Lost>>)
  /\ Kept /\ UNCHANGED alloc

\* The read of a block fails.  The handle stays in the block, whose cache goes
\* on answering with what its buffer holds.
FetchFails ==
  /\ "read" \in Faults /\ Fetching
  /\ file.pos < file.ctz.size /\ ~file.inline /\ ~InBlock
  /\ FailsWith([file EXCEPT !.reading = TRUE, !.stale = TRUE,
       !.block = Find(disk, file.ctz.head, file.ctz.size, file.pos),
       !.off = file.pos % BlockSize])
  /\ UNCHANGED <<entry, disk, bad, alloc, ops>>

FetchStale ==
  /\ Fetching
  /\ file.pos < file.ctz.size /\ ~file.inline /\ InBlock /\ file.stale
  /\ file' = [file EXCEPT !.pos = @ + 1, !.off = @ + 1]
  /\ Return(<<Lost>>)
  /\ Kept /\ UNCHANGED alloc

\* lfs_file_truncate: the position is kept, a size below the present one is
\* cut off, a larger one reached by writing zeros at the end.
TruncateBegin ==
  /\ At("truncate", "begin")
  /\ LET grows == Top.n > Size
         next == [Top EXCEPT !.back = file.pos,
                             !.at = CASE Top.n < Size -> "cut"
                                      [] grows -> "grow"
                                      [] OTHER -> "back"]
     IN calls' = CASE Top.n < Size -> <<next, Frame("flush")>>
                   [] grows /\ file.pos # Size ->
                        <<next, [Frame("seek") EXCEPT !.n = Size]>>
                   [] OTHER -> <<next>>
  /\ UNCHANGED ret
  /\ Kept /\ UNCHANGED <<alloc, file>>

\* Mutant of Cut: the new size is not marked as a change.
CutClean ==
  /\ At("truncate", "cut")
  /\ file' = [file EXCEPT
       !.ctz.head = IF file.inline THEN Inline
                    ELSE Find(disk, file.ctz.head, file.ctz.size, Top.n),
       !.ctz.size = Top.n, !.reading = TRUE]
  /\ Continue("back")
  /\ Kept /\ UNCHANGED alloc

\* The last block is looked up by the new size.
Cut ==
  /\ At("truncate", "cut")
  /\ file' = [file EXCEPT
       !.ctz.head = IF file.inline THEN Inline
                    ELSE Find(disk, file.ctz.head, file.ctz.size, Top.n),
       !.ctz.size = Top.n, !.dirty = TRUE, !.reading = TRUE]
  /\ Continue("back")
  /\ Kept /\ UNCHANGED alloc

Grow ==
  /\ At("truncate", "grow")
  /\ IF file.pos < Top.n
     THEN Enter("grow", [Frame("write") EXCEPT !.data = <<0>>])
     ELSE Continue("back")
  /\ Kept /\ UNCHANGED <<alloc, file>>

Restore ==
  /\ At("truncate", "back")
  /\ Enter("restored", [Frame("seek") EXCEPT !.n = Top.back])
  /\ Kept /\ UNCHANGED <<alloc, file>>

Truncated ==
  /\ At("truncate", "restored")
  /\ Return(Nothing)
  /\ Kept /\ UNCHANGED <<alloc, file>>

-----------------------------------------------------------------------------
\* The environment: the other users of the file system, wear, and crashes.

AckElsewhere ==
  /\ calls = <<>> /\ flight # {}
  /\ flight' = {}
  /\ UNCHANGED <<entry, disk, bad, window, file, calls, ops, ret>>

Wear ==
  /\ Cardinality(bad) < MaxBad
  /\ \E b \in Blocks \ bad : bad' = bad \cup {b}
  /\ UNCHANGED <<entry, disk, alloc, file, calls, ops, ret>>

Crash ==
  /\ file' = Fresh /\ calls' = <<>> /\ window' = {} /\ flight' = {}
  /\ ret' = Error
  /\ Kept

API ==
  \/ \E trunc, append \in BOOLEAN : Open(trunc, append)
  \/ \E n \in 1 .. MaxWrite : Write(n)
  \/ \E p \in 0 .. MaxSize : Seek(p)
  \/ \E n \in Cuts : Truncate(n)
  \/ Read \/ Sync \/ Close

Step == WriteBegin \/ Fill \/ Check \/ WriteEnds \/ NeedsBlock \/ Refill \/ NoSpace
          \/ Extend \/ Prog \/ Relocate \/ FlushBegin \/ Copy \/ Drain \/ Flush
          \/ EraseFails \/ CopyFails \/ FlushFails \/ ProgFails \/ ExtendFails
          \/ ExtendMisread \/ CopyMisread \/ FetchFails \/ FetchStale
          \/ Commit \/ CommitFull \/ CommitFails \/ Synced \/ CloseBegin \/ Closed
          \/ Move \/ Fetch \/ TruncateBegin \/ Cut \/ Grow \/ Restore \/ Truncated

Next == API \/ Step \/ AckElsewhere \/ Wear \/ Crash

\* The functions are sequential code: once called, they run.
Spec == Init /\ [][Next]_vars /\ WF_vars(Step)

-----------------------------------------------------------------------------
Data == {Lost} \cup 0 .. MaxOps + MaxSize + BlockSize
Sizes == 0 .. MaxSize

\* The shape of the state.
TypeOK ==
  /\ entry.head \in Blocks \cup {Inline} /\ entry.size \in Sizes
  /\ \A b \in Blocks : disk[b].prev \in Blocks \cup {Null}
                      /\ Len(disk[b].data) <= BlockSize
  /\ bad \subseteq Blocks /\ window \subseteq Blocks /\ flight \subseteq Blocks
  /\ file.ctz.size \in Sizes /\ file.pos \in Sizes
  /\ file.off \in 0 .. BlockSize
  /\ file.reading => ~file.writing
  /\ file.writing /\ ~file.inline => file.block \in Blocks
  /\ Range(file.ctz.buf) \subseteq Data

\* The contents of the handle: what has been written, then what follows in
\* the list it was opened with.  A block added and not programmed yet is not
\* part of them.
Written ==
  Cells(View, IF file.off = 0 THEN file.cur.prev ELSE file.block, file.pos)

Content ==
  CASE ~file.open -> Contents(entry)
    [] file.open /\ file.inline -> SubSeq(file.ctz.buf, 1, Size)
    [] file.open /\ ~file.inline /\ ~file.writing -> Contents(file.ctz)
    [] OTHER ->
         Written \o (IF file.ctz.head = Inline THEN <<>>
                     ELSE SubSeq(Contents(file.ctz), file.pos + 1,
                                 file.ctz.size))

\* The position the outermost caller works at.
Position ==
  LET saved == {k \in DOMAIN calls : calls[k].back # -1} IN
  IF saved = {} THEN file.pos
  ELSE calls[CHOOSE k \in saved : \A l \in saved : k <= l].back

Task ==
  IF calls = <<>> THEN [op |-> "none", n |-> 0]
  ELSE [op |-> calls[1].op,
        n |-> IF calls[1].op = "write" THEN Len(calls[1].data) ELSE calls[1].n]

\* An open file behaves as contents of its own that a sync stores at once,
\* through allocations, bad blocks, a full device and crashes (lfs_file_sync).
Promise == INSTANCE AtomicFile WITH
  stored <- Contents(entry), content <- Content, pos <- Position,
  task <- Task, broken <- file.erred
KeepsItsPromise == Promise!Spec

\* Whenever the allocator may fill its bitmap, every block whose data the
\* handle still needs is seen by the traversal, or has been handed out since
\* the last ack (lfs_fs_traverse, lfs_alloc).
TraverseSeesAll ==
  Allocating \/ (calls = <<>> /\ file.open) =>
    Chain(disk, file.ctz.head, file.ctz.size) \cup
    (IF file.writing /\ ~file.inline
     THEN Chain(View, IF file.off = 0 THEN file.cur.prev ELSE file.block,
                file.pos)
     ELSE {}) \subseteq Used \cup flight

\* The flush never reads blocks of a list that is none (LFS_ASSERT in
\* lfs_bd_read).
NeverAsserts == ~At("flush", "assert")

\* Every call returns, unless an assertion stops the program.
CallsReturn == calls # <<>> ~> calls = <<>> \/ At("flush", "assert")

\* What a mount finds changes with the commit of lfs_file_sync, and with it
\* only: no write, copy or flush, no error of the device at any point of them
\* and no crash touches a block the entry leads to.
OnlySyncStores ==
  [][Contents(entry)' = Contents(entry) \/ (At("sync", "flushed") /\ entry' = file.ctz)]_vars
=============================================================================
