------------------------------- MODULE LfsTool ------------------------------
(***************************************************************************)
(* The program itself: main, the recursive traversal and process_file of   *)
(* main.c, with the two file systems they drive through struct vfs (the    *)
(* littlefs image of vfs_lfs.c and the host directory of vfs_native.c).    *)
(* The program is sequential, so one pc says which call comes next; the    *)
(* calls of traversal are the chain of directories from Root to cur.       *)
(*                                                                         *)
(* Every vfs call may fail when faults is TRUE.  A file is the sequence of *)
(* its bytes and Buf stands for the 4096 bytes of m_buffer.                *)
(***************************************************************************)
EXTENDS Integers, Sequences, SequencesExt

CONSTANTS
  Dirs, Files,   \* the nodes of the source tree
  Root, Parent,  \* its shape
  Content,       \* what each file of the source holds
  Dots,          \* the entries "." and ".." that readdir reports
  Nobody,        \* stands for "no file is being processed"
  Buf,           \* sizeof(m_buffer)
  Stale,         \* what a leftover file of the target may hold
  Faults         \* may a vfs call fail? {TRUE} if yes, {FALSE} if not, or both
                 \* for runs of either kind

Nodes == Dirs \cup Files

ASSUME TreeAssumption ==
  /\ Root \in Dirs
  /\ Dirs \cap Files = {}
  /\ Dots \cap Nodes = {}
  /\ Nobody \notin Nodes
  /\ Parent \in [Nodes \ {Root} -> Dirs]
  \* it is a tree: what holds for Root and passes from a directory to its
  \* entries holds for every node
  /\ \A S \in SUBSET Nodes :
       Root \in S /\ (\A n \in Nodes \ {Root} : Parent[n] \in S => n \in S)
         => S = Nodes

Bytes == UNION {{Content[f][i] : i \in DOMAIN Content[f]} : f \in Files}
         \cup {Stale[i] : i \in DOMAIN Stale}

ASSUME DataAssumption ==
  /\ Stale \in Seq(Bytes) /\ Content \in [Files -> Seq(Bytes)]
  /\ Buf \in Nat \ {0}
  /\ Faults \subseteq BOOLEAN

VARIABLES
  mode,     \* options.action: "create" or "extract"
  faults,   \* may a vfs call of this run fail? (rigid)
  pc,       \* the call to make next, "exited" or "crashed"
  result,   \* main's result
  opaque,   \* the lfs_t behind vfs_lfs: "null", "live" or "freed"
  pending,  \* the image holds a half-finished rename or an orphan
  cur,      \* the directory of the innermost traversal call
  left,     \* the entries readdir has still to report, per directory
  dirh,     \* the directories whose source handle is open
  res,      \* result of the innermost traversal: 0 or -1
  file,     \* the file process_file works on
  fds,      \* the handles process_file holds: "in", "out"
  rpos,     \* how far the source file has been read
  buf,      \* m_buffer, up to the rb bytes of the last read
  out,      \* what has been written through the target handle
  errd,     \* LFS_F_ERRED of the target handle
  kind,     \* the target: what each node is there
  data,     \* the target: what each file holds there
  made,     \* history: the nodes this run delivered
  lost      \* history: the files whose target close failed

fileVars == <<file, fds, rpos, buf, out, errd>>
target   == <<kind, data>>
history  == <<made, lost>>
setup == <<mode, faults>>
vars == <<setup, pc, result, opaque, pending, cur, left, dirh, res,
          fileVars, target, history>>

Kinds == {"none", "dir", "file"}
lfs_min(a, b) == IF a < b THEN a ELSE b
Goto(l) == pc' = l

\* CHECK_ERROR of the traversal: remember the error, go to a cleanup label.
Bail(l) == res' = -1 /\ pc' = l

Children(d) == {n \in Nodes \ {Root} : Parent[n] = d}

\* What a target directory can hold before an extraction: any part of an
\* earlier tree, with other kinds and contents.
Leftover(k) ==
  \A n \in Nodes \ {Root} : k[n] # "none" => k[Parent[n]] = "dir"

Init ==
  /\ mode \in {"create", "extract"} /\ faults \in Faults
  /\ pc = "get" /\ result = 0 /\ opaque = "null"
  /\ cur = Root /\ res = 0
  /\ left = [d \in Dirs |-> Children(d) \cup Dots]
  /\ dirh = {} /\ fds = {} /\ file = Nobody
  /\ rpos = 0 /\ buf = <<>> /\ out = <<>> /\ errd = FALSE
  /\ made = {} /\ lost = {}
  /\ \/ /\ mode = "create" /\ pending = FALSE
        /\ kind = [n \in Nodes |-> "none"]
        /\ data = [f \in Files |-> <<>>]
     \/ /\ mode = "extract" /\ pending \in BOOLEAN
        /\ kind \in {k \in [Nodes -> Kinds] : Leftover(k)}
        /\ data = [f \in Files |-> Stale]

-----------------------------------------------------------------------------
\* main

\* vfs_lfs_get: fopen; for -c also fill and format, which makes the root.
\* Without -c a NULL result is dereferenced by the call of mount.
Get ==
  /\ pc = "get"
  /\ \/ Goto("mount") /\ UNCHANGED result
        /\ kind' = IF mode = "create" THEN [kind EXCEPT ![Root] = "dir"]
                                      ELSE kind
     \/ /\ faults /\ mode = "create"
        /\ result' = 2 /\ Goto("exited") /\ UNCHANGED kind
     \/ /\ faults /\ mode = "extract"
        /\ Goto("crashed") /\ UNCHANGED <<result, kind>>
  /\ UNCHANGED <<setup, opaque, pending, cur, left, dirh, res, fileVars, data,
                 history>>

\* vfs_mount stores the lfs_t even after it has freed it.
Mount ==
  /\ pc = "mount"
  /\ \/ opaque' = "live" /\ Goto("mkdir") /\ UNCHANGED result
     \/ faults /\ opaque' = "freed" /\ result' = 2 /\ Goto("unmount")
  /\ UNCHANGED <<setup, pending, cur, left, dirh, res, fileVars, target,
                 history>>

\* lfs_unmount of a freed lfs_t is undefined: it may crash or do nothing.
\* main's own result does not depend on the traversal's.
Unmount ==
  /\ pc = "unmount"
  /\ \/ Goto("exited")
     \/ opaque = "freed" /\ Goto("crashed")
  /\ opaque' = "freed"
  /\ UNCHANGED <<setup, result, pending, cur, left, dirh, res, fileVars,
                 target, history>>

-----------------------------------------------------------------------------
\* traversal

\* target_vfs->mkdir, where "it exists" counts as success.
CanMkdir(d) == d # Root => kind[Parent[d]] = "dir"

Mkdir ==
  /\ pc = "mkdir"
  /\ \/ /\ CanMkdir(cur)
        /\ kind' = [kind EXCEPT ![cur] = IF @ = "none" THEN "dir" ELSE @]
        /\ made' = made \cup {cur}
        /\ Goto("opendir") /\ UNCHANGED res
     \/ /\ faults \/ ~CanMkdir(cur)
        /\ Bail("return") /\ UNCHANGED <<kind, made>>
  /\ UNCHANGED <<setup, result, opaque, pending, cur, left, dirh, fileVars,
                 data, lost>>

\* Mutant of Opendir: its failure is not remembered.
OpendirUnchecked ==
  /\ pc = "opendir"
  /\ \/ dirh' = dirh \cup {cur} /\ Goto("readdir")
     \/ faults /\ Goto("return") /\ UNCHANGED dirh
  /\ UNCHANGED <<setup, result, opaque, pending, cur, left, res, fileVars, target,
                 history>>

Opendir ==
  /\ pc = "opendir"
  /\ \/ dirh' = dirh \cup {cur} /\ Goto("readdir") /\ UNCHANGED res
     \/ faults /\ Bail("return") /\ UNCHANGED dirh
  /\ UNCHANGED <<setup, result, opaque, pending, cur, left, fileVars, target,
                 history>>

\* Mutants of ReadEntry: "." and ".." are entered; the position in the
\* directory does not move on.
ReadEntryDots ==
  /\ pc = "readdir"
  /\ \E e \in left[cur] :
       /\ left' = [left EXCEPT ![cur] = @ \ {e}]
       /\ \/ e \in Files /\ file' = e /\ Goto("openout") /\ UNCHANGED cur
          \/ e \notin Files /\ cur' = e /\ Goto("mkdir") /\ UNCHANGED file
  /\ UNCHANGED <<setup, result, opaque, pending, dirh, res, fds, rpos, buf, out,
                 errd, target, history>>

ReadEntryAgain ==
  /\ pc = "readdir"
  /\ \E e \in left[cur] :
       \/ e \in Files /\ file' = e /\ Goto("openout") /\ UNCHANGED cur
       \/ e \in Dirs /\ cur' = e /\ Goto("mkdir") /\ UNCHANGED file
       \/ e \in Dots /\ UNCHANGED <<pc, cur, file>>
  /\ UNCHANGED <<setup, result, opaque, pending, left, dirh, res, fds, rpos, buf,
                 out, errd, target, history>>

\* One turn of the loop: readdir reports an entry or VFS_TYPE_END, and the
\* entry's type decides what to call.
ReadEntry ==
  /\ pc = "readdir"
  /\ \E e \in left[cur] :
       /\ left' = [left EXCEPT ![cur] = @ \ {e}]
       /\ \/ e \in Files /\ file' = e /\ Goto("openout") /\ UNCHANGED cur
          \/ e \in Dirs /\ cur' = e /\ Goto("mkdir") /\ UNCHANGED file
          \/ e \in Dots /\ UNCHANGED <<pc, cur, file>>
  /\ UNCHANGED <<setup, result, opaque, pending, dirh, res, fds, rpos, buf, out,
                 errd, target, history>>

ReadEnd ==
  /\ pc = "readdir" /\ left[cur] = {}
  /\ Goto("closedir")
  /\ UNCHANGED <<setup, result, opaque, pending, cur, left, dirh, res, fileVars,
                 target, history>>

\* Mutant of ReadFails: returns past the cleanup.
ReadFailsLeaking ==
  /\ pc = "readdir" /\ faults
  /\ Bail("return")
  /\ UNCHANGED <<setup, result, opaque, pending, cur, left, dirh, fileVars,
                 target, history>>

\* readdir or append_dir_alloc fails.
ReadFails ==
  /\ pc = "readdir" /\ faults
  /\ Bail("closedir")
  /\ UNCHANGED <<setup, result, opaque, pending, cur, left, dirh, fileVars,
                 target, history>>

\* An error of closedir is only logged.
Closedir ==
  /\ pc = "closedir"
  /\ dirh' = dirh \ {cur}
  /\ Goto("return")
  /\ UNCHANGED <<setup, result, opaque, pending, cur, left, res, fileVars,
                 target, history>>

\* Mutant of Return: the caller does not look at the result.
ReturnUnchecked ==
  /\ pc = "return"
  /\ \/ cur = Root /\ Goto("unmount") /\ UNCHANGED cur
     \/ cur # Root /\ cur' = Parent[cur] /\ Goto("readdir")
  /\ UNCHANGED <<setup, result, opaque, pending, left, dirh, res, fileVars,
                 target, history>>

\* Back in the caller: its loop goes on, or its cleanup if the call failed.
Return ==
  /\ pc = "return"
  /\ \/ cur = Root /\ Goto("unmount") /\ UNCHANGED cur
     \/ /\ cur # Root
        /\ cur' = Parent[cur]
        /\ Goto(IF res = 0 THEN "readdir" ELSE "closedir")
  /\ UNCHANGED <<setup, result, opaque, pending, left, dirh, res, fileVars,
                 target, history>>

-----------------------------------------------------------------------------
\* process_file

CanCreate(f) == kind[Parent[f]] = "dir" /\ kind[f] # "dir"

\* O_CREAT | O_TRUNC | O_WRONLY on the target.
OpenOut ==
  /\ pc = "openout"
  /\ \/ /\ CanCreate(file)
        /\ kind' = [kind EXCEPT ![file] = "file"]
        /\ data' = [data EXCEPT ![file] = <<>>]
        /\ out' = <<>> /\ errd' = FALSE
        /\ fds' = {"out"}
        /\ Goto("openin") /\ UNCHANGED <<file, res>>
     \/ /\ faults \/ ~CanCreate(file)
        /\ Bail("closedir") /\ file' = Nobody
        /\ UNCHANGED <<target, out, errd, fds>>
  /\ UNCHANGED <<setup, result, opaque, pending, cur, left, dirh, rpos, buf,
                 history>>

\* O_RDONLY is 0, so vfs_open asks littlefs for no access mode at all; what
\* is not exactly LFS_O_RDONLY makes lfs_file_open repair the image first,
\* and the image was opened "rb".
RepairFails == mode = "extract" /\ pending

OpenIn ==
  /\ pc = "openin"
  /\ \/ /\ ~RepairFails
        /\ fds' = fds \cup {"in"} /\ rpos' = 0
        /\ Goto("read") /\ UNCHANGED res
     \/ /\ faults \/ RepairFails
        /\ Bail("closeout") /\ UNCHANGED <<fds, rpos>>
  /\ UNCHANGED <<setup, result, opaque, pending, cur, left, dirh, file, buf,
                 out, errd, target, history>>

\* Mutant of Read: what is written next is all of m_buffer.
ReadWholeBuffer ==
  /\ pc = "read"
  /\ \/ LET n == lfs_min(Buf, Len(Content[file]) - rpos) IN
        /\ buf' = SubSeq(Content[file], rpos + 1, rpos + n)
                    \o SubSeq(buf, n + 1, Len(buf))
        /\ rpos' = rpos + n
        /\ Goto("write") /\ UNCHANGED res
     \/ faults /\ Bail("closein") /\ UNCHANGED <<buf, rpos>>
  /\ UNCHANGED <<setup, result, opaque, pending, cur, left, dirh, file, fds,
                 out, errd, target, history>>

\* A read returns what is left of the file, at most a buffer of it.
Read ==
  /\ pc = "read"
  /\ \/ LET n == lfs_min(Buf, Len(Content[file]) - rpos) IN
        /\ buf' = SubSeq(Content[file], rpos + 1, rpos + n)
        /\ rpos' = rpos + n
        /\ Goto("write") /\ UNCHANGED res
     \/ faults /\ Bail("closein") /\ UNCHANGED <<buf, rpos>>
  /\ UNCHANGED <<setup, result, opaque, pending, cur, left, dirh, file, fds,
                 out, errd, target, history>>

\* The host file system takes what is written at once, littlefs at close.
Written(s) ==
  /\ out' = s
  /\ data' = IF mode = "extract" THEN [data EXCEPT ![file] = s] ELSE data

\* Mutants of Write: the loop stops after the first buffer; it never stops.
WriteOnce ==
  /\ pc = "write"
  /\ Written(out \o buf)
  /\ Goto("closein")
  /\ UNCHANGED <<setup, result, opaque, pending, cur, left, dirh, res, file,
                 fds, rpos, buf, errd, kind, history>>

WriteForever ==
  /\ pc = "write"
  /\ Written(out \o buf)
  /\ Goto("read")
  /\ UNCHANGED <<setup, result, opaque, pending, cur, left, dirh, res, file,
                 fds, rpos, buf, errd, kind, history>>

Write ==
  /\ pc = "write"
  /\ Written(out \o buf)
  /\ Goto(IF Len(buf) # Buf THEN "closein" ELSE "read")
  /\ UNCHANGED <<setup, result, opaque, pending, cur, left, dirh, res, file,
                 fds, rpos, buf, errd, kind, history>>

\* Mutant of WriteFails: a short write passes for a whole one.
WriteShort ==
  /\ pc = "write" /\ faults
  /\ \E wb \in 0 .. Len(buf) : Written(out \o SubSeq(buf, 1, wb))
  /\ Goto(IF Len(buf) # Buf THEN "closein" ELSE "read")
  /\ UNCHANGED <<setup, result, opaque, pending, cur, left, dirh, res, file,
                 fds, rpos, buf, errd, kind, history>>

\* An error or a short write (the host may take any part of the buffer).
\* littlefs marks the handle, except when the file would be too large.
WriteFails ==
  /\ pc = "write" /\ faults
  /\ \E wb \in 0 .. Len(buf) :
       /\ errd' \in IF mode = "extract" THEN {FALSE} ELSE {TRUE, wb # 0}
       /\ Written(out \o SubSeq(buf, 1, wb))
  /\ Bail("closein")
  /\ UNCHANGED <<setup, result, opaque, pending, cur, left, dirh, file, fds,
                 rpos, buf, kind, history>>

CloseIn ==
  /\ pc = "closein"
  /\ fds' = fds \ {"in"}
  /\ Goto("closeout")
  /\ UNCHANGED <<setup, result, opaque, pending, cur, left, dirh, res, file,
                 rpos, buf, out, errd, target, history>>

\* lfs_file_close commits the handle's data unless the handle is marked.
Committed == IF mode = "create" /\ errd THEN data[file] ELSE out

\* What the file may hold when its close failed: for littlefs its old or its
\* new content, for the host any part of what was written.
Salvaged == IF mode = "create" THEN {data[file], Committed}
            ELSE {SubSeq(out, 1, n) : n \in 0 .. Len(out)}

\* process_file logs an error of close and returns its own result.
CloseOut ==
  /\ pc = "closeout"
  /\ \/ /\ data' = [data EXCEPT ![file] = Committed]
        /\ made' = IF res = 0 THEN made \cup {file} ELSE made
        /\ UNCHANGED lost
     \/ /\ faults
        /\ \E s \in Salvaged : data' = [data EXCEPT ![file] = s]
        /\ lost' = IF res = 0 THEN lost \cup {file} ELSE lost
        /\ UNCHANGED made
  /\ fds' = {} /\ file' = Nobody
  /\ Goto(IF res = 0 THEN "readdir" ELSE "closedir")
  /\ UNCHANGED <<setup, result, opaque, pending, cur, left, dirh, res, rpos,
                 buf, out, errd, kind>>

-----------------------------------------------------------------------------
Halted == pc \in {"exited", "crashed"} /\ UNCHANGED vars

ProcessFile == OpenOut \/ OpenIn \/ Read \/ Write \/ WriteFails \/ CloseIn
               \/ CloseOut
Traversal == Mkdir \/ Opendir \/ ReadEntry \/ ReadEnd \/ ReadFails \/ Closedir
             \/ Return
Main == Get \/ Mount \/ Unmount

Step == Main \/ Traversal \/ ProcessFile
Next == Step \/ Halted

\* Every call of the C library returns, so the program never stops midway.
Spec == Init /\ [][Next]_vars /\ WF_vars(Step)
-----------------------------------------------------------------------------
PcLabels == {"get", "mount", "mkdir", "opendir", "readdir", "closedir",
             "return", "openout", "openin", "read", "write", "closein",
             "closeout", "unmount", "exited", "crashed"}

\* Type correctness of the whole state.
TypeOK ==
  /\ mode \in {"create", "extract"} /\ faults \in Faults /\ pc \in PcLabels
  /\ result \in {0, 2} /\ res \in {0, -1}
  /\ opaque \in {"null", "live", "freed"} /\ pending \in BOOLEAN
  /\ cur \in Dirs /\ file \in Files \cup {Nobody}
  /\ left \in [Dirs -> SUBSET (Nodes \cup Dots)]
  /\ dirh \subseteq Dirs /\ fds \subseteq {"in", "out"}
  /\ rpos \in Nat /\ errd \in BOOLEAN
  /\ buf \in Seq(Bytes) /\ out \in Seq(Bytes)
  /\ kind \in [Nodes -> Kinds] /\ data \in [Files -> Seq(Bytes)]
  /\ made \subseteq Nodes /\ lost \subseteq Files

\* Whatever failed on the way, the image is unmounted only when the recursion
\* has closed every directory and every file it opened (the done: labels of
\* traversal and process_file).
UnmountsIdle == pc \in {"unmount", "exited"} => dirh = {} /\ fds = {}

\* A file of the target never holds anything but the beginning of its source,
\* through short writes, failed reads and failed closes (the copy loop of
\* process_file); an untouched leftover keeps its old content.
PrefixOfSource ==
  \A f \in Files : data[f] = Stale \/ IsPrefix(data[f], Content[f])

\* The node is in the target as it is in the source.
Copied(n) ==
  IF n \in Dirs THEN kind[n] = "dir"
  ELSE kind[n] = "file" /\ data[n] = Content[n]

\* mkdir accepts EEXIST, so an empty directory may hide behind a leftover file.
Hidden(n) == n \in Dirs /\ kind[n] = "file" /\ Children(n) = {}

\* When the traversal from the root returns 0 the target holds a copy of the
\* whole source tree, except for files whose close reported an error and empty
\* directories hidden by a leftover file.
SuccessIsCopy ==
  pc = "unmount" /\ result = 0 /\ res = 0
    => \A n \in Nodes : Copied(n) \/ n \in lost \/ Hidden(n)

\* After the first error nothing new is opened, created or delivered: the
\* program only closes what it holds, and only the file being processed can
\* still change (the CHECK_ERROR unwinding of both functions).
FailStop ==
  [][res = -1 =>
       /\ res' = -1 /\ kind' = kind /\ made' = made /\ lost' = lost
       /\ fds' \subseteq fds /\ dirh' \subseteq dirh
       /\ \A f \in Files \ {file} : data'[f] = data[f]]_vars

\* A node that has been delivered is never written again: the traversal visits
\* each node once and truncates nothing it has finished.
DeliveredIsFinal ==
  [][\A n \in made : kind'[n] = kind[n] /\ (n \in Files => data'[n] = data[n])]_vars

\* Every run of the tool ends.
Termination == <>(pc \in {"exited", "crashed"})

\* How the run stands towards TreeCopy.
Verdict ==
  CASE res = -1 \/ result # 0 \/ pc = "crashed" -> "fail"
    [] pc \in {"unmount", "exited"} /\ result = 0 /\ res = 0 -> "ok"
    [] OTHER -> "run"

\* The traversal implements TreeCopy.
Copy == INSTANCE TreeCopy WITH state <- Verdict
CopiesTheTree == Copy!Spec

\* The target holds nothing of another kind than the source does.
Compatible ==
  \A n \in Nodes : kind[n] \in {"none", IF n \in Dirs THEN "dir" ELSE "file"}

\* When no call fails, a run over a consistent image and a compatible target
\* ends with a complete copy.
CleanRunCopies ==
  pc = "exited" /\ ~faults /\ ~pending /\ Compatible =>
    \A n \in Nodes : Copied(n)

\* What the usage text says of the two actions, at the level of a clean run:
\* "-x  Extract files from image.", "-c  Create image.".
ExtractsEveryImage ==
  pc = "exited" /\ Compatible => \A n \in Nodes : Copied(n)

\* What EXIT_SUCCESS says to the caller: the tree has been copied.
ExitStatusIsHonest ==
  pc = "exited" /\ result = 0 => \A n \in Nodes : Copied(n) \/ Hidden(n)
=============================================================================
