------------------------------- MODULE LfsTree -------------------------------
(***************************************************************************)
(* The directories of littlefs.  A directory is a chain of metadata pairs; *)
(* all pairs are threaded on one list of tails, which lfs_fs_traverse,     *)
(* lfs_fs_pred and lfs_mount follow, while names lead through the tree of  *)
(* parents.  One commit changes one pair, so mkdir, remove and rename need *)
(* several; what a crash may leave half done, a directory that is on the   *)
(* list and in no parent, or a name that has moved but not gone yet, is    *)
(* announced in the global state: each pair holds a delta, and the state   *)
(* is the exclusive or of all of them.  The next call that writes repairs  *)
(* it.  This module follows lfs_mkdir, lfs_remove, lfs_rename, the         *)
(* creation of a file and lfs_fs_forceconsistency commit by commit, with   *)
(* pairs that are split, dropped and moved off a bad block.  That one      *)
(* commit to one pair is atomic is what LfsPair shows.                     *)
(***************************************************************************)
EXTENDS Integers, Sequences, FiniteSets, SequencesExt, FiniteSetsExt

CONSTANTS
  Blocks,  \* the blocks of the device, numbers; the root's pair is {0, 1}
  Names,   \* names, numbers, in the order the code compares them
  MaxOps,  \* bound on the calls
  Modes    \* what a run allows: which calls on which names, and how many
           \* calls, splits, bad blocks, full blocks and crashes

ASSUME TreeAssumption ==
  /\ IsFiniteSet(Blocks) /\ Blocks \subseteq Nat /\ {0, 1} \subseteq Blocks
  /\ Names \subseteq Nat /\ MaxOps \in Nat
  /\ \A m \in Modes : /\ m.splits \in Nat /\ m.bad \in Nat /\ m.crashes \in Nat
                       /\ m.tight \in Nat
                       /\ m.ops \in 0 .. MaxOps /\ m.names \subseteq Names

VARIABLES
  disk,      \* what the newest commits in each block add up to
  view,      \* history: the names a mount would find now
  gstate,    \* lfs->gstate: the global state as lookups take it
  gpending,  \* lfs->gpending: the global state the next commit leads to
  gdelta,    \* lfs->gdelta: what the disk still lacks of gpending
  flight,    \* blocks handed out since the call began
  job,       \* the running call: its place and its local variables
  commits,   \* the stack of running lfs_dir_commit calls
  handle,    \* a file some caller keeps open: [pair, id, obj]
  goal, ret, \* history: what the call is to make of the names, its result
  mode, ops  \* the limits of this run, the calls made so far

store == <<disk, view>>
ram == <<gstate, gpending, gdelta, flight>>
hist == <<goal, ret, mode, ops>>
vars == <<store, ram, job, commits, handle, hist>>

Root == {0, 1}
NoPair == {}
Objects == 0 .. MaxOps

-----------------------------------------------------------------------------
\* The global state: a count of orphans, of which the disk has one bit, and a
\* move, the place of an entry that is gone: [id, pair].

Zero == [orphan |-> FALSE, moves |-> {}]
Clean == [count |-> 0, moves |-> {}]
Seen(g) == [orphan |-> g.count > 0, moves |-> g.moves]

Xor(a, b) == [orphan |-> a.orphan # b.orphan,
              moves |-> SymDiff(a.moves, b.moves)]

\* lfs_gstate_hasmovehere
Here(g, pair) == {m \in g.moves : m.pair \cap pair # {}}
Without(g, pair) == [g EXCEPT !.moves = @ \ Here(g, pair)]

\* The next commit is to lead to n more orphans and these moves; d is what
\* the disk lacks anyway (lfs_fs_preporphans, lfs_fs_prepmove).
Prepared(n, moves, d) ==
  /\ gpending' = [count |-> gpending.count + n, moves |-> moves]
  /\ gdelta' = Xor(d, Xor(Seen(gpending), Seen(gpending')))

PrepOrphans(n, d) == Prepared(n, gpending.moves, d)
PrepMove(m, n) == Prepared(n, {m}, gdelta)

-----------------------------------------------------------------------------
\* Reading directories

Blank == [rev |-> -1, ents |-> <<>>, tail |-> NoPair, split |-> FALSE,
          delta |-> Zero]

\* Two pairs are the same if they share a block (lfs_pair_cmp).
Same(p, q) == p \cap q # {}

\* The block of a pair that a fetch chooses.
Active(d, pair) == CHOOSE b \in pair : \A c \in pair : d[c].rev <= d[b].rev

\* lfs_dir_fetch
Fetch(d, pair) ==
  LET b == d[Active(d, pair)] IN
  [pair |-> pair, ents |-> b.ents, tail |-> b.tail, split |-> b.split]

NoDir == [pair |-> NoPair, ents |-> <<>>, tail |-> NoPair, split |-> FALSE]

\* The pairs from p on, as long as More leads from one to the next; a list
\* that does not end is cut off.
Walk(d, p, More(_)) ==
  LET w[x \in (SUBSET Blocks) \X (0 .. Cardinality(Blocks))] ==
        LET f == Fetch(d, x[1]) IN
        IF x[2] > 0 /\ f.tail # NoPair /\ More(f)
        THEN <<x[1]>> \o w[<<f.tail, x[2] - 1>>] ELSE <<x[1]>>
  IN w[<<p, Cardinality(Blocks)>>]

Always(f) == TRUE
IsSplit(f) == f.split

\* All pairs in the order of their tails, and those of the directory at h.
List(d) == Walk(d, Root, Always)
Chain(d, h) == Walk(d, h, IsSplit)

\* lfs_fs_pred
Pred(d, pair) ==
  LET l == List(d)
      at == {k \in 1 .. Len(l) : Same(Fetch(d, l[k]).tail, pair)}
  IN IF at = {} THEN NoDir ELSE Fetch(d, l[Min(at)])

\* The entries a lookup sees under the global state g.
Visible(d, g, pair) ==
  {i \in 1 .. Len(Fetch(d, pair).ents) : \A m \in Here(g, pair) : m.id # i}

\* lfs_fs_parent: where the entry is that refers to the pair.
Parents(d, g, pair) ==
  LET l == List(d) IN
  {<<k, i>> \in (1 .. Len(l)) \X (1 .. MaxOps) :
     /\ i \in Visible(d, g, l[k])
     /\ Same(Fetch(d, l[k]).ents[i].ref, pair)}

Parent(d, g, pair) ==
  LET at == Parents(d, g, pair)
      k == Min({x[1] : x \in at})
  IN [dir |-> Fetch(d, List(d)[k]),
      id |-> CHOOSE i \in 1 .. MaxOps : <<k, i>> \in at]

\* lfs_dir_find: the pair of the directory at h whose names enclose n, and
\* the place in it where n is or would be.
Find(d, h, n) ==
  LET c == Chain(d, h)
      From(k) == {i \in 1 .. Len(Fetch(d, c[k]).ents) :
                    Fetch(d, c[k]).ents[i].name >= n}
      k == Min({j \in 1 .. Len(c) : j = Len(c) \/ From(j) # {}})
      dir == Fetch(d, c[k])
      id == IF From(k) = {} THEN Len(dir.ents) + 1 ELSE Min(From(k))
  IN [dir |-> dir, id |-> id,
      found |-> From(k) # {} /\ dir.ents[id].name = n]

\* What the deltas on the list add up to (lfs_mount).
OnDisk(d) ==
  LET l == List(d)
      x[k \in 0 .. Len(l)] ==
        IF k = 0 THEN Zero ELSE Xor(x[k - 1], d[Active(d, l[k])].delta)
  IN x[Len(l)]

\* The entries of the directory at h.
Entries(d, g, h) ==
  UNION {{Fetch(d, p).ents[i] : i \in Visible(d, g, p)} :
           p \in ToSet(Chain(d, h))}

\* The directories that names lead to, as [obj, pair].
Dirs(d, g) ==
  LET below[r \in [obj : Objects, pair : SUBSET Blocks, k : 0 .. MaxOps]] ==
        {[obj |-> r.obj, pair |-> r.pair]} \cup
          UNION {below[[obj |-> e.obj, pair |-> e.ref, k |-> r.k - 1]] :
                   e \in {x \in Entries(d, g, r.pair) :
                            x.kind = "dir" /\ r.k > 0}}
  IN below[[obj |-> 0, pair |-> Root, k |-> MaxOps]]

\* The names a mount would find now.
View(d) ==
  LET g == OnDisk(d) IN
  UNION {{<<r.obj, e.name, e.kind, e.obj>> : e \in Entries(d, g, r.pair)} :
           r \in Dirs(d, g)}

\* Mutant of Free: blocks handed out are forgotten.
FreeUnmarked == Blocks \ UNION ToSet(List(disk))

\* lfs_alloc: a block that is not on the list, and was not handed out since.
Free == Blocks \ (UNION ToSet(List(disk)) \cup flight)
TwoFree == LET a == Min(Free) IN {a, Min(Free \ {a})}

-----------------------------------------------------------------------------
\* The running call.  Its fields are the local variables of the C function:
\* cwd and id are what the lookup found, old the source of a rename,
\* dir a new directory, prev one that goes, pred a predecessor in the list.

NoJob == [op |-> "none", at |-> "none", d |-> 0, n |-> 0, to |-> 0, as |-> 0,
          cwd |-> NoDir, id |-> 0, old |-> NoDir,
          dir |-> NoDir, prev |-> NoDir, pred |-> NoDir]

\* A file that nobody holds, and a handle whose file is gone.
Released(obj) == [pair |-> NoPair, id |-> 0, obj |-> obj]

Init ==
  /\ disk = [b \in Blocks |-> IF b = 1 THEN [Blank EXCEPT !.rev = 0] ELSE Blank]
  /\ view = {}
  /\ gstate = Clean /\ gpending = Clean /\ gdelta = Zero /\ flight = {}
  /\ job = NoJob /\ commits = <<>> /\ handle = Released(0)
  /\ goal = <<>> /\ ret = "ok" /\ mode \in Modes /\ ops = 0

Promise == INSTANCE AtomicTree WITH ns <- view

Call(op, d, n, to, as, target) ==
  /\ op \in mode.calls
  /\ job' = [NoJob EXCEPT !.op = op, !.at = "demove", !.d = d, !.n = n,
                          !.to = to, !.as = as]
  /\ goal' = <<target>> /\ ret' = "none" /\ ops' = ops + 1 /\ flight' = {}
  /\ UNCHANGED <<store, gstate, gpending, gdelta, commits, handle, mode>>

\* Calls that a lookup refuses at once change nothing beyond the repair, and
\* are left out.
Make(op, kind, d, n) ==
  /\ Promise!MayMake(view, d, n, ops + 1)
  /\ Call(op, d, n, 0, 0, Promise!Made(view, d, n, kind, ops + 1))

Unlink(e) ==
  /\ Promise!MayRemove(view, e)
  /\ Call("remove", e[1], e[2], 0, 0, Promise!Removed(view, e))

Rename(e, d, n) ==
  /\ Promise!MayRename(view, e, d, n)
  /\ <<e[1], e[2]>> # <<d, n>> \/ "self" \in mode.calls
  /\ Call("rename", e[1], e[2], d, n, Promise!Renamed(view, e, d, n))

Open(e) ==
  /\ e[3] = "file"
  /\ Call("open", e[1], e[2], 0, 0, view)

At(op, at) == commits = <<>> /\ job.op = op /\ job.at = at
Continue(at) == job' = [job EXCEPT !.at = at]

Done ==
  /\ commits = <<>> /\ job.at = "done"
  /\ job' = NoJob /\ goal' = <<>> /\ ret' = "ok"
  /\ UNCHANGED <<store, ram, commits, handle, mode, ops>>

-----------------------------------------------------------------------------
\* lfs_dir_commit.  The attributes of a commit delete the entry del, create
\* the entry add at id, let the entry set refer to the pair ref, and set the
\* tail; 0 and <<>> are for none.  dir is the caller's copy of the directory,
\* the local variable named on.

NoAttrs == [del |-> 0, id |-> 0, add |-> <<>>, set |-> 0, ref |-> NoPair,
            tail |-> <<>>]
NewTail(pair, split) == [NoAttrs EXCEPT !.tail = <<pair, split>>]

Frame(on, dir, attrs) ==
  [on |-> on, dir |-> dir, attrs |-> attrs, at |-> "begin", from |-> NoPair]
Commit(on, dir, attrs) == commits' = Append(commits, Frame(on, dir, attrs))

Running(at) == commits # <<>> /\ Last(commits).at = at
Top == Last(commits)
Dir == Top.dir
Becomes(frame) == commits' = Append(Front(commits), frame)

\* The entry of a pending move goes with the first commit to its pair.
MovedId(g, pair) ==
  IF Here(g, pair) = {} THEN 0 ELSE (CHOOSE m \in Here(g, pair) : TRUE).id

Dropped(s, i) == IF i = 0 THEN s ELSE RemoveAt(s, i)

\* The directory with the attributes applied.
Result ==
  LET a == Top.attrs
      kept == Dropped(Dir.ents, a.del)
      made == IF a.add = <<>> THEN kept ELSE InsertAt(kept, a.id, a.add[1])
      set == IF a.set = 0 THEN made ELSE [made EXCEPT ![a.set].ref = a.ref]
  IN [Dir EXCEPT
        !.ents = Dropped(set, MovedId(gpending, Dir.pair)),
        !.tail = IF a.tail = <<>> THEN @ ELSE a.tail[1],
        !.split = IF a.tail = <<>> THEN @ ELSE a.tail[2]]

\* gdelta, once the commit has taken note of the move it completes.
Delta == [gdelta EXCEPT !.moves = SymDiff(@, Here(gpending, Dir.pair))]

Written(b, dir, delta) ==
  [rev |-> IF b.rev < 0 THEN 0 ELSE b.rev, ents |-> dir.ents,
   tail |-> dir.tail, split |-> dir.split, delta |-> Xor(b.delta, delta)]

Deletes == Top.attrs.del # 0 \/ Here(gpending, Dir.pair) # {}

\* An entry beyond the end of a pair that was split is in its tail.
Followed(d, dir, id) ==
  FoldLeft(LAMBDA x, k : IF x.id > Len(x.dir.ents) /\ x.dir.split
                         THEN [dir |-> Fetch(d, x.dir.tail),
                               id |-> x.id - Len(x.dir.ents)]
                         ELSE x,
           [dir |-> dir, id |-> id], [k \in 1 .. Cardinality(Blocks) |-> k])

\* Mutant of Updated: only what is deleted counts.
UpdatedByDeletes(d, dir) ==
  IF ~Same(handle.pair, dir.pair) THEN handle
  ELSE IF handle.id = Top.attrs.del THEN Released(handle.obj)
  ELSE LET at == Followed(d, dir, handle.id -
                   (IF Top.attrs.del \in 1 .. handle.id THEN 1 ELSE 0))
       IN [handle EXCEPT !.pair = at.dir.pair, !.id = at.id]

\* Open files are told of the change to their directory, now dir on d.
Updated(d, dir) ==
  LET moved == MovedId(gpending, Dir.pair)
      del == IF moved # 0 THEN moved ELSE Top.attrs.del
      id == CASE del # 0 /\ handle.id >= del -> handle.id - 1
              [] (del = 0 \/ handle.id < del) /\ Top.attrs.add # <<>>
                   /\ handle.id >= Top.attrs.id -> handle.id + 1
              [] OTHER -> handle.id
      at == Followed(d, dir, IF handle.id = del THEN del ELSE id)
  IN CASE ~Same(handle.pair, dir.pair) -> handle
       [] Same(handle.pair, dir.pair) /\ handle.id = del
            /\ ~(del > Len(dir.ents) /\ dir.split) -> Released(handle.obj)
       [] OTHER -> [handle EXCEPT !.pair = at.dir.pair, !.id = at.id]

Returns(d, dir) ==
  /\ commits' = Front(commits)
  /\ job' = IF Top.on = "none" THEN job ELSE [job EXCEPT ![Top.on] = dir]
  /\ handle' = Updated(d, dir)

\* The commit reaches the disk.
Lands(dir, delta) ==
  LET b == Active(disk, dir.pair) IN
  /\ disk' = [disk EXCEPT ![b] = Written(@, dir, delta)]
  /\ view' = View(disk')
  /\ gpending' = Without(gpending, dir.pair)
  /\ gstate' = gpending' /\ gdelta' = Zero
  /\ Returns(disk', dir)

\* A pair in the middle of a directory that is now empty leaves the list, by
\* a commit to the pair before it (lfs_dir_drop).
Empties ==
  LET p == Pred(disk, Dir.pair) IN
  Deletes /\ Result.ents = <<>> /\ p # NoDir /\ p.split

\* Mutant of Steal: the delta is lost with the pair.
StealNothing(tail, d) == d

\* The delta d with that of a pair (lfs_dir_getgstate).
Steal(tail, d) == Xor(d, disk[Active(disk, tail.pair)].delta)

Drop ==
  /\ Running("begin") /\ Empties
  /\ gdelta' = Steal(Dir, Delta)
  /\ Becomes(Frame("none", Pred(disk, Dir.pair),
                   NewTail(Result.tail, Result.split)))
  /\ UNCHANGED <<store, gstate, gpending, flight, job, handle, hist>>

Land ==
  /\ Running("begin") /\ ~Empties
  /\ Lands(Result, Delta)
  /\ UNCHANGED <<flight, hist>>

\* The same, when the append has read the delta of the pair before it runs out
\* of room: the compaction reads it again, and the two cancel out.
LandTight ==
  /\ Running("begin") /\ ~Empties /\ mode.tight > 0
  /\ Delta # Zero /\ disk[Active(disk, Dir.pair)].rev >= 0
  /\ Lands(Result, Steal(Dir, Delta))
  /\ mode' = [mode EXCEPT !.tight = @ - 1]
  /\ UNCHANGED <<flight, goal, ret, ops>>

\* A pair that got too large is split (lfs_dir_split): a new pair with the
\* second half is written first, and takes the deltas.
Split ==
  /\ Running("begin") /\ ~Empties /\ Len(Result.ents) > 1 /\ mode.splits > 0
  /\ Cardinality(Free) >= 2
  /\ LET half == Len(Result.ents) \div 2
         pair == TwoFree
         rest == [Result EXCEPT !.pair = pair,
                                !.ents = SubSeq(@, half + 1, Len(@))]
     IN /\ disk' = [b \in Blocks |->
              IF b = Max(pair) THEN Written(Blank, rest, Delta)
              ELSE IF b \in pair THEN Blank ELSE disk[b]]
        /\ view' = View(disk')
        /\ flight' = flight \cup pair
        /\ Becomes([Top EXCEPT
             !.at = "rest",
             !.dir = [Result EXCEPT !.ents = SubSeq(@, 1, half),
                                    !.tail = pair, !.split = TRUE]])
  /\ gstate' = gpending /\ gdelta' = Zero
  /\ mode' = [mode EXCEPT !.splits = @ - 1]
  /\ UNCHANGED <<gpending, job, handle, goal, ret, ops>>

\* ... then the first half, which refers to it.
SplitRest ==
  /\ Running("rest")
  /\ Lands(Dir, gdelta)
  /\ UNCHANGED <<flight, hist>>

\* A block that does not take the compaction is replaced (lfs_dir_compact):
\* the new block is written without deltas, those of the pair are read twice
\* and cancel out.
Relocate ==
  /\ Running("begin") /\ ~Empties /\ mode.bad > 0
  /\ Dir.pair # Root /\ Free # {}
  /\ LET a == Active(disk, Dir.pair)
         c == Min(Free)
         dir == [Result EXCEPT !.pair = {a, c}]
     IN /\ disk' = [disk EXCEPT ![c] =
              [Written(Blank, dir, Zero) EXCEPT !.rev = disk[a].rev + 1]]
        /\ view' = View(disk')
        /\ flight' = flight \cup {c}
        /\ gpending' = Without(gpending, dir.pair)
        /\ handle' = IF Same(handle.pair, Dir.pair)
                     THEN [handle EXCEPT !.pair = dir.pair] ELSE handle
        /\ Becomes([Top EXCEPT
             !.at = "parent", !.dir = dir, !.from = Dir.pair,
             !.attrs.del = IF Here(gpending, Dir.pair) = {} THEN @
                           ELSE MovedId(gpending, Dir.pair)])
  /\ gdelta' = Delta
  /\ mode' = [mode EXCEPT !.bad = @ - 1]
  /\ UNCHANGED <<gstate, job, goal, ret, ops>>

\* lfs_fs_relocate: the entry in the parent, if there is one yet, ...
RelocateParent ==
  /\ Running("parent")
  /\ IF Parents(disk, gstate, Top.from) = {}
     THEN /\ Becomes([Top EXCEPT !.at = "pred"])
          /\ UNCHANGED <<gpending, gdelta>>
     ELSE LET p == Parent(disk, gstate, Top.from) IN
          /\ PrepOrphans(1, gdelta)
          /\ commits' = Front(commits) \o
               <<[Top EXCEPT !.at = "parented"],
                 Frame("none", p.dir, [NoAttrs EXCEPT !.set = p.id,
                                                      !.ref = Dir.pair])>>
  /\ UNCHANGED <<store, gstate, flight, job, handle, hist>>

\* ... and the tail before it.
RelocatePred ==
  /\ Running("pred") \/ Running("parented")
  /\ LET p == Pred(disk, Top.from)
         next == [Top EXCEPT !.at = "moved"]
     IN commits' = Front(commits) \o
          IF p = NoDir THEN <<next>>
          ELSE <<next, Frame("none", p, NewTail(Dir.pair, p.split))>>
  /\ IF Top.at = "parented" THEN PrepOrphans(-1, gdelta)
     ELSE UNCHANGED <<gpending, gdelta>>
  /\ UNCHANGED <<store, gstate, flight, job, handle, hist>>

Relocated ==
  /\ Running("moved")
  /\ Returns(disk, Dir)
  /\ UNCHANGED <<store, ram, hist>>

-----------------------------------------------------------------------------
\* lfs_fs_forceconsistency, at the start of each call that writes.

Demove ==
  /\ commits = <<>> /\ job.at = "demove"
  /\ Continue("deorphan")
  /\ IF gstate.moves = {} THEN UNCHANGED commits
     ELSE LET m == CHOOSE x \in gstate.moves : TRUE IN
          Commit("none", Fetch(disk, m.pair), NoAttrs)
  /\ UNCHANGED <<store, ram, handle, hist>>

\* The first tail on the list whose directory no parent has, or has under
\* another pair.
Astray ==
  LET l == List(disk) IN
  {k \in 1 .. Len(l) : LET p == Fetch(disk, l[k]) IN
     /\ p.tail # NoPair /\ ~p.split
     /\ \/ Parents(disk, gstate, p.tail) = {}
        \/ LET at == Parent(disk, gstate, p.tail)
           IN at.dir.ents[at.id].ref # p.tail}

\* It leaves the list, or is listed as its parent has it.
Repair(p) ==
  LET dir == Fetch(disk, p.tail) IN
  IF Parents(disk, gstate, p.tail) = {}
  THEN /\ gdelta' = Steal(dir, gdelta)
       /\ Commit("none", p, NewTail(dir.tail, dir.split))
  ELSE /\ LET at == Parent(disk, gstate, p.tail) IN
          Commit("none", p, NewTail(at.dir.ents[at.id].ref, FALSE))
       /\ UNCHANGED gdelta

Deorphan ==
  /\ commits = <<>> /\ job.at = "deorphan" /\ gstate.count # 0
  /\ Continue("deorphaned")
  /\ \/ Astray = {} /\ UNCHANGED <<gdelta, commits>>
     \/ \E k \in Astray : k = Min(Astray) /\ Repair(Fetch(disk, List(disk)[k]))
  /\ UNCHANGED <<store, gstate, gpending, flight, handle, hist>>

NoOrphans ==
  /\ commits = <<>> /\ job.at = "deorphan" /\ gstate.count = 0
  /\ Continue("go")
  /\ UNCHANGED <<store, ram, commits, handle, hist>>

Deorphaned ==
  /\ commits = <<>> /\ job.at = "deorphaned"
  /\ PrepOrphans(-gstate.count, gdelta)
  /\ gstate' = gpending'
  /\ Continue("go")
  /\ UNCHANGED <<store, flight, commits, handle, hist>>

-----------------------------------------------------------------------------
\* The calls.

HeadPair(d) == (CHOOSE r \in Dirs(disk, gstate) : r.obj = d).pair
Lookup(d, n) == Find(disk, HeadPair(d), n)
NewEntry(kind, ref) == [name |-> job.n, kind |-> kind, ref |-> ref, obj |-> ops]
Insert(at, e) == [NoAttrs EXCEPT !.id = at, !.add = <<e>>]

Fails ==
  /\ job' = NoJob /\ commits' = <<>> /\ goal' = <<>> /\ ret' = "error"
  /\ UNCHANGED <<mode, ops, handle>>

\* lfs_file_opencfg with LFS_O_CREAT
CreateFile ==
  /\ At("create", "go")
  /\ LET f == Lookup(job.d, job.n) IN
     Commit("none", f.dir, Insert(f.id, NewEntry("file", NoPair)))
  /\ Continue("done")
  /\ UNCHANGED <<store, ram, handle, hist>>

OpenFile ==
  /\ At("open", "go")
  /\ LET f == Lookup(job.d, job.n) IN
     handle' = [pair |-> f.dir.pair, id |-> f.id, obj |-> f.dir.ents[f.id].obj]
  /\ Continue("done")
  /\ UNCHANGED <<store, ram, commits, hist>>

\* lfs_mkdir: the new pair is written, with the tail of the last pair of its
\* parent, ...
Mkdir ==
  /\ At("mkdir", "go") /\ Cardinality(Free) >= 2
  /\ LET f == Lookup(job.d, job.n)
         pair == TwoFree
         dir == [NoDir EXCEPT !.pair = pair]
         pred == Fetch(disk, Last(Chain(disk, f.dir.pair)))
     IN /\ disk' = [b \in Blocks |-> IF b \in pair THEN Blank ELSE disk[b]]
        /\ view' = View(disk')
        /\ flight' = pair
        /\ job' = [job EXCEPT !.at = "link", !.cwd = f.dir, !.id = f.id,
                              !.pred = pred, !.dir = dir]
        /\ Commit("dir", dir, NewTail(pred.tail, FALSE))
  /\ UNCHANGED <<gstate, gpending, gdelta, handle, hist>>

MkdirNoSpace ==
  /\ At("mkdir", "go") /\ Cardinality(Free) < 2
  /\ Fails /\ UNCHANGED <<store, ram>>

\* Mutant of MkdirLink: the orphan is not announced.
MkdirLinkUnannounced ==
  /\ At("mkdir", "link") /\ job.cwd.split
  /\ Commit("pred", job.pred, NewTail(job.dir.pair, FALSE))
  /\ Continue("linked")
  /\ UNCHANGED <<store, gstate, gpending, gdelta, flight, handle, hist>>

\* ... linked to the list there, if that is not the pair of its entry, ...
MkdirLink ==
  /\ At("mkdir", "link") /\ job.cwd.split
  /\ PrepOrphans(1, gdelta)
  /\ Commit("pred", job.pred, NewTail(job.dir.pair, FALSE))
  /\ Continue("linked")
  /\ UNCHANGED <<store, gstate, flight, handle, hist>>

\* ... and entered in its parent.
MkdirEnter ==
  /\ \/ At("mkdir", "linked") /\ PrepOrphans(-1, gdelta)
     \/ At("mkdir", "link") /\ ~job.cwd.split /\ UNCHANGED <<gpending, gdelta>>
  /\ LET made == Insert(job.id, NewEntry("dir", job.dir.pair)) IN
     Commit("cwd", job.cwd, IF job.cwd.split THEN made
                            ELSE [made EXCEPT !.tail = <<job.dir.pair, FALSE>>])
  /\ Continue("done")
  /\ UNCHANGED <<store, gstate, flight, handle, hist>>

\* lfs_remove
RemoveEntry ==
  /\ At("remove", "go")
  /\ \E f \in {Lookup(job.d, job.n)} :
       LET e == f.dir.ents[f.id]
           dir == e.kind = "dir"
       IN /\ Commit("cwd", f.dir, [NoAttrs EXCEPT !.del = f.id])
          /\ job' = [job EXCEPT
               !.at = IF dir THEN "drop" ELSE "done",
               !.prev = IF dir THEN Fetch(disk, e.ref) ELSE NoDir]
          /\ IF dir THEN PrepOrphans(1, gdelta)
             ELSE UNCHANGED <<gpending, gdelta>>
  /\ UNCHANGED <<store, gstate, flight, handle, hist>>

\* The directory that has no entry any more leaves the list.
DropDir ==
  /\ commits = <<>> /\ job.at = "drop"
  /\ PrepOrphans(-1, Steal(job.prev, gdelta))
  /\ Commit("none", Pred(disk, job.prev.pair),
            NewTail(job.prev.tail, job.prev.split))
  /\ Continue("done")
  /\ UNCHANGED <<store, gstate, flight, handle, hist>>

\* Mutant of OldId: the entry about to be inserted is not counted.
OldIdUnshifted(o, f) == o.id

\* Where the old entry is once the new one has been inserted.
OldId(o, f) ==
  IF Same(o.dir.pair, f.dir.pair) /\ ~f.found /\ f.id <= o.id
  THEN o.id + 1 ELSE o.id

\* Mutant of Orphaned: the directory that is replaced is not counted.
OrphanedUncounted(over) == 0

\* How many directories lose their entry.
Orphaned(over) == IF over THEN 1 ELSE 0

\* lfs_rename: the entry appears under its new name, in place of the one that
\* had it, and the global state hides the old one, ...
RenameEntry ==
  /\ At("rename", "go")
  /\ \E o \in {Lookup(job.d, job.n)}, f \in {Lookup(job.to, job.as)} :
       LET e == [o.dir.ents[o.id] EXCEPT !.name = job.as]
           over == f.found /\ e.kind = "dir"
       IN /\ job' = [job EXCEPT
               !.at = "clean", !.cwd = f.dir, !.old = o.dir,
               !.prev = IF over THEN Fetch(disk, f.dir.ents[f.id].ref)
                        ELSE NoDir]
          /\ PrepMove([id |-> OldId(o, f), pair |-> o.dir.pair], Orphaned(over))
          /\ Commit("cwd", f.dir, [Insert(f.id, e) EXCEPT
                                     !.del = IF f.found THEN f.id ELSE 0])
  /\ UNCHANGED <<store, gstate, flight, handle, hist>>

\* ... then the old one goes, unless it was in the same pair.
RenameClean ==
  /\ At("rename", "clean")
  /\ IF Same(job.old.pair, job.cwd.pair) THEN UNCHANGED commits
     ELSE Commit("old", job.old, NoAttrs)
  /\ Continue(IF job.prev = NoDir THEN "done" ELSE "drop")
  /\ UNCHANGED <<store, ram, handle, hist>>

-----------------------------------------------------------------------------
\* The process ends anywhere, or unmounts between calls; a mount reads the
\* global state off the disk.
Crash ==
  /\ \/ job = NoJob /\ UNCHANGED mode
     \/ job # NoJob /\ mode.crashes > 0
        /\ mode' = [mode EXCEPT !.crashes = @ - 1]
  /\ LET g == OnDisk(disk) IN
     gstate' = [count |-> IF g.orphan THEN 1 ELSE 0, moves |-> g.moves]
  /\ gpending' = gstate' /\ gdelta' = Zero /\ flight' = {}
  /\ job' = NoJob /\ commits' = <<>> /\ handle' = Released(0)
  /\ goal' = <<>> /\ ret' = "crash"
  /\ UNCHANGED <<store, ops>>

API ==
  /\ job = NoJob /\ ops < mode.ops
  /\ \/ \E d \in Objects, n \in mode.names :
          Make("mkdir", "dir", d, n) \/ Make("create", "file", d, n)
     \/ \E e \in view :
          \/ Unlink(e) \/ Open(e)
          \/ \E d \in Objects, n \in mode.names : Rename(e, d, n)

Step ==
  \/ Drop \/ Land \/ LandTight \/ Split \/ SplitRest
  \/ Relocate \/ RelocateParent \/ RelocatePred \/ Relocated
  \/ Demove \/ NoOrphans \/ Deorphan \/ Deorphaned
  \/ CreateFile \/ OpenFile \/ Mkdir \/ MkdirNoSpace \/ MkdirLink \/ MkdirEnter
  \/ RemoveEntry \/ DropDir \/ RenameEntry \/ RenameClean \/ Done

Next == API \/ Step \/ Crash

Spec == Init /\ [][Next]_vars

-----------------------------------------------------------------------------
Pairs == {p \in SUBSET Blocks : Cardinality(p) = 2}

\* The shape of the state; in particular the global state names one move at
\* most.
TypeOK ==
  /\ \A b \in Blocks :
       disk[b].tail \in Pairs \cup {NoPair} /\ Len(disk[b].ents) <= MaxOps
  /\ gstate.count \in 0 .. 2 /\ gpending.count \in 0 .. 2
  /\ Cardinality(gstate.moves) <= 1 /\ Cardinality(gpending.moves) <= 1
  /\ flight \subseteq Blocks

\* The list of tails ends, wherever a crash leaves it: lfs_fs_pred,
\* lfs_fs_traverse and lfs_mount follow it without a bound.
ListEnds == Fetch(disk, Last(List(disk))).tail = NoPair

\* The pairs names lead to, and those on the list that begin a directory.
Reached == UNION {ToSet(Chain(disk, r.pair)) : r \in Dirs(disk, OnDisk(disk))}

\* A disk on which list and tree differ says so: after a crash at this point
\* the next call repairs it (lfs_fs_deorphan).
DifferenceIsAnnounced ==
  OnDisk(disk).orphan \/ ToSet(List(disk)) = Reached

\* Between calls the global state in RAM is what the deltas on the disk add
\* up to, but for gdelta, which the next commit writes, and but for a move
\* whose pair has been dropped from the list.
GstateIsKept ==
  job = NoJob /\ (\A m \in gpending.moves : m.pair \in ToSet(List(disk))) =>
    Xor(OnDisk(disk), gdelta) = Seen(gpending)

\* A file kept open is found where its handle says, until it is removed.
HandleFollows ==
  job = NoJob /\ handle.pair # NoPair =>
    handle.id \in Visible(disk, gstate, handle.pair)
    /\ Fetch(disk, handle.pair).ents[handle.id].obj = handle.obj

\* Every call changes the names in one step or not at all, also when the
\* process ends in the middle, and has changed them if it returns 0.
CallsAreAtomic == Promise!Spec
=============================================================================
