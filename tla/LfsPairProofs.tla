---------------------------- MODULE LfsPairProofs ---------------------------
(***************************************************************************)
(* Proofs about a metadata pair, for every device, every width of the      *)
(* revision counter and every capacity of a block, through crashes, errors *)
(* and blocks that go bad.                                                 *)
(***************************************************************************)
EXTENDS LfsPair, Numbers, SequenceTheorems, TLAPS

\* One revision follows another at once, or after the one that lfs_dir_alloc
\* skips to make a new pair's even.
Follows(r, s) == (r - s) % Revisions \in {1, 2}

\* Of the blocks a and x, a fetch takes a.
Leads(d, a, x) ==
  /\ d[a].log # <<>>
  /\ d[x].log # <<>> => Follows(d[a].rev, d[x].rev)

\* A state of the device that a mount can live with.
Sound(img) ==
  /\ img.disk \in [Blocks -> BlockStates]
  /\ \A b \in Blocks : \A k \in DOMAIN img.disk[b].log : img.disk[b].log[k] <= ops
  /\ img.ref = NoPair => acked = 0
  /\ img.ref # NoPair =>
       \E a, x \in Blocks :
         /\ a # x /\ img.ref \in {<<a, x>>, <<x, a>>}
         /\ Leads(img.disk, a, x) /\ Last(img.disk[a].log) >= acked

AllSound ==
  /\ Now \in images
  /\ \A img \in images :
       img = [disk |-> img.disk, ref |-> img.ref] /\ Sound(img)

\* The directory in RAM: its active block and the one to be written next.
DirStates ==
  [pair : {NoPair} \cup Blocks \X Blocks, rev : Revs, off : 0 .. Capacity,
   erased : BOOLEAN]
Active == dir.pair[1]
Spare == dir.pair[2]

\* It is what a fetch of the current pair finds, but for the revision of a pair
\* that is stuck, which failed compactions have counted up.
Cached ==
  /\ Elems(ref) = {Active, Spare} /\ Active # Spare
  /\ Leads(disk, Active, Spare)
  /\ dir.rev = disk[Active].rev \/ Stuck

\* Block b does not hold the commit at hand, or holds it as the only one, whole.
Without(b) == disk[b].log # <<>> => Last(disk[b].log) # want
Rewritten(b) == disk[b] = [rev |-> dir.rev, log |-> <<want>>, torn |-> FALSE]

\* What holds while no operation runs.
AtRest ==
  pc = "idle" =>
    /\ want = 0
    /\ dir # None =>
         /\ ref # NoPair /\ Cached
         /\ dir.off = Len(disk[Active].log)

\* While the commit is being appended.
Appending ==
  pc \in {"append", "verify"} =>
    /\ ref # NoPair /\ Cached /\ ~relocated
    /\ \A b \in Blocks \ {Active} : Without(b)
    /\ pc = "append" => dir.off = Len(disk[Active].log) /\ Without(Active)
    /\ pc = "verify" =>
         \/ Without(Active) /\ dir.off = Len(disk[Active].log)
         \/ ~Without(Active) /\ Len(disk[Active].log) = dir.off + 1
              /\ ~disk[Active].torn

\* While the directory is compacted into the spare block; the active one keeps
\* what it has, and is the one that a fetch takes.  If the pair is stuck nothing
\* gets to the spare block, and the revision does not matter.
Compacting ==
  pc \in {"compact", "erase", "rewrite", "check", "relocate"} =>
    /\ Active # Spare
    /\ ref # NoPair =>
         /\ Active \in Elems(ref)
         /\ Elems(ref) = {Active, Spare} \/ (relocated /\ pc # "compact")
         /\ dir.off = Len(disk[Active].log)
    /\ ref = NoPair => Active \in handed
    /\ relocated \/ ref = NoPair => Elems(dir.pair) \cap Superblock = {}
    /\ \A b \in Blocks \ {Spare} : Without(b)
    /\ pc = "compact" /\ ref = NoPair =>
         (dir.rev - disk[Active].rev) % Revisions \in {0, 1}
    /\ pc = "compact" /\ ref # NoPair => Cached /\ ~relocated
    /\ pc # "compact" =>
         Follows(dir.rev, disk[Active].rev) \/ (Stuck /\ Without(Spare))
    /\ pc = "check" => Spare \in bad \/ Rewritten(Spare)
    /\ pc = "relocate" => Spare \in bad
    /\ \/ Without(Spare) /\ \A b \in Elems(ref) \ {Active} : Leads(disk, Active, b)
       \/ pc = "check" /\ Rewritten(Spare)

\* Once the compaction sticks, until the parent knows.
Linking ==
  pc \in {"link", "linked"} =>
    /\ Active # Spare /\ Rewritten(Active) /\ Leads(disk, Active, Spare)
    /\ dir.off = 1
    /\ pc = "link" => images = {Now}
    /\ pc = "linked" => ref = dir.pair

\* The operation at hand is the last one begun.
Counted ==
  /\ ops \in 0 .. MaxOps /\ acked \in 0 .. ops
  /\ pc # "idle" => want = ops /\ acked < want
  /\ dir \in DirStates
  /\ pc # "idle" \/ dir # None => dir.pair # NoPair
  /\ pc \in {"idle", "append", "verify", "compact", "erase", "rewrite", "check",
             "relocate", "link", "linked"}
  /\ bad \subseteq Blocks /\ handed \subseteq Blocks /\ relocated \in BOOLEAN

PairInv ==
  Counted /\ AllSound /\ AtRest /\ Appending /\ Compacting /\ Linking

-----------------------------------------------------------------------------
\* The comparison of revisions sees which of two that follow each other is the
\* later one.
LEMMA FollowsIsNewer ==
  ASSUME NEW r \in Int, NEW s \in Int, Follows(r, s)
  PROVE  Newer(r, s) /\ ~Newer(s, r) /\ ~Follows(s, r)
<1>1. Revisions \in Nat \ {0} /\ Revisions >= 6
  BY PairAssumption, SMT
<1>2. PICK g \in {1, 2} : (r - s) % Revisions = g
  BY DEF Follows
<1>3. (s - r) % Revisions = Revisions - g
  <2>1. (r - s) % Revisions # 0
    BY <1>2
  <2>2. (s - r) % Revisions = Revisions - ((r - s) % Revisions)
    BY <1>1, <2>1, ModBack
  <2> QED
    BY <1>2, <2>2
<1>4. 2 * (Revisions \div 2) = Revisions
  BY <1>1, PairAssumption, SMT
<1>5. Revisions \div 2 \in Nat /\ Revisions \div 2 >= 3
  BY <1>1, SMT
<1> QED
  BY <1>1, <1>2, <1>3, <1>4, <1>5, SMT DEF Newer, Follows

\* The revision that lfs_dir_compact writes follows that of the active block.
LEMMA CompactFollows ==
  ASSUME NEW r \in Revs, NEW v \in Revs, (v - r) % Revisions \in {0, 1}
  PROVE  (v + 1) % Revisions \in Revs /\ Follows((v + 1) % Revisions, r)
<1>1. Revisions \in Nat \ {0} /\ Revisions > 4 /\ r \in Int /\ v \in Int
  BY PairAssumption, SMT DEF Revs
<1>2. PICK e \in {0, 1} : (v - r) % Revisions = e
  OBVIOUS
<1>3. PICK x \in Int : x = v + 1
  BY <1>1
<1>4. PICK y \in Int : y = v - r
  BY <1>1
<1>5. ((x % Revisions) + (-r)) % Revisions = (x + (-r)) % Revisions
  <2>1. -r \in Int
    BY <1>1
  <2> QED
    BY <1>1, <2>1, ModAdd, Zenon
<1>6. ((y % Revisions) + 1) % Revisions = (y + 1) % Revisions
  <2>1. 1 \in Int
    OBVIOUS
  <2> QED
    BY <1>1, <2>1, ModAdd, Zenon
<1>7. (e + 1) % Revisions = e + 1
  <2>1. e + 1 \in 0 .. Revisions - 1
    BY <1>1
  <2> QED
    BY <1>1, <2>1, ModSmall
<1>8. x + (-r) = y + 1
  BY <1>1, <1>3, <1>4
<1>9. (x % Revisions) \in Revs
  BY <1>1, ModSplit DEF Revs
<1>10. (x % Revisions) + (-r) = (x % Revisions) - r
  BY <1>1, <1>9 DEF Revs
<1>11. ((x % Revisions) - r) % Revisions = e + 1
  BY <1>2, <1>4, <1>5, <1>6, <1>7, <1>8, <1>10
<1> QED
  BY <1>3, <1>9, <1>11 DEF Follows

\* The revision that lfs_dir_alloc starts from is that of the block or one more.
LEMMA ContinuedNear ==
  ASSUME NEW r \in Revs
  PROVE  Continued(r) \in Revs /\ (Continued(r) - r) % Revisions \in {0, 1}
<1>1. Revisions \in Nat \ {0} /\ Revisions > 4 /\ r \in Int
  BY PairAssumption, SMT DEF Revs
<1>2. PICK e \in {0, 1} : e = r % 2
  BY <1>1, SMT
<1>3. PICK x \in Int : x = r + e
  BY <1>1
<1>4. ((x % Revisions) + (-r)) % Revisions = (x + (-r)) % Revisions
  <2>1. -r \in Int
    BY <1>1
  <2> QED
    BY <1>1, <2>1, ModAdd, Zenon
<1>5. e % Revisions = e
  <2>1. e \in 0 .. Revisions - 1
    BY <1>1
  <2> QED
    BY <1>1, <2>1, ModSmall
<1>6. x + (-r) = e
  BY <1>1, <1>3
<1>7. (x % Revisions) \in Revs
  BY <1>1, ModSplit DEF Revs
<1>8. (x % Revisions) + (-r) = (x % Revisions) - r
  BY <1>1, <1>7 DEF Revs
<1> QED
  BY <1>2, <1>3, <1>4, <1>5, <1>6, <1>7, <1>8 DEF Continued

\* The blocks of a pair.
LEMMA PairElems ==
  ASSUME NEW a, NEW x
  PROVE  Elems(<<a, x>>) = {a, x} /\ Elems(<<x, a>>) = {a, x}
<1>1. DOMAIN <<a, x>> = {1, 2} /\ DOMAIN <<x, a>> = {1, 2}
  OBVIOUS
<1> QED
  BY <1>1 DEF Elems

\* A fetch takes the leading block.
LEMMA LeaderIsChosen ==
  ASSUME NEW d \in [Blocks -> BlockStates], NEW a \in Blocks, NEW x \in Blocks,
         Leads(d, a, x), NEW p, p = <<a, x>> \/ p = <<x, a>>
  PROVE  /\ Chosen(d, p) = <<a, x>> /\ Elems(p) = {a, x} /\ p # NoPair
         /\ Fetchable(d, p)
<1>1. d[a].rev \in Int /\ d[x].rev \in Int
  BY PairAssumption DEF BlockStates, Revs
<1>2. d[a].log # <<>>
  BY DEF Leads
<1>3. d[x].log # <<>> =>
        Newer(d[a].rev, d[x].rev) /\ ~Newer(d[x].rev, d[a].rev)
  BY <1>1, FollowsIsNewer DEF Leads
<1>4. Swap(<<a, x>>) = <<x, a>> /\ Swap(<<x, a>>) = <<a, x>>
  BY DEF Swap
<1>5. Ordered(d, p) \in {<<a, x>>, <<x, a>>}
      /\ (d[x].log # <<>> => Ordered(d, p) = <<a, x>>)
  BY <1>3, <1>4 DEF Ordered
<1>6. Chosen(d, p) = <<a, x>>
  BY <1>2, <1>4, <1>5 DEF Chosen
<1>7. Elems(p) = {a, x} /\ p # NoPair
  <2>1. <<a, x>> # <<>> /\ <<x, a>> # <<>>
    OBVIOUS
  <2> QED
    BY <2>1, PairElems DEF NoPair
<1> QED
  BY <1>2, <1>6, <1>7 DEF Fetchable

\* Of two blocks only one leads.
LEMMA OneLeads ==
  ASSUME NEW d \in [Blocks -> BlockStates], NEW a \in Blocks, NEW x \in Blocks,
         Leads(d, a, x)
  PROVE  ~Leads(d, x, a)
<1>1. d[a].rev \in Int /\ d[x].rev \in Int
  BY PairAssumption DEF BlockStates, Revs
<1> QED
  BY <1>1, FollowsIsNewer DEF Leads

\* The log of a block: up to Capacity commits.
Entries == {Stale} \cup 0 .. MaxOps
Logs == UNION {[1 .. n -> Entries] : n \in 0 .. Capacity}

\* The commits of a block are a sequence that fits into it.
LEMMA LogIsSeq ==
  ASSUME NEW s
  PROVE  s \in Logs <=> s \in Seq(Entries) /\ Len(s) \in 0 .. Capacity
<1>1. ASSUME s \in Logs PROVE s \in Seq(Entries) /\ Len(s) \in 0 .. Capacity
  BY <1>1, PairAssumption DEF Logs
<1>2. ASSUME s \in Seq(Entries), Len(s) \in 0 .. Capacity PROVE s \in Logs
  BY <1>2, LenProperties DEF Logs
<1> QED
  BY <1>1, <1>2

\* The states of a block, as a set of records.
LEMMA BlockStateIs == BlockStates = [rev : Revs, torn : BOOLEAN, log : Logs]
BY DEF BlockStates, Logs, Entries

\* What has been written last in a block is no later than the last operation.
LEMMA LastBounded ==
  ASSUME NEW img, Sound(img), ops \in Nat, NEW b \in Blocks,
         img.disk[b].log # <<>>
  PROVE  /\ Last(img.disk[b].log) \in Entries /\ Last(img.disk[b].log) <= ops
         /\ Len(img.disk[b].log) \in 1 .. Capacity
<1> DEFINE s == img.disk[b].log
<1>1. s \in Logs
  BY BlockStateIs DEF Sound
<1>2. s \in Seq(Entries) /\ Len(s) \in 0 .. Capacity
  BY <1>1, LogIsSeq
<1>3. Len(s) \in 1 .. Len(s) /\ DOMAIN s = 1 .. Len(s)
  <2>1. Len(s) \in Nat \ {0}
    BY <1>2, EmptySeq
  <2> QED
    BY <1>2, <2>1, LenProperties
<1>4. s[Len(s)] \in Entries
  BY <1>2, <1>3, ElementOfSeq
<1>5. s[Len(s)] <= ops
  BY <1>3 DEF Sound
<1> QED
  BY <1>2, <1>3, <1>4, <1>5 DEF Last

\* The current state of the device is one of those a crash may leave.
LEMMA NowSound ==
  ASSUME PairInv
  PROVE  /\ Sound(Now) /\ disk \in [Blocks -> BlockStates]
         /\ ops \in Nat /\ acked \in Nat
         /\ ref # NoPair =>
              \E a, x \in Blocks :
                /\ a # x /\ ref \in {<<a, x>>, <<x, a>>} /\ Leads(disk, a, x)
                /\ Last(disk[a].log) >= acked
<1>1. Sound(Now)
  BY DEF PairInv, AllSound
<1>2. Now.disk = disk /\ Now.ref = ref
  BY DEF Now
<1> QED
  BY <1>1, <1>2 DEF Sound, PairInv, Counted

\* The two blocks the parent refers to, in either order.
LEMMA RefBlocks ==
  ASSUME PairInv
  PROVE  Elems(ref) \subseteq Blocks
<1>1. CASE ref = NoPair
  BY <1>1 DEF Elems, NoPair
<1>2. CASE ref # NoPair
  <2>1. PICK a, x \in Blocks : ref = <<a, x>> \/ ref = <<x, a>>
    BY <1>2, NowSound
  <2>2. Elems(ref) = {a, x}
    BY <2>1, PairElems
  <2> QED
    BY <2>2
<1> QED
  BY <1>1, <1>2

\* The leading block of the current pair holds what has been acknowledged.
LEMMA LeaderNow ==
  ASSUME PairInv, ref # NoPair, NEW a \in Blocks, NEW x \in Blocks, a # x,
         Elems(ref) = {a, x}, Leads(disk, a, x)
  PROVE  ref \in {<<a, x>>, <<x, a>>} /\ Last(disk[a].log) >= acked
<1>1. PICK e, f \in Blocks :
        /\ e # f /\ ref \in {<<e, f>>, <<f, e>>} /\ Leads(disk, e, f)
        /\ Last(disk[e].log) >= acked
  BY NowSound
<1>2. disk \in [Blocks -> BlockStates]
  BY NowSound
<1>3. {e, f} = {a, x}
  <2>1. Elems(ref) = {e, f}
    BY <1>1, PairElems
  <2> QED
    BY <2>1
<1>4. e = a /\ f = x
  BY <1>1, <1>2, <1>3, OneLeads
<1> QED
  BY <1>1, <1>4

\* Nothing a block holds before the operation begins is the operation's.
LEMMA NothingYet ==
  ASSUME PairInv, NEW b \in Blocks, disk[b].log # <<>>
  PROVE  Last(disk[b].log) \in Int /\ Last(disk[b].log) <= ops
         /\ Len(disk[b].log) \in 1 .. Capacity
<1>1. Sound(Now) /\ ops \in Nat /\ Now.disk = disk
  BY NowSound DEF Now
<1>2. Last(disk[b].log) \in Entries /\ Last(disk[b].log) <= ops
      /\ Len(disk[b].log) \in 1 .. Capacity
  BY <1>1, LastBounded
<1> QED
  BY <1>2, PairAssumption DEF Entries, Stale

\* What Put writes, and the states it adds to those a crash may leave.
LEMMA PutWrites ==
  ASSUME NEW b \in Blocks, NEW parts, NEW whole, Put(b, parts, whole),
         disk \in [Blocks -> BlockStates]
  PROVE  /\ ref' = ref
         /\ \E v \in parts \cup {whole, disk[b]} :
              /\ disk' = [disk EXCEPT ![b] = v]
              /\ b \notin bad => v = whole
              /\ b \in bad => v \in parts \cup {disk[b]}
              /\ images' = images \cup
                   {[disk |-> [disk EXCEPT ![b] = x], ref |-> ref] :
                      x \in parts \cup {v}}
<1>1. PICK v \in parts \cup {whole, disk[b]} :
        /\ disk' = [disk EXCEPT ![b] = v]
        /\ b \notin bad => v = whole
        /\ b \in bad => v \in parts \cup {disk[b]}
  BY DEF Put
<1>2. disk'[b] = v
  BY <1>1
<1> QED
  BY <1>1, <1>2 DEF Put

\* If each state that Put passes through is one a mount can live with, the
\* next state is sound.
LEMMA PutIsSound ==
  ASSUME PairInv, ops' = ops, acked' = acked,
         NEW b \in Blocks, NEW parts, NEW whole, Put(b, parts, whole),
         \A v \in parts : Sound([disk |-> [disk EXCEPT ![b] = v], ref |-> ref]),
         b \in bad \/ Sound([disk |-> [disk EXCEPT ![b] = whole], ref |-> ref])
  PROVE  AllSound'
<1>1. disk \in [Blocks -> BlockStates] /\ Sound(Now)
  BY NowSound
<1>2. PICK v \in parts \cup {whole, disk[b]} :
        /\ disk' = [disk EXCEPT ![b] = v] /\ ref' = ref
        /\ b \notin bad => v = whole
        /\ b \in bad => v \in parts \cup {disk[b]}
        /\ images' = images \cup
             {[disk |-> [disk EXCEPT ![b] = x], ref |-> ref] :
                x \in parts \cup {v}}
  BY <1>1, PutWrites
<1>3. [disk EXCEPT ![b] = disk[b]] = disk
  BY <1>1
<1>4. \A x \in parts \cup {v} :
        Sound([disk |-> [disk EXCEPT ![b] = x], ref |-> ref])
  BY <1>1, <1>2, <1>3 DEF Now
<1>5. \A img : Sound(img)' <=> Sound(img)
  BY DEF Sound
<1>6. Now' \in images'
  BY <1>2 DEF Now
<1>7. ASSUME NEW img \in images'
      PROVE  img = [disk |-> img.disk, ref |-> img.ref] /\ Sound(img)'
  <2>1. CASE img \in images
    BY <1>5, <2>1 DEF PairInv, AllSound
  <2>2. CASE \E x \in parts \cup {v} :
               img = [disk |-> [disk EXCEPT ![b] = x], ref |-> ref]
    BY <1>4, <1>5, <2>2
  <2> QED
    BY <1>2, <2>1, <2>2
<1> QED
  BY <1>6, <1>7 DEF AllSound

\* If nothing changes that the images depend on they stay sound.
LEMMA SoundKept ==
  ASSUME PairInv, UNCHANGED device, acked' = acked, ops' \in Nat, ops' >= ops
  PROVE  AllSound'
<1>1. ops \in Nat
  BY NowSound
<1>2. ASSUME NEW img \in images PROVE Sound(img)'
  <2>1. Sound(img)
    BY DEF PairInv, AllSound
  <2>2. ASSUME NEW b \in Blocks, NEW k \in DOMAIN img.disk[b].log
        PROVE  img.disk[b].log[k] <= ops'
    <3> DEFINE s == img.disk[b].log
    <3>1. s \in Logs
      BY <2>1, BlockStateIs DEF Sound
    <3>2. s \in Seq(Entries)
      BY <3>1, LogIsSeq
    <3>3. s[k] \in Entries
      BY <3>2, LenProperties, ElementOfSeq
    <3>4. s[k] \in Int /\ s[k] <= ops
      BY <2>1, <3>3, PairAssumption DEF Sound, Entries, Stale
    <3> QED
      BY <1>1, <3>4
  <2> QED
    BY <2>1, <2>2 DEF Sound
<1> QED
  BY <1>2 DEF PairInv, AllSound, device, Now

\* A sync leaves one image: it is enough that this one is sound.
LEMMA SyncIsSound ==
  ASSUME Sync, Sound(Now)'
  PROVE  AllSound'
BY DEF Sync, AllSound, Now

\* Reading the directory.
LEMMA FetchKeeps ==
  ASSUME PairInv, Fetch
  PROVE  PairInv'
<1>1. AllSound'
  BY NowSound, SoundKept DEF Fetch
<1>2. PICK a, x \in Blocks :
        /\ a # x /\ ref \in {<<a, x>>, <<x, a>>} /\ Leads(disk, a, x)
  BY NowSound DEF Fetch
<1>3. disk \in [Blocks -> BlockStates] /\ disk[a].log # <<>>
  BY <1>2, NowSound DEF Leads
<1>4. Chosen(disk, ref) = <<a, x>> /\ Elems(ref) = {a, x}
  <2>1. ref = <<a, x>> \/ ref = <<x, a>>
    BY <1>2
  <2> QED
    BY <1>2, <1>3, <2>1, LeaderIsChosen
<1>5. dir' = [pair |-> <<a, x>>, rev |-> disk[a].rev, off |-> Len(disk[a].log),
              erased |-> ~disk[a].torn]
  BY <1>4 DEF Fetch, Fetched
<1>6. Len(disk[a].log) \in 0 .. Capacity
  BY <1>3, NothingYet
<1>7. dir' \in DirStates /\ dir'.pair # NoPair
  BY <1>3, <1>5, <1>6 DEF DirStates, BlockStates, NoPair
<1>8. AtRest'
  <2>1. disk' = disk /\ ref' = ref /\ ref # NoPair /\ want' = want /\ pc = "idle"
    BY DEF Fetch, device
  <2>2. want = 0
    BY <2>1 DEF PairInv, AtRest
  <2>3. Active' = a /\ Spare' = x
    BY <1>5 DEF Active, Spare
  <2>4. Leads(disk, Active, Spare)'
    BY <1>2, <2>1, <2>3 DEF Leads
  <2>5. Cached'
    BY <1>2, <1>4, <1>5, <2>1, <2>3, <2>4 DEF Cached
  <2>6. dir'.off = Len(disk[a].log)
    BY <1>5
  <2> QED
    BY <2>1, <2>2, <2>3, <2>5, <2>6 DEF AtRest
<1> QED
  BY <1>1, <1>7, <1>8
     DEF PairInv, Fetch, Counted, Appending, Compacting, Linking

\* A block goes bad.
LEMMA WearKeeps ==
  ASSUME PairInv, Wear
  PROVE  PairInv'
<1>1. AllSound'
  BY NowSound, SoundKept DEF Wear
<1>2. /\ UNCHANGED <<disk, ref, images, dir, pc, want, relocated, handed, ops, acked>>
      /\ bad \subseteq bad' /\ bad' \subseteq Blocks
  BY DEF Wear, device, PairInv, Counted
<1>3. Stuck => Stuck'
  BY <1>2 DEF Stuck
<1>4. Cached => Cached'
  BY <1>2, <1>3 DEF Cached, Leads, Active, Spare
<1>5. Counted' /\ AtRest' /\ Appending' /\ Linking'
  BY <1>2, <1>4 DEF PairInv, Counted, AtRest, Appending, Linking, Leads, Without,
     Rewritten, Active, Spare, Now
<1>6. Compacting'
  BY <1>2, <1>3, <1>4
     DEF PairInv, Compacting, Leads, Without, Rewritten, Active, Spare, Follows
<1> QED
  BY <1>1, <1>5, <1>6 DEF PairInv

\* The machine stops, or the device reports an error: what is found is one of
\* the states that this may leave.
LEMMA CrashKeeps ==
  ASSUME PairInv, Crash
  PROVE  PairInv'
<1>1. PICK img \in images : disk' = img.disk /\ ref' = img.ref /\ images' = {img}
  BY DEF Crash
<1>2. acked' = acked /\ ops' = ops /\ dir' = None /\ pc' = "idle" /\ want' = 0
      /\ UNCHANGED <<bad, relocated, handed>>
  BY DEF Crash, GiveUp
<1>3. img = [disk |-> img.disk, ref |-> img.ref] /\ Sound(img)'
  BY <1>2 DEF PairInv, AllSound, Sound
<1>4. AllSound'
  BY <1>1, <1>3 DEF AllSound, Now
<1>5. None \in DirStates
  BY PairAssumption DEF None, DirStates, Revs
<1> QED
  BY <1>2, <1>4, <1>5
     DEF PairInv, Counted, AtRest, Appending, Compacting, Linking

\* An error after any part of the writes keeps the invariant.
LEMMA IOErrorKeeps ==
  ASSUME PairInv, IOError
  PROVE  PairInv'
<1>1. PICK img \in images : disk' = img.disk /\ ref' = img.ref /\ images' = images
  BY DEF IOError
<1>2. acked' = acked /\ ops' = ops /\ dir' = None /\ pc' = "idle" /\ want' = 0
      /\ UNCHANGED <<bad, relocated, handed>>
  BY DEF IOError, GiveUp
<1>3. \A i \in images : i = [disk |-> i.disk, ref |-> i.ref] /\ Sound(i)'
  BY <1>2 DEF PairInv, AllSound, Sound
<1>4. AllSound'
  BY <1>1, <1>3 DEF AllSound, Now
<1>5. None \in DirStates
  BY PairAssumption DEF None, DirStates, Revs
<1> QED
  BY <1>2, <1>4, <1>5
     DEF PairInv, Counted, AtRest, Appending, Compacting, Linking

\* The operation at hand and its directory.
LEMMA AtWork ==
  ASSUME PairInv, pc # "idle"
  PROVE  /\ want = ops /\ want \in 1 .. MaxOps /\ acked \in Nat /\ acked < want
         /\ dir \in DirStates /\ dir.rev \in Revs /\ dir.off \in 0 .. Capacity
         /\ dir.pair = <<Active, Spare>> /\ dir.pair # NoPair
         /\ Active \in Blocks /\ Spare \in Blocks
<1>1. /\ want = ops /\ acked < want /\ ops \in 0 .. MaxOps /\ acked \in 0 .. ops
      /\ dir \in DirStates /\ dir.pair # NoPair
  BY DEF PairInv, Counted
<1>2. dir.pair \in Blocks \X Blocks /\ dir.rev \in Revs /\ dir.off \in 0 .. Capacity
  BY <1>1 DEF DirStates
<1>3. dir.pair = <<Active, Spare>> /\ Active \in Blocks /\ Spare \in Blocks
  BY <1>2 DEF Active, Spare
<1> QED
  BY <1>1, <1>2, <1>3, PairAssumption

\* A commit that fails and may be tried again keeps the invariant if the
\* directory in RAM is the one a fetch finds.
LEMMA TryAgainKeeps ==
  ASSUME PairInv, TryAgain, pc # "idle", ref # NoPair, Cached,
         dir.off = Len(disk[Active].log),
         UNCHANGED <<device, bad, relocated, handed, ops, acked>>
  PROVE  PairInv'
<1>1. AllSound'
  BY NowSound, SoundKept
<1>2. /\ pc' = "idle" /\ want' = 0 /\ dir' = dir
      /\ UNCHANGED <<disk, ref, bad, relocated, handed, ops, acked>>
  BY DEF TryAgain, device
<1>3. Cached' /\ Active' = Active
  BY <1>2 DEF Cached, Leads, Active, Spare, Stuck
<1>4. Counted' /\ AtRest'
  BY <1>2, <1>3 DEF PairInv, Counted, AtRest
<1> QED
  BY <1>1, <1>2, <1>4 DEF PairInv, Appending, Compacting, Linking

\* The superblock's pair cannot move: the operation fails, and what it leaves in
\* RAM is stuck.
LEMMA FrozenKeeps ==
  ASSUME PairInv, Frozen
  PROVE  PairInv'
<1>1. /\ pc = "relocate" /\ Elems(dir.pair) \cap Superblock # {}
      /\ UNCHANGED <<device, bad, relocated, handed, ops, acked>>
      /\ GiveUp \/ TryAgain
  BY DEF Frozen
<1>2. CASE GiveUp
  <2>1. AllSound'
    BY <1>1, NowSound, SoundKept
  <2>2. None \in DirStates
    BY PairAssumption DEF None, DirStates, Revs
  <2> QED
    BY <1>1, <1>2, <2>1, <2>2
       DEF PairInv, Counted, AtRest, Appending, Compacting, Linking, GiveUp
<1>3. CASE TryAgain
  <2>1. Compacting /\ dir.pair = <<Active, Spare>>
    BY <1>1, AtWork DEF PairInv
  <2>2. ref # NoPair /\ ~relocated /\ Spare \in bad
    BY <1>1, <2>1 DEF Compacting
  <2>3. Stuck
    BY <1>1, <2>2 DEF Stuck, Spare
  <2>4. /\ Active # Spare /\ Elems(ref) = {Active, Spare}
        /\ dir.off = Len(disk[Active].log) /\ Leads(disk, Active, Spare)
    BY <1>1, <2>1, <2>2 DEF Compacting
  <2>5. Cached
    BY <2>3, <2>4 DEF Cached
  <2> QED
    BY <1>1, <1>3, <2>2, <2>4, <2>5, TryAgainKeeps
<1> QED
  BY <1>1, <1>2, <1>3

\* A full device leaves in RAM what a fetch would find, unless it keeps the
\* parent from referring to where the directory has moved.
LEMMA NoSpaceKeeps ==
  ASSUME PairInv, NoSpace, "link" \notin NoRoom
  PROVE  PairInv'
<1>1. /\ ref # NoPair /\ TryAgain /\ pc \in {"compact", "linked"}
      /\ UNCHANGED <<device, bad, relocated, handed, ops, acked>>
  BY PairAssumption DEF NoSpace
<1>2. Cached /\ dir.off = Len(disk[Active].log)
  <2>1. CASE pc = "compact"
    BY <1>1, <2>1 DEF PairInv, Compacting
  <2>2. CASE pc = "linked"
    <3>1. /\ Active # Spare /\ Rewritten(Active) /\ Leads(disk, Active, Spare)
          /\ dir.off = 1 /\ ref = dir.pair
      BY <2>2 DEF PairInv, Linking
    <3>2. dir.pair = <<Active, Spare>>
      BY <2>2, AtWork
    <3>3. Elems(ref) = {Active, Spare}
      BY <3>1, <3>2, PairElems
    <3>4. dir.rev = disk[Active].rev /\ disk[Active].log = <<want>>
      BY <3>1 DEF Rewritten
    <3>5. Len(<<want>>) = 1
      OBVIOUS
    <3> QED
      BY <3>1, <3>3, <3>4, <3>5 DEF Cached
  <2> QED
    BY <1>1, <2>1, <2>2
<1> QED
  BY <1>1, <1>2, TryAgainKeeps

\* The last commit of no block is that of an operation just begun.
LEMMA BegunWithout ==
  ASSUME PairInv, want' = ops + 1, disk' = disk, NEW b \in Blocks
  PROVE  Without(b)'
<1>1. ops \in Nat
  BY NowSound
<1>2. CASE disk[b].log = <<>>
  BY <1>2 DEF Without
<1>3. CASE disk[b].log # <<>>
  <2>1. Last(disk[b].log) \in Int /\ Last(disk[b].log) <= ops
    BY <1>3, NothingYet
  <2> QED
    BY <1>1, <2>1 DEF Without
<1> QED
  BY <1>2, <1>3

\* lfs_dir_commit begins.
LEMMA CommitKeeps ==
  ASSUME PairInv, Commit
  PROVE  PairInv'
<1>1. /\ pc = "idle" /\ ops < MaxOps /\ ops' = ops + 1 /\ want' = ops + 1
      /\ relocated' = FALSE /\ disk' = disk /\ ref' = ref /\ images' = images
      /\ bad' = bad /\ acked' = acked /\ handed' = {} /\ dir' = dir
      /\ dir # None /\ pc' \in {"append", "compact"}
  BY DEF Commit, Start, device
<1>2. ops \in 0 .. MaxOps /\ acked \in 0 .. ops /\ MaxOps \in Nat
  BY PairAssumption DEF PairInv, Counted
<1>3. AllSound'
  BY <1>1, <1>2, SoundKept DEF device
<1>4. Counted'
  <2>1. ops' \in 0 .. MaxOps /\ acked' \in 0 .. ops' /\ acked' < want'
    BY <1>1, <1>2
  <2>2. dir' \in DirStates /\ dir'.pair # NoPair
    BY <1>1 DEF PairInv, Counted
  <2>3. bad' \subseteq Blocks /\ handed' \subseteq Blocks /\ relocated' \in BOOLEAN
    BY <1>1 DEF PairInv, Counted
  <2> QED
    BY <1>1, <2>1, <2>2, <2>3 DEF Counted
<1>5. ref # NoPair /\ Cached /\ dir.off = Len(disk[Active].log)
  BY <1>1 DEF PairInv, AtRest
<1>6. \A b \in Blocks : Without(b)'
  BY <1>1, BegunWithout
<1>7. Cached' /\ Active' = Active /\ Spare' = Spare
  BY <1>1, <1>5 DEF Cached, Active, Spare, Leads, Stuck
<1>8. Active \in Blocks /\ Spare \in Blocks
  BY <1>1 DEF PairInv, Counted, DirStates, Active, Spare
<1>9. Appending'
  BY <1>1, <1>5, <1>6, <1>7, <1>8 DEF Appending
<1>10. Compacting'
  <2>1. Elems(ref) = {Active, Spare} /\ Active # Spare /\ Leads(disk, Active, Spare)
    BY <1>5 DEF Cached
  <2>2. Leads(disk, Active, Spare)'
    BY <1>1, <1>7, <2>1 DEF Leads
  <2> QED
    BY <1>1, <1>5, <1>6, <1>7, <1>8, <2>1, <2>2 DEF Compacting
<1> QED
  BY <1>1, <1>3, <1>4, <1>9, <1>10 DEF PairInv, AtRest, Linking

\* lfs_mkdir begins: the pair is one that nobody refers to.
LEMMA CreateKeeps ==
  ASSUME PairInv, Create
  PROVE  PairInv'
<1>1. PICK a, b \in Blocks \ Superblock :
        /\ a # b /\ handed' = {a, b}
        /\ dir' = [pair |-> <<a, b>>, rev |-> Continued(disk[a].rev),
                   off |-> 0, erased |-> FALSE]
  BY DEF Create
<1>2. /\ pc = "idle" /\ ops < MaxOps /\ ops' = ops + 1 /\ want' = ops + 1
      /\ relocated' = FALSE /\ disk' = disk /\ ref' = ref /\ images' = images
      /\ bad' = bad /\ acked' = acked /\ ref = NoPair /\ pc' = "compact"
  BY DEF Create, Start, device
<1>3. ops \in 0 .. MaxOps /\ acked \in 0 .. ops /\ MaxOps \in Nat
      /\ Capacity \in Nat
  BY PairAssumption DEF PairInv, Counted
<1>4. AllSound'
  BY <1>2, <1>3, SoundKept DEF device
<1>5. disk[a].rev \in Revs
  BY <1>1, NowSound DEF BlockStates
<1>6. /\ Continued(disk[a].rev) \in Revs
      /\ (Continued(disk[a].rev) - disk[a].rev) % Revisions \in {0, 1}
  BY <1>5, ContinuedNear
<1>7. dir' \in DirStates /\ dir'.pair # NoPair
  BY <1>1, <1>3, <1>6 DEF DirStates, NoPair
<1>8. Counted'
  <2>1. ops' \in 0 .. MaxOps /\ acked' \in 0 .. ops' /\ acked' < want'
    BY <1>2, <1>3
  <2>2. bad' \subseteq Blocks /\ handed' \subseteq Blocks /\ relocated' \in BOOLEAN
    BY <1>1, <1>2 DEF PairInv, Counted
  <2> QED
    BY <1>2, <1>7, <2>1, <2>2 DEF Counted
<1>9. \A c \in Blocks : Without(c)'
  BY <1>2, BegunWithout
<1>10. Active' = a /\ Spare' = b /\ dir'.rev = Continued(disk[a].rev)
  BY <1>1 DEF Active, Spare
<1>11. Elems(ref) = {}
  BY <1>2 DEF Elems, NoPair
<1>12. Elems(dir'.pair) \cap Superblock = {}
  <2>1. Elems(<<a, b>>) = {a, b}
    BY PairElems
  <2> QED
    BY <1>1, <2>1
<1>13. Compacting'
  BY <1>1, <1>2, <1>6, <1>9, <1>10, <1>11, <1>12 DEF Compacting
<1> QED
  BY <1>2, <1>4, <1>8, <1>13 DEF PairInv, AtRest, Appending, Linking

\* lfs_dir_compact counts the revision up.
LEMMA CompactKeeps ==
  ASSUME PairInv, Compact
  PROVE  PairInv'
<1>1. /\ pc = "compact" /\ pc' = "erase"
      /\ dir' = [dir EXCEPT !.rev = (@ + 1) % Revisions]
      /\ UNCHANGED <<disk, ref, images, bad, want, relocated, handed, ops, acked>>
  BY DEF Compact, device
<1>2. dir \in DirStates /\ dir.pair # NoPair
  BY <1>1 DEF PairInv, Counted
<1>3. dir'.rev = (dir.rev + 1) % Revisions /\ dir'.pair = dir.pair
      /\ dir'.off = dir.off /\ dir'.erased = dir.erased
  BY <1>1, <1>2 DEF DirStates
<1>4. Active \in Blocks /\ Spare \in Blocks
  BY <1>2 DEF DirStates, Active, Spare
<1>5. disk[Active].rev \in Revs /\ dir.rev \in Revs
  BY <1>2, <1>4, NowSound DEF BlockStates, DirStates
<1>6. dir'.rev \in Revs /\ (Follows(dir'.rev, disk[Active].rev) \/ Stuck)
  <2>1. CASE (dir.rev - disk[Active].rev) % Revisions \in {0, 1}
    BY <1>3, <1>5, <2>1, CompactFollows
  <2>2. CASE dir.rev = disk[Active].rev
    <3>1. dir.rev - disk[Active].rev = 0
      BY <1>5, <2>2 DEF Revs
    <3>2. (dir.rev - disk[Active].rev) % Revisions = 0
      BY <3>1, PairAssumption, ModSmall
    <3> QED
      BY <2>1, <3>2
  <2>3. CASE Stuck
    <3>1. Revisions \in Nat \ {0} /\ dir.rev + 1 \in Int
      BY <1>5, PairAssumption DEF Revs
    <3>2. (dir.rev + 1) % Revisions \in Revs
      BY <3>1, ModSplit DEF Revs
    <3> QED
      BY <1>3, <2>3, <3>2
  <2> QED
    BY <1>1, <2>1, <2>2, <2>3 DEF PairInv, Compacting, Cached
<1>7. dir' \in DirStates
  BY <1>1, <1>2, <1>3, <1>6 DEF DirStates
<1>8. AllSound'
  BY <1>1, NowSound, SoundKept DEF device
<1>9. Active' = Active /\ Spare' = Spare /\ Stuck' = Stuck
  BY <1>1, <1>3 DEF Active, Spare, Stuck
<1>10. Compacting'
  BY <1>1, <1>3, <1>6, <1>9 DEF PairInv, Compacting, Without, Leads, Follows
<1> QED
  BY <1>1, <1>2, <1>3, <1>7, <1>8, <1>10
     DEF PairInv, Counted, AtRest, Appending, Linking

\* The blocks that a compaction writes.
LEMMA CompactionBlocks ==
  ASSUME PairInv, pc # "idle"
  PROVE  /\ \A v \in Garbled \cup {Erased} : v \in BlockStates /\ v.log = <<>>
         /\ [rev |-> dir.rev, log |-> <<want>>, torn |-> FALSE] \in BlockStates
         /\ \A k \in DOMAIN <<want>> : <<want>>[k] <= ops
         /\ <<want>> # <<>> /\ Last(<<want>>) = want
<1>1. want = ops /\ want \in 1 .. MaxOps /\ dir.rev \in Revs
  BY AtWork
<1>2. <<>> \in Logs /\ <<want>> \in Logs
  <2>1. <<>> \in Seq(Entries) /\ Len(<<>>) = 0
    BY EmptySeq
  <2>2. <<want>> \in Seq(Entries) /\ Len(<<want>>) = 1
    BY <1>1 DEF Entries
  <2>3. 0 \in 0 .. Capacity /\ 1 \in 0 .. Capacity
    BY PairAssumption
  <2> QED
    BY <2>1, <2>2, <2>3, LogIsSeq
<1>3. \A v \in Garbled \cup {Erased} : v \in BlockStates /\ v.log = <<>>
  <2>1. JunkRevs \cup {dir.rev} \subseteq Revs /\ Revisions - 1 \in Revs
    <3>1. JunkRevs \subseteq Revs
      BY PairAssumption DEF Revs
    <3>2. Revisions - 1 \in Revs
      BY PairAssumption DEF Revs
    <3> QED
      BY <1>1, <3>1, <3>2
  <2>2. Erased \in BlockStates /\ Erased.log = <<>>
    BY <1>2, <2>1, BlockStateIs DEF Erased
  <2>3. \A v \in Garbled : v \in BlockStates /\ v.log = <<>>
    BY <1>2, <2>1, BlockStateIs DEF Garbled
  <2> QED
    BY <2>2, <2>3
<1>4. [rev |-> dir.rev, log |-> <<want>>, torn |-> FALSE] \in BlockStates
  BY <1>1, <1>2, BlockStateIs
<1>5. DOMAIN <<want>> = {1} /\ <<want>>[1] = want /\ Len(<<want>>) = 1
  OBVIOUS
<1> QED
  BY <1>1, <1>3, <1>4, <1>5 DEF Last

\* Whatever of the compaction reaches the spare block, a mount can live with.
LEMMA SpareIsSound ==
  ASSUME PairInv, pc \in {"erase", "rewrite"}, NEW v \in BlockStates,
         \/ v.log = <<>>
         \/ /\ v.rev = dir.rev /\ v.log = <<want>>
            /\ Follows(dir.rev, disk[Active].rev)
  PROVE  Sound([disk |-> [disk EXCEPT ![Spare] = v], ref |-> ref])
<1> DEFINE d == [disk EXCEPT ![Spare] = v]
<1>1. /\ disk \in [Blocks -> BlockStates] /\ Spare \in Blocks /\ Active \in Blocks
      /\ want = ops /\ want \in Nat /\ acked \in Nat /\ acked < want /\ pc # "idle"
  BY AtWork, NowSound
<1>2. /\ d \in [Blocks -> BlockStates] /\ d[Spare] = v
      /\ \A b \in Blocks \ {Spare} : d[b] = disk[b]
  BY <1>1
<1>3. \A b \in Blocks : \A k \in DOMAIN d[b].log : d[b].log[k] <= ops
  <2>1. \A b \in Blocks : \A k \in DOMAIN disk[b].log : disk[b].log[k] <= ops
    BY NowSound DEF Sound, Now
  <2>2. \A k \in DOMAIN v.log : v.log[k] <= ops
    BY <1>1, CompactionBlocks
  <2> QED
    BY <1>2, <2>1, <2>2
<1>4. ref = NoPair => acked = 0
  BY NowSound DEF Sound, Now
<1>5. /\ Active # Spare
      /\ ref # NoPair => Active \in Elems(ref)
      /\ \A b \in Elems(ref) \ {Active} : Leads(disk, Active, b)
  BY DEF PairInv, Compacting
<1>6. ASSUME ref # NoPair
      PROVE  \E a, x \in Blocks :
               /\ a # x /\ ref \in {<<a, x>>, <<x, a>>}
               /\ Leads(d, a, x) /\ Last(d[a].log) >= acked
  <2>1. PICK a, x \in Blocks :
          /\ a # x /\ ref \in {<<a, x>>, <<x, a>>} /\ Leads(disk, a, x)
          /\ Last(disk[a].log) >= acked
    BY <1>6, NowSound
  <2>2. Elems(ref) = {a, x}
    BY <2>1, PairElems
  <2>3. CASE Spare \notin Elems(ref)
    BY <1>2, <2>1, <2>2, <2>3 DEF Leads
  <2>4. CASE Spare \in Elems(ref)
    <3>1. Elems(ref) = {Active, Spare}
      BY <1>5, <1>6, <2>2, <2>4
    <3>2. Leads(disk, Active, Spare)
      BY <1>5, <3>1
    <3>3. ref \in {<<Active, Spare>>, <<Spare, Active>>}
          /\ Last(disk[Active].log) >= acked
      BY <1>1, <1>5, <1>6, <3>1, <3>2, LeaderNow
    <3>4. CASE v.log = <<>>
      <4>1. Leads(d, Active, Spare) /\ d[Active] = disk[Active]
        BY <1>1, <1>2, <1>5, <3>2, <3>4 DEF Leads
      <4> QED
        BY <1>1, <1>5, <3>3, <4>1
    <3>5. CASE /\ v.rev = dir.rev /\ v.log = <<want>>
               /\ Follows(dir.rev, disk[Active].rev)
      <4>1. <<want>> # <<>> /\ Last(<<want>>) = want
        BY <1>1, CompactionBlocks
      <4>2. /\ d[Spare].log = <<want>> /\ d[Spare].rev = dir.rev
            /\ d[Active] = disk[Active]
        BY <1>1, <1>2, <1>5, <3>5
      <4>3. Leads(d, Spare, Active)
        BY <3>5, <4>1, <4>2 DEF Leads
      <4>4. Last(d[Spare].log) >= acked
        BY <1>1, <4>1, <4>2
      <4> QED
        BY <1>1, <1>5, <3>3, <4>3, <4>4
    <3> QED
      BY <3>4, <3>5
  <2> QED
    BY <2>3, <2>4
<1> QED
  BY <1>2, <1>3, <1>4, <1>6 DEF Sound

\* The erase of the spare block keeps the invariant.
LEMMA EraseKeeps ==
  ASSUME PairInv, Erase
  PROVE  PairInv'
<1>1. /\ pc = "erase" /\ pc' = "rewrite" /\ Put(Spare, Garbled, Erased)
      /\ UNCHANGED <<bad, dir, want, relocated, handed, ops, acked>>
  BY DEF Erase, Spare
<1>2. /\ disk \in [Blocks -> BlockStates] /\ Active \in Blocks /\ Spare \in Blocks
      /\ \A v \in Garbled \cup {Erased} : v \in BlockStates /\ v.log = <<>>
  BY <1>1, AtWork, NowSound, CompactionBlocks
<1>3. AllSound'
  <2>1. \A v \in Garbled \cup {Erased} :
          Sound([disk |-> [disk EXCEPT ![Spare] = v], ref |-> ref])
    BY <1>1, <1>2, SpareIsSound
  <2>2. /\ \A v \in Garbled : Sound([disk |-> [disk EXCEPT ![Spare] = v], ref |-> ref])
        /\ Sound([disk |-> [disk EXCEPT ![Spare] = Erased], ref |-> ref])
    BY <2>1
  <2> QED
    BY <1>1, <1>2, <2>2, PutIsSound
<1>4. PICK v \in Garbled \cup {Erased, disk[Spare]} :
        disk' = [disk EXCEPT ![Spare] = v] /\ ref' = ref
  BY <1>1, <1>2, PutWrites
<1>5. Active' = Active /\ Spare' = Spare /\ dir'.rev = dir.rev
  BY <1>1 DEF Active, Spare
<1>6. /\ disk'[Spare] = v
      /\ v.log = <<>> \/ v = disk[Spare]
      /\ \A b \in Blocks \ {Spare} : disk'[b] = disk[b]
  BY <1>2, <1>4
<1>7. Compacting
  BY DEF PairInv
<1>8. \A b \in Blocks : Without(b)'
  BY <1>1, <1>2, <1>4, <1>6, <1>7 DEF Compacting, Without
<1>9. \A b \in Elems(ref) \ {Active} : Leads(disk', Active, b)
  BY <1>1, <1>2, <1>6, <1>7, RefBlocks DEF Compacting, Leads
<1>10. Stuck' = Stuck
  BY <1>1 DEF Stuck
<1>11. Compacting'
  BY <1>1, <1>2, <1>4, <1>5, <1>6, <1>7, <1>8, <1>9, <1>10
     DEF Compacting, Leads, Follows
<1> QED
  BY <1>1, <1>3, <1>11 DEF PairInv, Counted, AtRest, Appending, Linking

\* The commit that is programmed to the spare block keeps the invariant.
LEMMA RewriteKeeps ==
  ASSUME PairInv, Rewrite
  PROVE  PairInv'
<1> DEFINE whole == [rev |-> dir.rev, log |-> <<want>>, torn |-> FALSE]
<1>1. /\ pc = "rewrite" /\ pc' = "check" /\ Put(Spare, Garbled, whole)
      /\ UNCHANGED <<bad, dir, want, relocated, handed, ops, acked>>
  BY DEF Rewrite, Spare
<1>2. /\ disk \in [Blocks -> BlockStates] /\ Active \in Blocks /\ Spare \in Blocks
      /\ \A v \in Garbled : v \in BlockStates /\ v.log = <<>>
      /\ whole \in BlockStates /\ whole.rev = dir.rev /\ whole.log = <<want>>
  BY <1>1, AtWork, NowSound, CompactionBlocks
<1> HIDE DEF whole
<1>3. Compacting /\ (Spare \notin bad => Follows(dir.rev, disk[Active].rev))
  BY <1>1 DEF PairInv, Compacting, Stuck, Spare
<1>4. AllSound'
  <2>1. \A v \in Garbled : Sound([disk |-> [disk EXCEPT ![Spare] = v], ref |-> ref])
    BY <1>1, <1>2, SpareIsSound
  <2>2. Spare \in bad \/ Sound([disk |-> [disk EXCEPT ![Spare] = whole], ref |-> ref])
    BY <1>1, <1>2, <1>3, SpareIsSound
  <2> QED
    BY <1>1, <1>2, <2>1, <2>2, PutIsSound
<1>5. PICK v \in Garbled \cup {whole, disk[Spare]} :
        /\ disk' = [disk EXCEPT ![Spare] = v] /\ ref' = ref
        /\ Spare \notin bad => v = whole
        /\ Spare \in bad => v \in Garbled \cup {disk[Spare]}
  BY <1>1, <1>2, PutWrites
<1>6. /\ Active' = Active /\ Spare' = Spare /\ dir'.rev = dir.rev
      /\ Stuck' = Stuck /\ bad' = bad
  BY <1>1 DEF Active, Spare, Stuck
<1>7. disk'[Spare] = v /\ \A b \in Blocks \ {Spare} : disk'[b] = disk[b]
  BY <1>2, <1>5
<1>8. \A b \in Blocks \ {Spare} : Without(b)'
  BY <1>1, <1>2, <1>3, <1>7 DEF Compacting, Without
<1>9. CASE Spare \notin bad
  <2>1. Rewritten(Spare)'
    BY <1>1, <1>5, <1>6, <1>7, <1>9 DEF Rewritten, whole
  <2>2. Follows(dir.rev, disk[Active].rev)'
    BY <1>1, <1>2, <1>3, <1>6, <1>7, <1>9 DEF Compacting, Follows
  <2>3. Compacting'
    BY <1>1, <1>2, <1>3, <1>5, <1>6, <1>7, <1>8, <2>1, <2>2 DEF Compacting
  <2> QED
    BY <1>1, <1>4, <2>3 DEF PairInv, Counted, AtRest, Appending, Linking
<1>10. CASE Spare \in bad
  <2>1. v.log = <<>> \/ v = disk[Spare]
    BY <1>2, <1>5, <1>10
  <2>2. Without(Spare)'
    BY <1>1, <1>2, <1>3, <1>6, <1>7, <2>1 DEF Compacting, Without
  <2>3. \A b \in Elems(ref) \ {Active} : Leads(disk', Active, b)
    BY <1>1, <1>2, <1>3, <1>7, <2>1, RefBlocks DEF Compacting, Leads
  <2>4. disk'[Active] = disk[Active]
    BY <1>1, <1>2, <1>3, <1>7 DEF Compacting
  <2>5. Compacting'
    BY <1>1, <1>2, <1>3, <1>5, <1>6, <1>8, <1>10, <2>2, <2>3, <2>4
       DEF Compacting, Leads, Follows
  <2> QED
    BY <1>1, <1>4, <2>5 DEF PairInv, Counted, AtRest, Appending, Linking
<1> QED
  BY <1>9, <1>10

\* The pair goes on with another spare block.
LEMMA RelocateKeeps ==
  ASSUME PairInv, Relocate
  PROVE  PairInv'
<1>1. /\ pc = "relocate" /\ pc' = "erase" /\ relocated' = TRUE
      /\ UNCHANGED <<disk, ref, images, bad, want, ops, acked>>
      /\ Elems(dir.pair) \cap Superblock = {}
      /\ \/ dir' = dir /\ handed' = handed
         \/ \E c \in Free : /\ handed' = handed \cup {c}
                            /\ dir' = [dir EXCEPT !.pair[2] = c]
  BY DEF Relocate, device
<1>2. /\ dir \in DirStates /\ dir.pair = <<Active, Spare>>
      /\ Active \in Blocks /\ Spare \in Blocks
  BY <1>1, AtWork
<1>3. PICK c \in Blocks :
        /\ dir' = [dir EXCEPT !.pair = <<Active, c>>]
        /\ c = Spare \/ c \in Free
        /\ handed' \subseteq Blocks /\ handed \subseteq handed'
  <2>1. handed \subseteq Blocks
    BY DEF PairInv, Counted
  <2>2. CASE dir' = dir /\ handed' = handed
    <3>1. dir = [dir EXCEPT !.pair = <<Active, Spare>>]
      BY <1>2 DEF DirStates
    <3> QED
      BY <1>2, <2>1, <2>2, <3>1
  <2>3. ASSUME NEW c \in Free, handed' = handed \cup {c},
               dir' = [dir EXCEPT !.pair[2] = c]
        PROVE  c \in Blocks /\ dir' = [dir EXCEPT !.pair = <<Active, c>>]
    <3>1. [dir.pair EXCEPT ![2] = c] = <<Active, c>>
      BY <1>2
    <3> QED
      BY <2>3, <3>1 DEF Free
  <2> QED
    BY <1>1, <2>1, <2>2, <2>3
<1>4. /\ dir'.pair = <<Active, c>> /\ dir'.rev = dir.rev
      /\ dir'.off = dir.off /\ dir'.erased = dir.erased
      /\ dir' \in DirStates /\ dir'.pair # NoPair
  BY <1>2, <1>3 DEF DirStates, NoPair
<1>5. Active' = Active /\ Spare' = c
  BY <1>4 DEF Active, Spare
<1>6. Compacting
  BY DEF PairInv
<1>7. AllSound'
  BY <1>1, NowSound, SoundKept DEF device
<1>8. c # Active
  BY <1>1, <1>3, <1>6 DEF Compacting, Free
<1>9. \A b \in Blocks : Without(b)'
  BY <1>1, <1>6 DEF Compacting, Without
<1>10. \A b \in Elems(ref) \ {Active} : Leads(disk, Active, b)
  BY <1>1, <1>6 DEF Compacting
<1>11. Follows(dir.rev, disk[Active].rev)
  BY <1>1, <1>6 DEF Compacting, Stuck
<1>12. Elems(dir'.pair) \cap Superblock = {}
  <2>1. Elems(dir.pair) = {Active, Spare} /\ Elems(dir'.pair) = {Active, c}
    BY <1>2, <1>4, PairElems
  <2>2. c = Spare \/ c \notin Superblock
    BY <1>3 DEF Free
  <2> QED
    BY <1>1, <2>1, <2>2
<1>13. Compacting'
  BY <1>1, <1>3, <1>4, <1>5, <1>6, <1>8, <1>9, <1>10, <1>11, <1>12
     DEF Compacting, Leads, Follows
<1> QED
  BY <1>1, <1>3, <1>4, <1>7, <1>13
     DEF PairInv, Counted, AtRest, Appending, Linking

\* The compaction sticks, or does not.
LEMMA CheckRewriteKeeps ==
  ASSUME PairInv, CheckRewrite
  PROVE  PairInv'
<1>1. /\ pc = "check" /\ Sync /\ disk' = disk /\ ref' = ref
      /\ UNCHANGED <<bad, relocated, handed, ops>>
  BY DEF CheckRewrite, Sync
<1>2. /\ dir \in DirStates /\ dir.pair = <<Active, Spare>>
      /\ Active \in Blocks /\ Spare \in Blocks /\ dir.rev \in Revs
      /\ want = ops /\ want \in 1 .. MaxOps /\ acked \in Nat /\ acked < want
  BY <1>1, AtWork
<1>3. Compacting /\ disk \in [Blocks -> BlockStates] /\ Sound(Now)
  BY NowSound DEF PairInv
<1>4. <<want>> # <<>> /\ Last(<<want>>) = want
  BY <1>1, CompactionBlocks
<1>5. Written(Spare) <=> Rewritten(Spare)
  <2>1. Rewritten(Spare) => Written(Spare)
    BY <1>4 DEF Rewritten, Written
  <2>2. Written(Spare) => ~Without(Spare)
    BY DEF Written, Without
  <2> QED
    BY <1>1, <1>3, <2>1, <2>2 DEF Compacting
<1>6. CASE ~Written(Spare)
  <2>1. pc' = "relocate" /\ UNCHANGED <<dir, want, acked>>
    BY <1>6 DEF CheckRewrite, Spare
  <2>2. AllSound'
    <3>1. Sound(Now)'
      BY <1>1, <1>3, <2>1 DEF Sound, Now
    <3> QED
      BY <1>1, <3>1, SyncIsSound
  <2>3. Active' = Active /\ Spare' = Spare /\ Stuck' = Stuck
    BY <1>1, <2>1 DEF Active, Spare, Stuck
  <2>4. /\ Without(Spare) /\ Spare \in bad
        /\ \A b \in Elems(ref) \ {Active} : Leads(disk, Active, b)
    BY <1>1, <1>3, <1>5, <1>6 DEF Compacting
  <2>5. Compacting'
    BY <1>1, <1>3, <2>1, <2>3, <2>4 DEF Compacting, Without, Leads, Follows
  <2> QED
    BY <1>1, <2>1, <2>2, <2>5 DEF PairInv, Counted, AtRest, Appending, Linking
<1>7. CASE Written(Spare)
  <2>1. /\ dir' = [dir EXCEPT !.pair = <<Spare, Active>>, !.off = 1]
        /\ IF relocated \/ ref = NoPair
           THEN pc' = "link" /\ UNCHANGED <<want, acked>>
           ELSE pc' = "idle" /\ want' = 0 /\ acked' = want
    <3>1. ~(~Written(dir.pair[2]))
      BY <1>7 DEF Spare
    <3>2. Swap(dir.pair) = <<Spare, Active>>
      BY <1>2 DEF Swap
    <3>3. /\ dir' = [dir EXCEPT !.pair = Swap(@), !.off = 1]
          /\ IF relocated \/ ref = NoPair
             THEN pc' = "link" /\ UNCHANGED <<want, acked>>
             ELSE Succeed
      BY <3>1 DEF CheckRewrite
    <3>4. [dir EXCEPT !.pair = Swap(@), !.off = 1]
            = [dir EXCEPT !.pair = <<Spare, Active>>, !.off = 1]
      BY <3>2
    <3> QED
      BY <3>3, <3>4 DEF Succeed
  <2>2. 1 \in 0 .. Capacity
    BY PairAssumption
  <2>3. /\ dir'.pair = <<Spare, Active>> /\ dir'.off = 1 /\ dir'.rev = dir.rev
        /\ dir' \in DirStates /\ dir'.pair # NoPair
    BY <1>2, <2>1, <2>2 DEF DirStates, NoPair
  <2>4. Active' = Spare /\ Spare' = Active
    BY <2>3 DEF Active, Spare
  <2>5. /\ Rewritten(Spare) /\ disk[Spare].log = <<want>> /\ ~disk[Spare].torn
        /\ disk[Spare].rev = dir.rev
    BY <1>5, <1>7 DEF Rewritten
  <2>6. Leads(disk, Spare, Active) /\ Active # Spare
    <3>1. ~Without(Spare)
      BY <1>4, <2>5 DEF Without
    <3> QED
      BY <1>1, <1>3, <1>4, <2>5, <3>1 DEF Compacting, Leads
  <2>7. CASE relocated \/ ref = NoPair
    <3>1. pc' = "link" /\ UNCHANGED <<want, acked>>
      BY <2>1, <2>7
    <3>2. Sound(Now)'
      BY <1>1, <1>3, <3>1 DEF Sound, Now
    <3>3. AllSound'
      BY <1>1, <3>2, SyncIsSound
    <3>4. Rewritten(Active)'
      BY <1>1, <2>3, <2>4, <2>5, <3>1 DEF Rewritten
    <3>5. Leads(disk, Active, Spare)'
      BY <1>1, <2>4, <2>6 DEF Leads
    <3>6. Linking'
      BY <1>1, <2>3, <2>4, <2>6, <3>1, <3>4, <3>5 DEF Linking, Sync, Now
    <3> QED
      BY <1>1, <2>3, <3>1, <3>3, <3>6
         DEF PairInv, Counted, AtRest, Appending, Compacting
  <2>8. CASE ~(relocated \/ ref = NoPair)
    <3>1. pc' = "idle" /\ want' = 0 /\ acked' = want
      BY <2>1, <2>8
    <3>2. Elems(ref) = {Active, Spare}
      BY <1>1, <1>3, <2>8 DEF Compacting
    <3>3. ref \in {<<Spare, Active>>, <<Active, Spare>>}
      BY <1>2, <2>6, <2>8, <3>2, LeaderNow
    <3>4. Last(disk[Spare].log) = want
      BY <1>4, <2>5
    <3>5. Sound(Now)'
      BY <1>1, <1>2, <1>3, <2>6, <2>8, <3>1, <3>3, <3>4 DEF Sound, Now
    <3>6. AllSound'
      BY <1>1, <3>5, SyncIsSound
    <3>7. Leads(disk, Active, Spare)'
      BY <1>1, <2>4, <2>6 DEF Leads
    <3>8. Len(<<want>>) = 1
      OBVIOUS
    <3>9. Cached'
      BY <1>1, <2>3, <2>4, <2>5, <2>6, <3>2, <3>7 DEF Cached
    <3>10. AtRest'
      BY <1>1, <2>3, <2>4, <2>5, <2>8, <3>1, <3>8, <3>9 DEF AtRest
    <3>11. Counted'
      BY <1>1, <1>2, <2>3, <3>1 DEF PairInv, Counted
    <3> QED
      BY <3>1, <3>6, <3>10, <3>11 DEF PairInv, Appending, Compacting, Linking
  <2> QED
    BY <2>7, <2>8
<1> QED
  BY <1>6, <1>7

\* The two blocks of a directory that a commit is appended to.
LEMMA AppendTo ==
  ASSUME PairInv, pc \in {"append", "verify"}
  PROVE  /\ ref \in {<<Active, Spare>>, <<Spare, Active>>}
         /\ Active # Spare /\ Leads(disk, Active, Spare)
         /\ Last(disk[Active].log) >= acked
<1>1. Cached /\ ref # NoPair
  BY DEF PairInv, Appending
<1>2. Active \in Blocks /\ Spare \in Blocks
  BY AtWork
<1> QED
  BY <1>1, <1>2, LeaderNow DEF Cached

\* Whatever is written behind the commits of the active block, a mount can live
\* with.
LEMMA ActiveIsSound ==
  ASSUME PairInv, pc = "append", NEW v \in BlockStates,
         v.rev = disk[Active].rev, v.log # <<>>, Last(v.log) >= acked,
         \A k \in DOMAIN v.log : v.log[k] <= ops
  PROVE  Sound([disk |-> [disk EXCEPT ![Active] = v], ref |-> ref])
<1> DEFINE d == [disk EXCEPT ![Active] = v]
<1>1. disk \in [Blocks -> BlockStates] /\ Spare \in Blocks /\ Active \in Blocks
  BY AtWork, NowSound
<1>2. /\ d \in [Blocks -> BlockStates] /\ d[Active] = v
      /\ \A b \in Blocks \ {Active} : d[b] = disk[b]
  BY <1>1
<1>3. \A b \in Blocks : \A k \in DOMAIN d[b].log : d[b].log[k] <= ops
  <2>1. \A b \in Blocks : \A k \in DOMAIN disk[b].log : disk[b].log[k] <= ops
    BY NowSound DEF Sound, Now
  <2> QED
    BY <1>2, <2>1
<1>4. ref = NoPair => acked = 0
  BY NowSound DEF Sound, Now
<1>5. /\ ref \in {<<Active, Spare>>, <<Spare, Active>>}
      /\ Active # Spare /\ Leads(disk, Active, Spare)
  BY AppendTo
<1>6. Leads(d, Active, Spare)
  BY <1>1, <1>2, <1>5 DEF Leads
<1>7. Last(d[Active].log) >= acked
  BY <1>2
<1> QED
  BY <1>1, <1>2, <1>3, <1>4, <1>5, <1>6, <1>7 DEF Sound

\* The active block with a commit torn, and with the commit whole.
LEMMA TornBlock ==
  ASSUME PairInv, pc = "append"
  PROVE  LET v == Torn(disk[Active]) IN
         /\ v \in BlockStates /\ v.rev = disk[Active].rev
         /\ v.log = disk[Active].log
         /\ \A k \in DOMAIN v.log : v.log[k] <= ops
         /\ v.log # <<>> /\ Last(v.log) >= acked
<1>1. disk[Active] \in BlockStates /\ Active \in Blocks
  BY AtWork, NowSound
<1>2. \A k \in DOMAIN disk[Active].log : disk[Active].log[k] <= ops
  BY <1>1, NowSound DEF Sound, Now
<1>3. disk[Active].log # <<>> /\ Last(disk[Active].log) >= acked
  BY AppendTo DEF Leads
<1> QED
  BY <1>1, <1>2, <1>3, BlockStateIs DEF Torn

\* A block that takes one more commit stays a block.
LEMMA AppendedBlock ==
  ASSUME PairInv, pc = "append", dir.off < Capacity
  PROVE  LET v == Append1(disk[Active]) IN
         /\ v \in BlockStates /\ v.rev = disk[Active].rev
         /\ \A k \in DOMAIN v.log : v.log[k] <= ops
         /\ v.log # <<>> /\ Last(v.log) = want
         /\ Len(v.log) = dir.off + 1 /\ ~v.torn
<1> DEFINE s == disk[Active].log
           t == Append(s, want)
<1>1. disk[Active] \in BlockStates /\ Active \in Blocks
  BY AtWork, NowSound
<1>2. s \in Seq(Entries) /\ Len(s) \in 0 .. Capacity
  BY <1>1, BlockStateIs, LogIsSeq
<1>3. dir.off = Len(s)
  BY DEF PairInv, Appending
<1>4. SubSeq(s, 1, dir.off) = s
  BY <1>2, <1>3, SubSeqFull
<1>5. want \in Entries /\ want = ops /\ want \in Nat
  BY AtWork DEF Entries
<1>6. /\ t \in Seq(Entries) /\ t # <<>> /\ Len(t) = Len(s) + 1
      /\ \A i \in 1 .. Len(s) : t[i] = s[i]
      /\ t[Len(s) + 1] = want
  BY <1>2, <1>5, AppendProperties
<1>7. Len(t) \in 0 .. Capacity
  BY <1>2, <1>3, <1>6, PairAssumption
<1>8. t \in Logs
  BY <1>6, <1>7, LogIsSeq
<1>9. \A k \in DOMAIN s : s[k] <= ops
  BY <1>1, NowSound DEF Sound, Now
<1>10. DOMAIN t = 1 .. Len(s) + 1 /\ DOMAIN s = 1 .. Len(s)
  BY <1>2, <1>6, LenProperties
<1>11. \A k \in DOMAIN t : t[k] <= ops
  <2> TAKE k \in DOMAIN t
  <2>1. k \in 1 .. Len(s) \/ k = Len(s) + 1
    BY <1>2, <1>10
  <2>2. CASE k \in 1 .. Len(s)
    BY <1>6, <1>9, <1>10, <2>2
  <2>3. CASE k = Len(s) + 1
    BY <1>5, <1>6, <2>3
  <2> QED
    BY <2>1, <2>2, <2>3
<1>12. Last(t) = want
  BY <1>6 DEF Last
<1>13. Append1(disk[Active])
         = [disk[Active] EXCEPT !.log = t, !.torn = FALSE]
  BY <1>4 DEF Append1
<1> HIDE DEF s, t
<1>14. /\ Append1(disk[Active]) \in BlockStates
       /\ Append1(disk[Active]).rev = disk[Active].rev
       /\ Append1(disk[Active]).log = t
       /\ ~Append1(disk[Active]).torn
  BY <1>1, <1>8, <1>13, BlockStateIs
<1> QED
  BY <1>3, <1>6, <1>11, <1>12, <1>14

\* The commit is appended.
LEMMA AppendCommitKeeps ==
  ASSUME PairInv, AppendCommit
  PROVE  PairInv'
<1> DEFINE whole == Append1(disk[Active])
           part == Torn(disk[Active])
<1>1. /\ pc = "append" /\ pc' = "verify" /\ Put(Active, {part}, whole)
      /\ dir.off < Capacity
      /\ UNCHANGED <<bad, dir, want, relocated, handed, ops, acked>>
  BY DEF AppendCommit, Active
<1>2. /\ disk \in [Blocks -> BlockStates] /\ Active \in Blocks /\ Spare \in Blocks
      /\ want \in Nat /\ acked \in Nat /\ acked < want
  BY <1>1, AtWork, NowSound
<1>3. /\ whole \in BlockStates /\ whole.rev = disk[Active].rev
      /\ \A k \in DOMAIN whole.log : whole.log[k] <= ops
      /\ whole.log # <<>> /\ Last(whole.log) = want
      /\ Len(whole.log) = dir.off + 1 /\ ~whole.torn
  BY <1>1, AppendedBlock
<1>4. /\ part \in BlockStates /\ part.rev = disk[Active].rev
      /\ part.log = disk[Active].log
      /\ \A k \in DOMAIN part.log : part.log[k] <= ops
      /\ part.log # <<>> /\ Last(part.log) >= acked
  BY <1>1, TornBlock
<1> HIDE DEF whole, part
<1>5. AllSound'
  <2>1. Last(whole.log) >= acked
    BY <1>2, <1>3
  <2>2. /\ \A v \in {part} : Sound([disk |-> [disk EXCEPT ![Active] = v], ref |-> ref])
        /\ Sound([disk |-> [disk EXCEPT ![Active] = whole], ref |-> ref])
    BY <1>1, <1>3, <1>4, <2>1, ActiveIsSound
  <2> QED
    BY <1>1, <1>2, <2>2, PutIsSound
<1>6. PICK v \in {part, whole, disk[Active]} :
        disk' = [disk EXCEPT ![Active] = v] /\ ref' = ref
  BY <1>1, <1>2, PutWrites
<1>7. Active' = Active /\ Spare' = Spare /\ dir' = dir /\ Stuck' = Stuck
  BY <1>1 DEF Active, Spare, Stuck
<1>8. /\ disk'[Active] = v
      /\ \A b \in Blocks \ {Active} : disk'[b] = disk[b]
  BY <1>2, <1>6
<1>9. Appending
  BY DEF PairInv
<1>10. \A b \in Blocks \ {Active} : Without(b)'
  BY <1>1, <1>2, <1>8, <1>9 DEF Appending, Without
<1>11. v.rev = disk[Active].rev /\ v.log # <<>>
  BY <1>1, <1>3, <1>4, <1>6, <1>9 DEF Appending, Cached, Leads
<1>12. Cached'
  <2>1. Leads(disk, Active, Spare)'
    BY <1>1, <1>2, <1>7, <1>8, <1>9, <1>11 DEF Appending, Cached, Leads
  <2> QED
    BY <1>1, <1>6, <1>7, <1>8, <1>9, <1>11, <2>1 DEF Appending, Cached
<1>13. \/ (Without(Active) /\ dir.off = Len(disk[Active].log))'
       \/ (~Without(Active) /\ Len(disk[Active].log) = dir.off + 1
            /\ ~disk[Active].torn)'
  <2>1. CASE v = whole
    BY <1>1, <1>3, <1>7, <1>8, <2>1 DEF Without
  <2>2. CASE v \in {part, disk[Active]}
    <3>1. v.log = disk[Active].log /\ want' = want
      BY <1>1, <1>4, <2>2
    <3> QED
      BY <1>1, <1>7, <1>8, <1>9, <3>1 DEF Appending, Without
  <2> QED
    BY <1>6, <2>1, <2>2
<1>14. Appending'
  BY <1>1, <1>6, <1>7, <1>9, <1>10, <1>12, <1>13 DEF Appending
<1> QED
  BY <1>1, <1>5, <1>14 DEF PairInv, Counted, AtRest, Compacting, Linking

\* A compaction begins from the directory that a fetch would find.
LEMMA CompactBegins ==
  ASSUME pc' = "compact", ref' # NoPair, Cached', Active' \in Blocks,
         disk' \in [Blocks -> BlockStates], \A b \in Blocks : Without(b)',
         Spare' \in Blocks, ~relocated', dir'.off = Len(disk'[Active'].log)
  PROVE  Compacting'
<1>1. Elems(ref') = {Active', Spare'} /\ Active' # Spare' /\ Leads(disk, Active, Spare)'
  BY DEF Cached
<1> QED
  BY <1>1 DEF Compacting, Leads

\* The commit does not fit.
LEMMA AppendFullKeeps ==
  ASSUME PairInv, AppendFull
  PROVE  PairInv'
<1> DEFINE part == Torn(disk[Active])
<1>1. /\ pc = "append" /\ pc' = "compact"
      /\ UNCHANGED device \/ Put(Active, {}, part)
      /\ UNCHANGED <<bad, dir, want, relocated, handed, ops, acked>>
  BY DEF AppendFull, Active
<1>2. disk \in [Blocks -> BlockStates] /\ Active \in Blocks /\ Spare \in Blocks
  BY <1>1, AtWork, NowSound
<1>3. /\ part \in BlockStates /\ part.rev = disk[Active].rev
      /\ part.log = disk[Active].log
      /\ \A k \in DOMAIN part.log : part.log[k] <= ops
      /\ part.log # <<>> /\ Last(part.log) >= acked
  BY <1>1, TornBlock
<1> HIDE DEF part
<1>4. AllSound'
  <2>1. CASE UNCHANGED device
    BY <1>1, <2>1, NowSound, SoundKept
  <2>2. CASE Put(Active, {}, part)
    <3>1. Sound([disk |-> [disk EXCEPT ![Active] = part], ref |-> ref])
      BY <1>1, <1>3, ActiveIsSound
    <3>2. \A v \in {} : Sound([disk |-> [disk EXCEPT ![Active] = v], ref |-> ref])
      OBVIOUS
    <3> QED
      BY <1>1, <1>2, <2>2, <3>1, <3>2, PutIsSound
  <2> QED
    BY <1>1, <2>1, <2>2
<1>5. PICK v \in {part, disk[Active]} :
        disk' = [disk EXCEPT ![Active] = v] /\ ref' = ref
  <2>1. CASE UNCHANGED device
    <3>1. [disk EXCEPT ![Active] = disk[Active]] = disk
      BY <1>2
    <3> QED
      BY <2>1, <3>1 DEF device
  <2>2. CASE Put(Active, {}, part)
    BY <1>2, <2>2, PutWrites
  <2> QED
    BY <1>1, <2>1, <2>2
<1>6. Active' = Active /\ Spare' = Spare /\ dir' = dir /\ Stuck' = Stuck
  BY <1>1 DEF Active, Spare, Stuck
<1>7. /\ disk'[Active] = v
      /\ v.log = disk[Active].log /\ v.rev = disk[Active].rev /\ v \in BlockStates
      /\ \A b \in Blocks \ {Active} : disk'[b] = disk[b]
      /\ disk' \in [Blocks -> BlockStates]
  BY <1>2, <1>3, <1>5
<1>8. Appending
  BY DEF PairInv
<1>9. \A b \in Blocks : Without(b)'
  BY <1>1, <1>2, <1>7, <1>8 DEF Appending, Without
<1>10. Cached'
  <2>1. Leads(disk, Active, Spare)'
    BY <1>1, <1>2, <1>6, <1>7, <1>8 DEF Appending, Cached, Leads
  <2> QED
    BY <1>1, <1>5, <1>6, <1>7, <1>8, <2>1 DEF Appending, Cached
<1>11. ref' # NoPair /\ ~relocated' /\ dir'.off = Len(disk'[Active'].log)
  BY <1>1, <1>5, <1>6, <1>7, <1>8 DEF Appending
<1>12. Compacting'
  BY <1>1, <1>2, <1>6, <1>7, <1>9, <1>10, <1>11, CompactBegins
<1> QED
  BY <1>1, <1>4, <1>12 DEF PairInv, Counted, AtRest, Appending, Linking

\* The commit that was appended is read back.
LEMMA VerifyAppendKeeps ==
  ASSUME PairInv, VerifyAppend
  PROVE  PairInv'
<1>1. /\ pc = "verify" /\ Sync /\ disk' = disk /\ ref' = ref
      /\ UNCHANGED <<bad, relocated, handed, ops>>
  BY DEF VerifyAppend, Sync
<1>2. /\ dir \in DirStates /\ dir.pair = <<Active, Spare>> /\ dir.pair # NoPair
      /\ Active \in Blocks /\ Spare \in Blocks
      /\ want = ops /\ want \in 1 .. MaxOps /\ acked \in Nat /\ acked < want
  BY <1>1, AtWork
<1>3. Appending /\ disk \in [Blocks -> BlockStates] /\ Sound(Now)
  BY NowSound DEF PairInv
<1>4. Written(Active) <=> ~Without(Active)
  BY <1>1, <1>3 DEF Written, Without, Appending
<1>5. CASE ~Written(Active)
  <2>1. pc' = "compact" /\ UNCHANGED <<dir, want, acked>>
    BY <1>5 DEF VerifyAppend, Active
  <2>2. Sound(Now)'
    BY <1>1, <1>3, <2>1 DEF Sound, Now
  <2>3. AllSound'
    BY <1>1, <2>2, SyncIsSound
  <2>4. Active' = Active /\ Spare' = Spare /\ Stuck' = Stuck
    BY <1>1, <2>1 DEF Active, Spare, Stuck
  <2>5. \A b \in Blocks : Without(b)'
    BY <1>1, <1>3, <1>4, <1>5, <2>1 DEF Appending, Without
  <2>6. /\ Cached' /\ ref' # NoPair /\ ~relocated'
        /\ dir'.off = Len(disk'[Active'].log)
    BY <1>1, <1>3, <1>4, <1>5, <2>1, <2>4 DEF Appending, Cached, Leads
  <2>7. Compacting'
    BY <1>1, <1>2, <1>3, <2>1, <2>4, <2>5, <2>6, CompactBegins
  <2> QED
    BY <1>1, <2>1, <2>3, <2>7 DEF PairInv, Counted, AtRest, Appending, Linking
<1>6. CASE Written(Active)
  <2>1. /\ dir' = [dir EXCEPT !.off = @ + 1]
        /\ pc' = "idle" /\ want' = 0 /\ acked' = want
    BY <1>6 DEF VerifyAppend, Active, Succeed
  <2>2. /\ Len(disk[Active].log) = dir.off + 1 /\ ~disk[Active].torn
        /\ disk[Active].log # <<>> /\ Last(disk[Active].log) = want
    BY <1>1, <1>3, <1>4, <1>6 DEF Appending, Written
  <2>3. Len(disk[Active].log) \in 1 .. Capacity
    BY <1>2, <2>2, NothingYet
  <2>4. /\ dir'.off = dir.off + 1 /\ dir'.pair = dir.pair /\ dir'.rev = dir.rev
        /\ dir'.off \in 0 .. Capacity /\ dir' \in DirStates
    <3>1. dir'.off = dir.off + 1 /\ dir'.pair = dir.pair /\ dir'.rev = dir.rev
          /\ dir'.erased = dir.erased
      BY <1>2, <2>1 DEF DirStates
    <3>2. dir'.off \in 0 .. Capacity
      BY <2>2, <2>3, <3>1
    <3> QED
      BY <1>2, <2>1, <3>1, <3>2 DEF DirStates
  <2>5. Active' = Active /\ Spare' = Spare /\ Stuck' = Stuck
    BY <1>1, <2>4 DEF Active, Spare, Stuck
  <2>6. Cached' /\ ref' # NoPair
    BY <1>1, <1>3, <2>4, <2>5 DEF Appending, Cached, Leads
  <2>7. AtRest'
    BY <1>1, <2>1, <2>2, <2>4, <2>5, <2>6 DEF AtRest
  <2>8. /\ ref \in {<<Active, Spare>>, <<Spare, Active>>}
        /\ Active # Spare /\ Leads(disk, Active, Spare)
    BY <1>1, AppendTo
  <2>9. Sound(Now)'
    <3>1. /\ Now.disk = disk /\ Now.ref = ref
          /\ Now'.disk = disk /\ Now'.ref = ref /\ ref # NoPair
      BY <1>1, <2>6 DEF Now
    <3>2. want >= want /\ Last(disk[Active].log) >= acked'
      BY <1>2, <2>1, <2>2
    <3> QED
      BY <1>1, <1>2, <1>3, <2>8, <3>1, <3>2 DEF Sound
  <2>10. AllSound'
    BY <1>1, <2>9, SyncIsSound
  <2>11. Counted'
    <3>1. Counted
      BY DEF PairInv
    <3>2. acked' \in 0 .. ops' /\ dir'.pair # NoPair
      BY <1>1, <1>2, <2>1, <2>4
    <3> QED
      BY <1>1, <2>1, <2>4, <3>1, <3>2 DEF Counted
  <2> QED
    BY <2>1, <2>7, <2>10, <2>11 DEF PairInv, Appending, Compacting, Linking
<1> QED
  BY <1>5, <1>6

\* The parent's commit refers to the pair that has just been compacted.
LEMMA LinkKeeps ==
  ASSUME PairInv, Link
  PROVE  PairInv'
<1>1. /\ pc = "link" /\ pc' = "linked" /\ ref' = dir.pair /\ disk' = disk
      /\ images' = images \cup {[disk |-> disk, ref |-> dir.pair]}
      /\ UNCHANGED <<bad, dir, want, relocated, handed, ops, acked>>
  BY DEF Link
<1>2. /\ dir.pair = <<Active, Spare>> /\ Active \in Blocks /\ Spare \in Blocks
      /\ want = ops /\ want \in 1 .. MaxOps /\ acked \in Nat /\ acked < want
  BY <1>1, AtWork
<1>3. Linking /\ disk \in [Blocks -> BlockStates] /\ Sound(Now)
  BY NowSound DEF PairInv
<1>4. Last(disk[Active].log) = want /\ Active # Spare /\ Leads(disk, Active, Spare)
  <2>1. Last(<<want>>) = want
    BY <1>1, CompactionBlocks
  <2> QED
    BY <1>1, <1>3, <2>1 DEF Linking, Rewritten
<1>5. <<Active, Spare>> # NoPair
  BY DEF NoPair
<1>6. Sound([disk |-> disk, ref |-> dir.pair])
  <2>1. \A b \in Blocks : \A k \in DOMAIN disk[b].log : disk[b].log[k] <= ops
    BY <1>3 DEF Sound, Now
  <2>2. Last(disk[Active].log) >= acked
    BY <1>2, <1>4
  <2> QED
    BY <1>2, <1>3, <1>4, <1>5, <2>1, <2>2 DEF Sound
<1>7. AllSound'
  <2>1. \A img : Sound(img)' <=> Sound(img)
    BY <1>1 DEF Sound
  <2> QED
    BY <1>1, <1>6, <2>1 DEF PairInv, AllSound, Now
<1>8. Active' = Active /\ Spare' = Spare
  BY <1>1 DEF Active, Spare
<1>9. Linking'
  BY <1>1, <1>3, <1>8 DEF Linking, Rewritten, Leads
<1> QED
  BY <1>1, <1>7, <1>9 DEF PairInv, Counted, AtRest, Appending, Compacting

\* The operation returns 0.
LEMMA LinkedKeeps ==
  ASSUME PairInv, Linked
  PROVE  PairInv'
<1>1. /\ pc = "linked" /\ Sync /\ disk' = disk /\ ref' = ref
      /\ pc' = "idle" /\ want' = 0 /\ acked' = want
      /\ UNCHANGED <<bad, dir, relocated, handed, ops>>
  BY DEF Linked, Sync, Succeed
<1>2. /\ dir.pair = <<Active, Spare>> /\ Active \in Blocks /\ Spare \in Blocks
      /\ want = ops /\ want \in 1 .. MaxOps /\ acked \in Nat /\ acked < want
      /\ dir.pair # NoPair
  BY <1>1, AtWork
<1>3. Linking /\ disk \in [Blocks -> BlockStates] /\ Sound(Now)
  BY NowSound DEF PairInv
<1>4. /\ ref = dir.pair /\ Active # Spare /\ Leads(disk, Active, Spare)
      /\ dir.off = 1 /\ disk[Active].log = <<want>> /\ ~disk[Active].torn
      /\ disk[Active].rev = dir.rev
  BY <1>1, <1>3 DEF Linking, Rewritten
<1>5. Last(<<want>>) = want /\ Len(<<want>>) = 1
  <2>1. Last(<<want>>) = want
    BY <1>1, CompactionBlocks
  <2>2. Len(<<want>>) = 1
    OBVIOUS
  <2> QED
    BY <2>1, <2>2
<1>6. Sound(Now)'
  <2>1. /\ Now.disk = disk /\ Now.ref = ref
        /\ Now'.disk = disk /\ Now'.ref = ref /\ ref # NoPair
    BY <1>1, <1>2, <1>4 DEF Now
  <2>2. Last(disk[Active].log) >= acked'
    BY <1>1, <1>2, <1>4, <1>5
  <2> QED
    BY <1>1, <1>2, <1>3, <1>4, <2>1, <2>2 DEF Sound
<1>7. AllSound'
  BY <1>1, <1>6, SyncIsSound
<1>8. Active' = Active /\ Spare' = Spare
  BY <1>1 DEF Active, Spare
<1>9. Cached'
  <2>1. Elems(ref) = {Active, Spare}
    BY <1>2, <1>4, PairElems
  <2> QED
    BY <1>1, <1>4, <1>8, <2>1 DEF Cached, Leads
<1>10. AtRest'
  BY <1>1, <1>2, <1>4, <1>5, <1>8, <1>9 DEF AtRest
<1>11. Counted'
  BY <1>1, <1>2 DEF PairInv, Counted
<1> QED
  BY <1>1, <1>7, <1>10, <1>11 DEF PairInv, Appending, Compacting, Linking

\* Blocks from an earlier life, and the blocks of the superblock's pair as
\* lfs_format leaves them.
LEMMA LeftoverBlocks ==
  /\ \A v \in Leftovers :
       v \in BlockStates /\ v.rev \in Revs /\ \A k \in DOMAIN v.log : v.log[k] <= 0
  /\ Erased \in Leftovers /\ Erased.log = <<>>
  /\ \A r \in Revs :
       LET v == [rev |-> r, log |-> <<0>>, torn |-> FALSE] IN
       /\ v \in BlockStates /\ v.log # <<>> /\ Last(v.log) = 0
       /\ \A k \in DOMAIN v.log : v.log[k] <= 0
<1>1. <<>> \in Logs /\ <<0>> \in Logs /\ <<Stale>> \in Logs
  <2>1. <<>> \in Seq(Entries) /\ Len(<<>>) = 0
    BY EmptySeq
  <2>2. 0 \in Entries /\ Stale \in Entries
    BY PairAssumption DEF Entries
  <2>3. <<0>> \in Seq(Entries) /\ Len(<<0>>) = 1
    BY <2>2
  <2>4. <<Stale>> \in Seq(Entries) /\ Len(<<Stale>>) = 1
    BY <2>2
  <2>5. 0 \in 0 .. Capacity /\ 1 \in 0 .. Capacity
    BY PairAssumption
  <2> QED
    BY <2>1, <2>3, <2>4, <2>5, LogIsSeq
<1>2. JunkRevs \subseteq Revs /\ Revisions - 1 \in Revs
  BY PairAssumption DEF Revs
<1>3. /\ Erased \in BlockStates /\ Erased.log = <<>> /\ Erased.rev \in Revs
      /\ \A k \in DOMAIN Erased.log : Erased.log[k] <= 0
  <2>1. DOMAIN <<>> = {}
    OBVIOUS
  <2> QED
    BY <1>1, <1>2, <2>1, BlockStateIs DEF Erased
<1>4. \A r \in Revs, x \in {0, Stale} :
        LET v == [rev |-> r, log |-> <<x>>, torn |-> FALSE] IN
        /\ v \in BlockStates /\ v.log # <<>> /\ Last(v.log) = x
        /\ \A k \in DOMAIN v.log : v.log[k] <= 0
  <2> TAKE r \in Revs, x \in {0, Stale}
  <2>1. DOMAIN <<x>> = {1} /\ <<x>>[1] = x /\ Len(<<x>>) = 1 /\ <<x>> # <<>>
    OBVIOUS
  <2>2. <<x>> \in Logs /\ x <= 0
    BY <1>1 DEF Stale
  <2> QED
    BY <2>1, <2>2, BlockStateIs DEF Last
<1>5. \A v \in [rev : JunkRevs, log : {<<Stale>>}, torn : {FALSE}] :
        v \in BlockStates /\ v.rev \in Revs /\ \A k \in DOMAIN v.log : v.log[k] <= 0
  <2> TAKE v \in [rev : JunkRevs, log : {<<Stale>>}, torn : {FALSE}]
  <2>1. v.rev \in Revs /\ v = [rev |-> v.rev, log |-> <<Stale>>, torn |-> FALSE]
    BY <1>2
  <2> QED
    BY <1>4, <2>1
<1>6. Erased \in Leftovers
  BY DEF Leftovers
<1> QED
  BY <1>3, <1>4, <1>5, <1>6 DEF Leftovers

\* A file system that lfs_format has just made, or a directory yet to be made.
LEMMA PairInvInit == Init => PairInv
<1> SUFFICES ASSUME Init PROVE PairInv
  OBVIOUS
<1>1. /\ images = {Now} /\ bad = {} /\ dir = None /\ pc = "idle" /\ want = 0
      /\ relocated = FALSE /\ handed = {} /\ ops = 0 /\ acked = 0
  BY DEF Init
<1>2. None \in DirStates
  BY PairAssumption DEF None, DirStates, Revs
<1>3. Counted
  <2>1. 0 \in 0 .. MaxOps /\ 0 \in 0 .. 0
    BY PairAssumption
  <2> QED
    BY <1>1, <1>2, <2>1 DEF Counted
<1>4. 0 \in Blocks /\ 1 \in Blocks
  BY PairAssumption
<1>5. CASE ref = NoPair /\ disk \in [Blocks -> Leftovers]
  <2>1. Sound(Now)
    BY <1>1, <1>5, LeftoverBlocks DEF Sound, Now
  <2> QED
    BY <1>1, <1>3, <2>1
       DEF PairInv, AllSound, Now, AtRest, Appending, Compacting, Linking
<1> DEFINE Fresh(old) == [b \in Blocks |->
             IF b \in Superblock
             THEN [rev |-> (Continued(old.rev) + 1 + b) % Revisions,
                   log |-> <<0>>, torn |-> FALSE]
             ELSE Erased]
<1>6. ASSUME ref = <<0, 1>>, NEW old \in Leftovers, disk = Fresh(old)
      PROVE  PairInv
  <2>1. PICK c \in Revs : c = Continued(old.rev)
    BY LeftoverBlocks, ContinuedNear
  <2>2. Revisions \in Nat \ {0} /\ c \in Int
    BY PairAssumption DEF Revs
  <2>3. PICK m, n \in Int : m = c + 1 + 0 /\ n = c + 1 + 1 /\ n = m + 1
    BY <2>2
  <2>4. m % Revisions \in Revs /\ n % Revisions \in Revs
    BY <2>2, <2>3, ModSplit DEF Revs
  <2>5. Follows(n % Revisions, m % Revisions)
    <3>1. ((m % Revisions) + 1) % Revisions = (m + 1) % Revisions
      <4>1. 1 \in Int
        OBVIOUS
      <4> QED
        BY <2>2, <2>3, <4>1, ModAdd, Zenon
    <3>2. ((m % Revisions) - (m % Revisions)) % Revisions = 0
      <4>1. (m % Revisions) - (m % Revisions) = 0
        BY <2>4 DEF Revs
      <4> QED
        BY <2>2, <4>1, ModSmall
    <3>3. Follows(((m % Revisions) + 1) % Revisions, m % Revisions)
      BY <2>4, <3>2, CompactFollows
    <3> QED
      BY <2>3, <3>1, <3>3
  <2>6. /\ disk[0] = [rev |-> m % Revisions, log |-> <<0>>, torn |-> FALSE]
        /\ disk[1] = [rev |-> n % Revisions, log |-> <<0>>, torn |-> FALSE]
        /\ \A b \in Blocks \ Superblock : disk[b] = Erased
        /\ DOMAIN disk = Blocks
    BY <1>4, <1>6, <2>1, <2>3 DEF Superblock
  <2>7. \A b \in Blocks :
          disk[b] \in BlockStates /\ \A k \in DOMAIN disk[b].log : disk[b].log[k] <= 0
    <3>1. \A b \in Superblock :
            disk[b] \in BlockStates /\ \A k \in DOMAIN disk[b].log : disk[b].log[k] <= 0
      BY <2>4, <2>6, LeftoverBlocks DEF Superblock
    <3>2. \A b \in Blocks \ Superblock :
            disk[b] \in BlockStates /\ \A k \in DOMAIN disk[b].log : disk[b].log[k] <= 0
      BY <2>6, LeftoverBlocks
    <3> QED
      BY <3>1, <3>2
  <2>8. disk \in [Blocks -> BlockStates]
    BY <1>6, <2>7
  <2>9. disk[1].log # <<>> /\ Last(disk[1].log) >= 0
    BY <2>4, <2>6, LeftoverBlocks
  <2>10. Leads(disk, 1, 0)
    BY <2>5, <2>6, <2>9 DEF Leads
  <2>11. Sound(Now)
    <3>1. Now.disk = disk /\ Now.ref = <<0, 1>> /\ <<0, 1>> # NoPair
      BY <1>6 DEF Now, NoPair
    <3>2. Last(disk[1].log) >= acked /\ 1 # 0
      BY <1>1, <2>9
    <3>3. <<0, 1>> \in {<<1, 0>>, <<0, 1>>}
      OBVIOUS
    <3>4. \E a, x \in Blocks :
            /\ a # x /\ <<0, 1>> \in {<<a, x>>, <<x, a>>}
            /\ Leads(disk, a, x) /\ Last(disk[a].log) >= acked
      BY <1>4, <2>10, <3>2, <3>3
    <3> QED
      BY <1>1, <2>7, <2>8, <3>1, <3>4 DEF Sound
  <2> QED
    BY <1>1, <1>3, <2>11
       DEF PairInv, AllSound, Now, AtRest, Appending, Compacting, Linking
<1> QED
  BY <1>5, <1>6 DEF Init

\* Every step of the file system, of the device and of the machine.
LEMMA PairInvStep ==
  ASSUME "link" \notin NoRoom, PairInv, [Next]_vars
  PROVE  PairInv'
<1>1. CASE Step
  BY <1>1, AppendCommitKeeps, AppendFullKeeps, VerifyAppendKeeps, CompactKeeps,
     EraseKeeps, RewriteKeeps, CheckRewriteKeeps, FrozenKeeps, RelocateKeeps,
     LinkKeeps, LinkedKeeps
     DEF Step
<1>2. CASE Fetch \/ Commit \/ Create \/ NoSpace \/ IOError \/ Crash \/ Wear
  BY <1>2, FetchKeeps, CommitKeeps, CreateKeeps, NoSpaceKeeps, IOErrorKeeps,
     CrashKeeps, WearKeeps
<1>3. CASE UNCHANGED vars
  <2>1. AllSound'
    BY <1>3, NowSound, SoundKept DEF vars
  <2> QED
    BY <1>3, <2>1 DEF PairInv, vars, device, Counted, AtRest, Appending,
       Compacting, Linking, Cached, Leads, Without, Rewritten, Active, Spare, Now,
       Stuck
<1> QED
  BY <1>1, <1>2, <1>3 DEF Next

\* In every state of a run each image a crash may leave can be mounted and holds
\* every acknowledged commit, and the directory in RAM is what a fetch of the
\* pair would find, as far as the operation at hand has come.  This is so as long
\* as a move never ends with a full device between the new pair and the parent.
THEOREM PairInvCorrect ==
  ASSUME "link" \notin NoRoom
  PROVE  Spec => []PairInv
<1>1. Init => PairInv
  BY PairInvInit
<1>2. PairInv /\ [Next]_vars => PairInv'
  BY PairInvStep
<1> QED
  BY <1>1, <1>2, PTL DEF Spec

-----------------------------------------------------------------------------
\* What a mount finds: nothing, or the last commit of the leading block.
LEMMA ValueUnmade ==
  ASSUME NEW img, img.ref = NoPair
  PROVE  Value(img) = 0
BY DEF Value

\* What a mount finds is the last commit of the block that leads.
LEMMA ValueIsLeaders ==
  ASSUME NEW d \in [Blocks -> BlockStates], NEW a \in Blocks, NEW x \in Blocks,
         Leads(d, a, x), NEW p, p = <<a, x>> \/ p = <<x, a>>
  PROVE  Value([disk |-> d, ref |-> p]) = Last(d[a].log)
<1> DEFINE img == [disk |-> d, ref |-> p]
<1>1. img.disk = d /\ img.ref = p
  OBVIOUS
<1>2. Chosen(d, p) = <<a, x>> /\ p # NoPair /\ Fetchable(d, p)
  BY LeaderIsChosen
<1>3. Chosen(d, p)[1] = a
  BY <1>2
<1> HIDE DEF img
<1>4. Value(img) = Last(img.disk[Chosen(img.disk, img.ref)[1]].log)
  BY <1>1, <1>2 DEF Value
<1> QED
  BY <1>1, <1>3, <1>4 DEF img

\* What is found is at least what has been acknowledged.
LEMMA ValueAcked ==
  ASSUME PairInv, NEW img \in images
  PROVE  Value(img) >= acked
<1>1. Sound(img) /\ img = [disk |-> img.disk, ref |-> img.ref]
  BY DEF PairInv, AllSound
<1>2. CASE img.ref = NoPair
  BY <1>1, <1>2, ValueUnmade DEF Sound
<1>3. CASE img.ref # NoPair
  <2>1. PICK a, x \in Blocks :
          /\ a # x /\ img.ref \in {<<a, x>>, <<x, a>>}
          /\ Leads(img.disk, a, x) /\ Last(img.disk[a].log) >= acked
    BY <1>1, <1>3 DEF Sound
  <2>2. img.disk \in [Blocks -> BlockStates]
    BY <1>1 DEF Sound
  <2>3. img.ref = <<a, x>> \/ img.ref = <<x, a>>
    BY <2>1
  <2>4. Value(img) = Last(img.disk[a].log)
    BY <1>1, <2>1, <2>2, <2>3, ValueIsLeaders
  <2> QED
    BY <2>1, <2>4
<1> QED
  BY <1>2, <1>3

\* The directory in RAM at rest names the block and the place in it that
\* lfs_dir_fetch would find.
LEMMA CoherentAtRest ==
  ASSUME PairInv, pc = "idle", dir # None
  PROVE  /\ dir.pair = Fetched(disk, ref).pair /\ dir.off = Fetched(disk, ref).off
         /\ dir.rev = Fetched(disk, ref).rev \/ Stuck
<1>1. ref # NoPair /\ Cached /\ dir.off = Len(disk[Active].log)
  BY DEF PairInv, AtRest
<1>2. dir \in DirStates /\ dir.pair # NoPair
  BY DEF PairInv, Counted
<1>3. dir.pair = <<Active, Spare>> /\ Active \in Blocks /\ Spare \in Blocks
  BY <1>2 DEF DirStates, Active, Spare
<1>4. ref = <<Active, Spare>> \/ ref = <<Spare, Active>>
  BY <1>1, <1>3, LeaderNow DEF Cached
<1>5. disk \in [Blocks -> BlockStates] /\ Leads(disk, Active, Spare)
  BY <1>1, NowSound DEF Cached
<1>6. Chosen(disk, ref) = <<Active, Spare>>
  BY <1>3, <1>4, <1>5, LeaderIsChosen
<1>7. Fetched(disk, ref)
        = [pair |-> <<Active, Spare>>, rev |-> disk[Active].rev,
           off |-> Len(disk[Active].log), erased |-> ~disk[Active].torn]
  BY <1>6 DEF Fetched
<1> QED
  BY <1>1, <1>3, <1>7 DEF Cached

\* Where both blocks hold commits the leading one is one or two ahead.
LEMMA CloseInImage ==
  ASSUME NEW img, Sound(img), img.ref # NoPair,
         \A b \in Elems(img.ref) : img.disk[b].log # <<>>
  PROVE  LET o == Chosen(img.disk, img.ref) IN
         (img.disk[o[1]].rev - img.disk[o[2]].rev) % Revisions \in {1, 2}
<1>1. PICK a, x \in Blocks :
        img.ref \in {<<a, x>>, <<x, a>>} /\ Leads(img.disk, a, x)
  BY DEF Sound
<1>2. img.disk \in [Blocks -> BlockStates]
  BY DEF Sound
<1>3. img.ref = <<a, x>> \/ img.ref = <<x, a>>
  BY <1>1
<1>4. Chosen(img.disk, img.ref) = <<a, x>> /\ Elems(img.ref) = {a, x}
  BY <1>1, <1>2, <1>3, LeaderIsChosen
<1>5. Follows(img.disk[a].rev, img.disk[x].rev)
  BY <1>1, <1>4 DEF Leads
<1> QED
  BY <1>4, <1>5 DEF Follows

\* The state keeps its shape: the log of a block never outgrows it, revisions
\* stay counters of their width.
THEOREM PairTypeCorrect ==
  ASSUME "link" \notin NoRoom
  PROVE  Spec => []TypeOK
<1>1. PairInv => TypeOK
  <2> SUFFICES ASSUME PairInv PROVE TypeOK
    OBVIOUS
  <2>1. Counted /\ Now \in images
    BY DEF PairInv, AllSound
  <2>2. disk \in [Blocks -> BlockStates]
    BY NowSound
  <2>3. ref \in {NoPair} \cup Blocks \X Blocks
    <3>1. CASE ref # NoPair
      <4>1. PICK a, x \in Blocks : ref = <<a, x>> \/ ref = <<x, a>>
        BY <3>1, NowSound
      <4> QED
        BY <4>1
    <3> QED
      BY <3>1
  <2>4. want \in 0 .. MaxOps
    <3>1. CASE pc = "idle"
      BY <3>1, PairAssumption DEF PairInv, AtRest
    <3>2. CASE pc # "idle"
      BY <3>2, <2>1, PairAssumption DEF Counted
    <3> QED
      BY <3>1, <3>2
  <2>5. /\ dir.pair \in {NoPair} \cup Blocks \X Blocks
        /\ dir.rev \in Revs /\ dir.off \in 0 .. Capacity /\ dir.erased \in BOOLEAN
    BY <2>1 DEF Counted, DirStates
  <2>6. ops \in 0 .. MaxOps /\ acked \in 0 .. MaxOps
    BY <2>1, PairAssumption DEF Counted
  <2> QED
    BY <2>1, <2>2, <2>3, <2>4, <2>5, <2>6 DEF TypeOK, Counted
<1> QED
  BY <1>1, PairInvCorrect, PTL

\* Whatever moment the machine stops at, a mount finds the directory, with no
\* commit lost for which lfs_dir_commit returned 0.
THEOREM AckedSurvivesCorrect ==
  ASSUME "link" \notin NoRoom
  PROVE  Spec => []AckedSurvives
<1>1. PairInv => AckedSurvives
  BY ValueAcked DEF AckedSurvives, Durable
<1> QED
  BY <1>1, PairInvCorrect, PTL

\* Between two operations the lfs_mdir_t in RAM, also one whose commit has just
\* failed for want of room, names the block and the place in it at which
\* lfs_dir_fetch would find the directory; only the revision of a superblock's
\* pair with a bad block may be ahead.
THEOREM CacheIsCoherentCorrect ==
  ASSUME "link" \notin NoRoom
  PROVE  Spec => []CacheIsCoherent
<1>1. PairInv => CacheIsCoherent
  BY CoherentAtRest DEF CacheIsCoherent
<1> QED
  BY <1>1, PairInvCorrect, PTL

\* The revisions of a pair's two blocks never drift to where lfs_scmp mistakes
\* the older for the newer.
THEOREM RevisionsStayCloseCorrect ==
  ASSUME "link" \notin NoRoom
  PROVE  Spec => []RevisionsStayClose
<1>1. PairInv => RevisionsStayClose
  BY CloseInImage DEF RevisionsStayClose, PairInv, AllSound
<1> QED
  BY <1>1, PairInvCorrect, PTL

-----------------------------------------------------------------------------
\* The pair implements an atomic cell.

\* What a mount finds now is the last commit of the leading block.
LEMMA ValueNow ==
  ASSUME PairInv
  PROVE  /\ Value(Now) \in Durable
         /\ ref = NoPair => Value(Now) = 0
         /\ \A a, x \in Blocks :
              a # x /\ Elems(ref) = {a, x} /\ Leads(disk, a, x) =>
                Value(Now) = Last(disk[a].log)
<1>1. Now \in images /\ Now.ref = ref /\ disk \in [Blocks -> BlockStates]
  BY NowSound DEF PairInv, AllSound, Now
<1>2. ASSUME NEW a \in Blocks, NEW x \in Blocks, a # x, Elems(ref) = {a, x},
             Leads(disk, a, x)
      PROVE  Value(Now) = Last(disk[a].log)
  <2>1. ref # NoPair
    BY <1>2 DEF Elems, NoPair
  <2>2. ref = <<a, x>> \/ ref = <<x, a>>
    BY <1>2, <2>1, LeaderNow
  <2>3. Value([disk |-> disk, ref |-> ref]) = Last(disk[a].log)
    BY <1>1, <1>2, <2>2, ValueIsLeaders
  <2> QED
    BY <2>3 DEF Now
<1> QED
  BY <1>1, <1>2, ValueUnmade DEF Durable

\* What reaches the spare block leaves the old commit, or the new one.
LEMMA SpareValue ==
  ASSUME PairInv, pc \in {"erase", "rewrite"}, NEW v \in BlockStates,
         \/ v.log = <<>>
         \/ /\ v.rev = dir.rev /\ v.log = <<want>>
            /\ Follows(dir.rev, disk[Active].rev)
  PROVE  Value([disk |-> [disk EXCEPT ![Spare] = v], ref |-> ref])
           \in Durable \cup {want}
<1> DEFINE d == [disk EXCEPT ![Spare] = v]
           img == [disk |-> d, ref |-> ref]
<1>1. disk \in [Blocks -> BlockStates] /\ Spare \in Blocks /\ Active \in Blocks
  BY AtWork, NowSound
<1>2. /\ d \in [Blocks -> BlockStates] /\ d[Spare] = v
      /\ \A b \in Blocks \ {Spare} : d[b] = disk[b]
  BY <1>1
<1>3. /\ Active # Spare
      /\ ref # NoPair => Active \in Elems(ref)
      /\ \A b \in Elems(ref) \ {Active} : Leads(disk, Active, b)
  BY DEF PairInv, Compacting
<1>4. CASE ref = NoPair
  <2>1. Value(img) = 0 /\ Value(Now) = 0
    BY <1>4, ValueUnmade, ValueNow
  <2> QED
    BY <2>1, ValueNow
<1>5. CASE ref # NoPair
  <2> HIDE DEF d
  <2>1. PICK a, x \in Blocks :
          /\ a # x /\ ref \in {<<a, x>>, <<x, a>>} /\ Leads(disk, a, x)
    BY <1>5, NowSound
  <2>2. Elems(ref) = {a, x} /\ (ref = <<a, x>> \/ ref = <<x, a>>)
    BY <2>1, PairElems
  <2>3. Value(Now) = Last(disk[a].log)
    BY <2>1, <2>2, ValueNow
  <2>4. CASE Spare \notin Elems(ref)
    <3>1. Leads(d, a, x) /\ d[a] = disk[a]
      BY <1>2, <2>1, <2>2, <2>4 DEF Leads
    <3>2. Value(img) = Last(d[a].log)
      BY <1>2, <2>2, <3>1, ValueIsLeaders
    <3> QED
      BY <2>3, <3>1, <3>2, ValueNow DEF d
  <2>5. CASE Spare \in Elems(ref)
    <3>1. Elems(ref) = {Active, Spare} /\ Leads(disk, Active, Spare)
      BY <1>3, <1>5, <2>2, <2>5
    <3>2. a = Active /\ x = Spare
      BY <1>1, <2>1, <2>2, <3>1, OneLeads
    <3>3. CASE v.log = <<>>
      <4>1. Leads(d, Active, Spare) /\ d[Active] = disk[Active]
        BY <1>1, <1>2, <1>3, <3>1, <3>3 DEF Leads
      <4>2. Value(img) = Last(d[Active].log)
        BY <1>1, <1>2, <2>2, <3>2, <4>1, ValueIsLeaders
      <4> QED
        BY <2>3, <3>2, <4>1, <4>2, ValueNow DEF d
    <3>4. CASE /\ v.rev = dir.rev /\ v.log = <<want>>
               /\ Follows(dir.rev, disk[Active].rev)
      <4>1. <<want>> # <<>> /\ Last(<<want>>) = want
        BY CompactionBlocks
      <4>2. Leads(d, Spare, Active)
        BY <1>1, <1>2, <1>3, <3>4, <4>1 DEF Leads
      <4>3. Value(img) = Last(d[Spare].log)
        BY <1>1, <1>2, <2>2, <3>2, <4>2, ValueIsLeaders
      <4> QED
        BY <1>2, <3>4, <4>1, <4>3 DEF d
    <3> QED
      BY <3>3, <3>4
  <2> QED
    BY <2>4, <2>5
<1> QED
  BY <1>4, <1>5

\* What is written behind the commits of the active block is found if it is a
\* commit.
LEMMA ActiveValue ==
  ASSUME PairInv, pc = "append", NEW v \in BlockStates,
         v.rev = disk[Active].rev, v.log # <<>>
  PROVE  /\ Value([disk |-> [disk EXCEPT ![Active] = v], ref |-> ref]) = Last(v.log)
         /\ Last(disk[Active].log) \in Durable
<1> DEFINE d == [disk EXCEPT ![Active] = v]
<1>1. disk \in [Blocks -> BlockStates] /\ Spare \in Blocks /\ Active \in Blocks
  BY AtWork, NowSound
<1>2. /\ d \in [Blocks -> BlockStates] /\ d[Active] = v
      /\ \A b \in Blocks \ {Active} : d[b] = disk[b]
  BY <1>1
<1> HIDE DEF d
<1>3. /\ ref = <<Active, Spare>> \/ ref = <<Spare, Active>>
      /\ Active # Spare /\ Leads(disk, Active, Spare)
  BY AppendTo
<1>4. Leads(d, Active, Spare)
  BY <1>1, <1>2, <1>3 DEF Leads
<1>5. Value([disk |-> d, ref |-> ref]) = Last(d[Active].log)
  BY <1>1, <1>2, <1>3, <1>4, ValueIsLeaders
<1>6. Elems(ref) = {Active, Spare}
  BY <1>3, PairElems
<1> QED
  BY <1>1, <1>2, <1>3, <1>5, <1>6, ValueNow DEF d

\* Part of a commit reaches the device: the cell may hold the new value.
LEMMA Reaches ==
  ASSUME PairInv, pc # "idle", UNCHANGED <<want, acked, ops>>,
         images \subseteq images',
         \A img \in images' \ images : Value(img) \in Durable \cup {want}
  PROVE  [Cell!Next]_(Cell!vars)
<1>1. want # 0
  BY AtWork
<1>2. Durable' = Durable \/ Durable' = Durable \cup {want}
  BY DEF Durable
<1> QED
  BY <1>1, <1>2 DEF Cell!Next, Cell!Reach, Cell!vars

\* After a write a crash leaves what it might have left before, or the new contents.
LEMMA PutReaches ==
  ASSUME PairInv, pc # "idle", UNCHANGED <<want, acked, ops>>,
         NEW b \in Blocks, NEW parts, NEW whole, Put(b, parts, whole),
         \A v \in parts : Value([disk |-> [disk EXCEPT ![b] = v], ref |-> ref])
                            \in Durable \cup {want},
         b \in bad \/ Value([disk |-> [disk EXCEPT ![b] = whole], ref |-> ref])
                         \in Durable \cup {want}
  PROVE  [Cell!Next]_(Cell!vars)
<1>1. disk \in [Blocks -> BlockStates]
  BY NowSound
<1>2. PICK v \in parts \cup {whole, disk[b]} :
        /\ b \notin bad => v = whole
        /\ b \in bad => v \in parts \cup {disk[b]}
        /\ images' = images \cup
             {[disk |-> [disk EXCEPT ![b] = x], ref |-> ref] : x \in parts \cup {v}}
  BY <1>1, PutWrites
<1>3. [disk EXCEPT ![b] = disk[b]] = disk
  BY <1>1
<1>4. \A x \in parts \cup {v} :
        Value([disk |-> [disk EXCEPT ![b] = x], ref |-> ref])
          \in Durable \cup {want}
  BY <1>2, <1>3, ValueNow DEF Now
<1>5. \A img \in images' \ images : Value(img) \in Durable \cup {want}
  BY <1>2, <1>4
<1> QED
  BY <1>2, <1>5, Reaches

\* A sync leaves one of the values: if it is the new one the update may return.
LEMMA Settles ==
  ASSUME PairInv, Sync, ops' = ops
  PROVE  /\ UNCHANGED <<want, acked>> => [Cell!Next]_(Cell!vars)
         /\ Succeed /\ pc # "idle" /\ Value(Now) = want => [Cell!Next]_(Cell!vars)
<1>1. Durable' = {Value(Now)}
  BY DEF Sync, Durable
<1>2. Value(Now) \in Durable
  BY ValueNow
<1>3. pc # "idle" => want # 0
  BY AtWork
<1>4. ASSUME UNCHANGED <<want, acked>> PROVE [Cell!Next]_(Cell!vars)
  <2>1. \A u : u \in Durable => {u} \in (SUBSET Durable) \ {{}}
    OBVIOUS
  <2>2. Durable' \in (SUBSET Durable) \ {{}}
    BY <1>1, <1>2, <2>1
  <2> QED
    BY <1>4, <2>2 DEF Cell!Next, Cell!Settle
<1>5. Succeed /\ pc # "idle" /\ Value(Now) = want => [Cell!Next]_(Cell!vars)
  BY <1>1, <1>3 DEF Cell!Next, Cell!Return, Succeed
<1> QED
  BY <1>4, <1>5

\* An error or a crash ends the update, and leaves some of the values.
LEMMA Aborts ==
  ASSUME PairInv, want' = 0, UNCHANGED <<acked, ops>>,
         \/ images' = images
         \/ \E img \in images : images' = {img}
  PROVE  [Cell!Next]_(Cell!vars)
<1>1. Value(Now) \in Durable
  BY ValueNow
<1>2. \A u : u \in Durable => {u} \in (SUBSET Durable) \ {{}}
  OBVIOUS
<1>3. Durable' \in (SUBSET Durable) \ {{}}
  <2>1. CASE images' = images
    <3>1. Durable' = Durable
      BY <2>1 DEF Durable
    <3> QED
      BY <1>1, <3>1
  <2>2. CASE \E img \in images : images' = {img}
    <3>1. PICK img \in images : images' = {img}
      BY <2>2
    <3>2. Durable' = {Value(img)} /\ Value(img) \in Durable
      BY <3>1 DEF Durable
    <3> QED
      BY <1>2, <3>2
  <2> QED
    BY <2>1, <2>2
<1> QED
  BY <1>3 DEF Cell!Next, Cell!Abort

\* An operation of the directory begins an update.
LEMMA Begins ==
  ASSUME PairInv, Start
  PROVE  [Cell!Next]_(Cell!vars)
<1>1. /\ pc = "idle" /\ ops < MaxOps /\ ops' = ops + 1 /\ want' = ops'
      /\ images' = images /\ acked' = acked
  BY DEF Start, device
<1>2. want = 0
  BY <1>1 DEF PairInv, AtRest
<1>3. Durable' = Durable
  BY <1>1 DEF Durable
<1> QED
  BY <1>1, <1>2, <1>3 DEF Cell!Next, Cell!Begin

\* An append is a step of the cell.
LEMMA AppendRefines ==
  ASSUME PairInv, AppendCommit \/ AppendFull
  PROVE  [Cell!Next]_(Cell!vars)
<1>1. /\ pc = "append" /\ UNCHANGED <<want, acked, ops>>
      /\ \/ UNCHANGED device
         \/ Put(Active, {}, Torn(disk[Active]))
         \/ /\ dir.off < Capacity
            /\ Put(Active, {Torn(disk[Active])}, Append1(disk[Active]))
  BY DEF AppendCommit, AppendFull, Active
<1>2. Active \in Blocks
  BY <1>1, AtWork
<1>3. Value([disk |-> [disk EXCEPT ![Active] = Torn(disk[Active])], ref |-> ref])
        \in Durable \cup {want}
  <2>1. /\ Torn(disk[Active]) \in BlockStates
        /\ Torn(disk[Active]).rev = disk[Active].rev
        /\ Torn(disk[Active]).log = disk[Active].log
        /\ Torn(disk[Active]).log # <<>>
    BY <1>1, TornBlock
  <2> QED
    BY <1>1, <2>1, ActiveValue
<1>4. CASE UNCHANGED device
  BY <1>1, <1>4, Reaches DEF device
<1>5. CASE Put(Active, {}, Torn(disk[Active]))
  BY <1>1, <1>2, <1>3, <1>5, PutReaches
<1>6. CASE /\ dir.off < Capacity
           /\ Put(Active, {Torn(disk[Active])}, Append1(disk[Active]))
  <2>1. /\ Append1(disk[Active]) \in BlockStates
        /\ Append1(disk[Active]).rev = disk[Active].rev
        /\ Append1(disk[Active]).log # <<>>
        /\ Last(Append1(disk[Active]).log) = want
    BY <1>1, <1>6, AppendedBlock
  <2>2. Value([disk |-> [disk EXCEPT ![Active] = Append1(disk[Active])],
               ref |-> ref]) \in Durable \cup {want}
    BY <1>1, <2>1, ActiveValue
  <2> QED
    BY <1>1, <1>2, <1>3, <1>6, <2>2, PutReaches
<1> QED
  BY <1>1, <1>4, <1>5, <1>6

\* The erase of the spare block and the write to it are steps of the cell.
LEMMA SpareRefines ==
  ASSUME PairInv, Erase \/ Rewrite
  PROVE  [Cell!Next]_(Cell!vars)
<1> DEFINE whole == [rev |-> dir.rev, log |-> <<want>>, torn |-> FALSE]
<1>1. /\ pc \in {"erase", "rewrite"} /\ UNCHANGED <<want, acked, ops>>
      /\ Put(Spare, Garbled, Erased) \/ Put(Spare, Garbled, whole)
  BY DEF Erase, Rewrite, Spare
<1>2. Spare \in Blocks
  BY <1>1, AtWork
<1>3. /\ \A v \in Garbled \cup {Erased} : v \in BlockStates /\ v.log = <<>>
      /\ whole \in BlockStates /\ whole.rev = dir.rev /\ whole.log = <<want>>
  BY <1>1, CompactionBlocks
<1>4. Spare \in bad \/ Follows(dir.rev, disk[Active].rev)
  BY <1>1 DEF PairInv, Compacting, Stuck, Spare
<1> HIDE DEF whole
<1>5. /\ \A v \in Garbled : Value([disk |-> [disk EXCEPT ![Spare] = v], ref |-> ref])
                            \in Durable \cup {want}
      /\ Value([disk |-> [disk EXCEPT ![Spare] = Erased], ref |-> ref])
           \in Durable \cup {want}
  BY <1>1, <1>3, SpareValue
<1>6. Spare \in bad \/ Value([disk |-> [disk EXCEPT ![Spare] = whole], ref |-> ref])
                         \in Durable \cup {want}
  BY <1>1, <1>3, <1>4, SpareValue
<1>7. CASE Put(Spare, Garbled, Erased)
  BY <1>1, <1>2, <1>5, <1>7, PutReaches
<1>8. CASE Put(Spare, Garbled, whole)
  BY <1>1, <1>2, <1>5, <1>6, <1>8, PutReaches
<1> QED
  BY <1>1, <1>7, <1>8

\* The read-back of an append is a step of the cell.
LEMMA VerifyRefines ==
  ASSUME PairInv, VerifyAppend
  PROVE  [Cell!Next]_(Cell!vars)
<1>1. pc = "verify" /\ Sync /\ ops' = ops /\ Active \in Blocks /\ Spare \in Blocks
  BY AtWork DEF VerifyAppend
<1>2. CASE UNCHANGED <<want, acked>>
  BY <1>1, <1>2, Settles
<1>3. CASE Succeed /\ Written(Active)
  <2>1. Active # Spare /\ Leads(disk, Active, Spare) /\ Elems(ref) = {Active, Spare}
    BY <1>1, AppendTo, PairElems
  <2>2. Value(Now) = want
    BY <1>1, <1>3, <2>1, ValueNow DEF Written
  <2> QED
    BY <1>1, <1>3, <2>2, Settles
<1> QED
  BY <1>2, <1>3 DEF VerifyAppend, Active

\* The read-back of a compaction is a step of the cell.
LEMMA CheckRefines ==
  ASSUME PairInv, CheckRewrite
  PROVE  [Cell!Next]_(Cell!vars)
<1>1. pc = "check" /\ Sync /\ ops' = ops /\ Active \in Blocks /\ Spare \in Blocks
  BY AtWork DEF CheckRewrite
<1>2. \/ UNCHANGED <<want, acked>>
      \/ Succeed /\ Written(Spare) /\ ~relocated /\ ref # NoPair
  BY DEF CheckRewrite, Spare
<1>3. CASE UNCHANGED <<want, acked>>
  BY <1>1, <1>3, Settles
<1>4. CASE Succeed /\ Written(Spare) /\ ~relocated /\ ref # NoPair
  <2>1. Active # Spare /\ Elems(ref) = {Active, Spare}
    BY <1>1, <1>4 DEF PairInv, Compacting
  <2>2. ~Without(Spare)
    BY <1>4 DEF Written, Without
  <2>3. Rewritten(Spare) /\ Follows(dir.rev, disk[Active].rev)
    BY <1>1, <2>2 DEF PairInv, Compacting
  <2>4. Leads(disk, Spare, Active)
    BY <1>1, <1>4, <2>3 DEF Leads, Rewritten, Written
  <2>5. Value(Now) = want
    BY <1>1, <1>4, <2>1, <2>4, ValueNow DEF Written
  <2> QED
    BY <1>1, <1>4, <2>5, Settles
<1> QED
  BY <1>2, <1>3, <1>4

\* The commit of the parent is a step of the cell.
LEMMA LinkRefines ==
  ASSUME PairInv, Link \/ Linked
  PROVE  [Cell!Next]_(Cell!vars)
<1>1. pc \in {"link", "linked"} /\ Active \in Blocks /\ Spare \in Blocks
      /\ dir.pair = <<Active, Spare>>
  BY AtWork DEF Link, Linked
<1>2. Active # Spare /\ Leads(disk, Active, Spare) /\ Last(disk[Active].log) = want
  <2>1. Last(<<want>>) = want
    BY <1>1, CompactionBlocks
  <2> QED
    BY <1>1, <2>1 DEF PairInv, Linking, Rewritten
<1>3. CASE Link
  <2>1. /\ images' = images \cup {[disk |-> disk, ref |-> dir.pair]}
        /\ UNCHANGED <<want, acked, ops>>
    BY <1>3 DEF Link
  <2>2. Value([disk |-> disk, ref |-> dir.pair]) = want
    BY <1>1, <1>2, NowSound, ValueIsLeaders
  <2> QED
    BY <1>1, <2>1, <2>2, Reaches
<1>4. CASE Linked
  <2>1. Sync /\ Succeed /\ ops' = ops /\ pc = "linked"
    BY <1>4 DEF Linked
  <2>2. ref = dir.pair
    BY <2>1 DEF PairInv, Linking
  <2>3. Elems(ref) = {Active, Spare}
    BY <1>1, <2>2, PairElems
  <2>4. Value(Now) = want
    BY <1>1, <1>2, <2>3, ValueNow
  <2> QED
    BY <1>1, <2>1, <2>4, Settles
<1> QED
  BY <1>3, <1>4

\* The first state is one of the cell's.
LEMMA CellInit ==
  ASSUME Init
  PROVE  Cell!Init
<1>1. PairInv /\ images = {Now} /\ ops = 0 /\ acked = 0 /\ want = 0
  BY PairInvInit DEF Init
<1>2. Durable = {Value(Now)}
  BY <1>1 DEF Durable
<1>3. Value(Now) = 0
  <2>1. CASE ref = NoPair
    BY <1>1, <2>1, ValueNow
  <2>2. CASE ref # NoPair
    <3>1. PICK a, x \in Blocks :
            /\ a # x /\ ref \in {<<a, x>>, <<x, a>>} /\ Leads(disk, a, x)
            /\ Last(disk[a].log) >= 0
      BY <1>1, <2>2, NowSound
    <3>2. Elems(ref) = {a, x}
      BY <3>1, PairElems
    <3>3. Last(disk[a].log) \in Int /\ Last(disk[a].log) <= 0
      BY <1>1, <3>1, NothingYet DEF Leads
    <3>4. Last(disk[a].log) = 0
      BY <3>1, <3>3
    <3> QED
      BY <1>1, <3>1, <3>2, <3>4, ValueNow
  <2> QED
    BY <2>1, <2>2
<1> QED
  BY <1>1, <1>2, <1>3 DEF Cell!Init

\* Every step of the pair is one of the cell's, or none.
LEMMA CellStep ==
  ASSUME PairInv, [Next]_vars
  PROVE  [Cell!Next]_(Cell!vars)
<1>1. CASE AppendCommit \/ AppendFull \/ VerifyAppend \/ Erase \/ Rewrite
             \/ CheckRewrite \/ Link \/ Linked
  BY <1>1, AppendRefines, VerifyRefines, SpareRefines, CheckRefines, LinkRefines
<1>2. CASE Fetch \/ Wear \/ Compact \/ Relocate \/ UNCHANGED vars
  <2>1. images' = images /\ UNCHANGED <<want, acked, ops>>
    BY <1>2 DEF Fetch, Wear, Compact, Relocate, vars, device
  <2>2. Durable' = Durable
    BY <2>1 DEF Durable
  <2> QED
    BY <2>1, <2>2 DEF Cell!vars
<1>3. CASE Commit \/ Create
  BY <1>3, Begins DEF Commit, Create
<1>4. CASE Crash \/ IOError \/ Frozen \/ NoSpace
  <2>1. /\ want' = 0 /\ UNCHANGED <<acked, ops>>
        /\ images' = images \/ \E img \in images : images' = {img}
    BY <1>4 DEF Crash, IOError, Frozen, NoSpace, GiveUp, TryAgain, device
  <2> QED
    BY <2>1, Aborts
<1> QED
  BY <1>1, <1>2, <1>3, <1>4 DEF Next, Step

\* The pair of blocks implements an atomic cell: between the moment the update
\* begins and the moment lfs_dir_commit returns, a crash leaves the old contents
\* of the directory or the new ones.
THEOREM UpdatesAtomicallyCorrect ==
  ASSUME "link" \notin NoRoom
  PROVE  Spec => UpdatesAtomically
<1>1. Init => Cell!Init
  BY CellInit
<1>2. PairInv /\ [Next]_vars => [Cell!Next]_(Cell!vars)
  BY CellStep
<1> QED
  BY <1>1, <1>2, PairInvCorrect, PTL DEF Spec, UpdatesAtomically, Cell!Spec

=============================================================================
