--------------------------- MODULE LfsFilePromise ---------------------------
(***************************************************************************)
(* An open file keeps its promise (AtomicFile) on a device without bad     *)
(* blocks, through the errors that Mild allows: every step keeps the       *)
(* invariant Facts of LfsFileFacts, and changes what the entry and the     *)
(* handle stand for as the abstract file allows.  Here are the steps that  *)
(* change the contents of the handle: the cut of a truncate, the blocks    *)
(* and the cells of a write, and the start.                                *)
(***************************************************************************)
EXTENDS LfsFileFacts

-----------------------------------------------------------------------------
\* The truncate

\* A list that is cut where a block does not begin.
LEMMA CutIs ==
  ASSUME NEW d, NEW h, NEW o \in Seq(Data), List(d, h, o), NEW n \in Nat, n < Len(o),
         n # 0 => n % BlockSize # 0
  PROVE  List(d, Find(d, h, Len(o), n), SubSeq(o, 1, n))
<1>1. PICK m \in Nat \ {0} : m = Len(o)
  <2>1. Len(o) \in Nat
    OBVIOUS
  <2> QED
    BY <2>1
<1>2. /\ Index(n) \in Nat /\ Index(m - 1) \in Nat /\ Index(n) <= Index(m - 1)
      /\ Find(d, h, m, n) = Before(d, h, Index(m - 1) - Index(n))
  BY <1>1, FindBack
<1>3. PICK q, k, j : q = Index(m - 1) /\ k = Index(n) /\ j = Index(m - 1) - Index(n)
  OBVIOUS
<1>4. q \in Nat /\ k \in Nat /\ j \in Nat /\ q - j = k
  BY <1>2, <1>3
<1>5. h \in Blocks /\ Holds(d, h, q, o)
  BY <1>1, <1>3 DEF List
<1>6. Before(d, h, j) \in Blocks
  <2>1. Stores(d, Before(d, h, q - Index(n)), n, o[n + 1])
    BY <1>1, <1>5 DEF Holds
  <2> QED
    BY <1>3, <2>1 DEF Stores
<1>7. PICK w : w = SubSeq(o, 1, n)
  OBVIOUS
<1>8. w \in Seq(Data) /\ Len(w) = n /\ Holds(d, h, q, w)
  <2>1. n \in 0 .. Len(o)
    BY <1>1
  <2> QED
    BY <1>5, <1>7, <2>1, HoldsPart
<1>9. \A p \in Nat : p < Len(w) => Index(p) <= q - j
  BY <1>3, <1>4, <1>8, IndexGrows
<1>10. Holds(d, Before(d, h, j), k, w)
  <2>1. q \in Int
    BY <1>4
  <2>2. Holds(d, Before(d, h, j), q - j, w)
    BY <1>4, <1>8, <1>9, <2>1, HoldsBack
  <2> QED
    BY <1>4, <2>2
<1>11. CASE n = 0
  <2>1. \A p \in Nat : ~(p < Len(w))
    BY <1>8, <1>11
  <2> QED
    BY <1>1, <1>2, <1>3, <1>6, <1>7, <2>1 DEF List, Holds
<1>12. CASE n # 0
  <2>1. PICK t \in 0 .. BlockSize - 1 : n = Start(k) + t /\ n % BlockSize = t
    BY <1>3, PlaceOf
  <2>2. t - 1 \in 0 .. BlockSize - 1 /\ n - 1 \in Nat /\ n - 1 = Start(k) + (t - 1)
    <3>1. t # 0 /\ Start(k) \in Int /\ BlockSize \in Nat
      BY <1>4, <1>12, <2>1, StartIs, FileAssumption
    <3>2. PICK a \in Int : a = Start(k)
      BY <3>1
    <3>3. n = a + t /\ t \in Nat /\ t # 0 /\ n \in Nat /\ n # 0
      BY <1>12, <2>1, <3>1, <3>2
    <3>4. n - 1 \in Nat /\ n - 1 = a + (t - 1)
      BY ONLY <3>2, <3>3
    <3>5. t - 1 \in 0 .. BlockSize - 1
      BY <2>1, <3>1
    <3> QED
      BY <3>2, <3>4, <3>5
  <2>3. Index(n - 1) = k
    BY <1>4, <2>2, PlaceIs
  <2> QED
    BY <1>1, <1>2, <1>3, <1>6, <1>7, <1>8, <1>10, <2>3 DEF List
<1> QED
  BY <1>11, <1>12

\* What is behind the new size is cut off, and nothing else.
LEMMA CutKeeps ==
  ASSUME FileInv, FileInv', Facts, \A n \in Cuts : n # 0 => n % BlockSize # 0, Cut
  PROVE  Facts' /\ Promised
<1>1. /\ calls # <<>> /\ Top.op = "truncate" /\ Top.at = "cut" /\ Continue("back")
      /\ file' = [file EXCEPT
           !.ctz.head = IF file.inline THEN Inline
                        ELSE Find(disk, file.ctz.head, file.ctz.size, Top.n),
           !.ctz.size = Top.n, !.dirty = TRUE, !.reading = TRUE]
      /\ UNCHANGED <<entry, disk, flight, ops>>
  BY DEF Cut, At, Kept, alloc
<1>2. /\ FrameOK(Top, Len(Content)) /\ Framed(Top) /\ Top = calls[Len(calls)]
      /\ Len(calls) \in DOMAIN calls /\ flight \subseteq Blocks /\ Len(calls) \in Nat
      /\ IsStack(calls) /\ file.open /\ Last(calls) = Top /\ AtFlushed /\ Waits(Top, Size, W)
  BY <1>1, FactsTop, TopIs
<1>3. Len(calls) = 1 /\ DOMAIN calls = {1}
  <2>1. Len(calls) = 1
    BY <1>1, <1>2, Bottom
  <2>2. DOMAIN calls = 1 .. 1
    BY <1>2, <2>1, StackIs
  <2> QED
    BY <2>1, <2>2
<1>4. ~file.writing /\ Top.n < Size /\ Top.n \in Cuts /\ Top.n \in Nat
  BY <1>1, <1>2 DEF AtFlushed, Waits, FrameOK, Framed
<1>5. /\ DOMAIN file = FileFields /\ DOMAIN file.ctz = {"head", "size", "buf"}
      /\ file.ctz.size \in Nat /\ Size = file.ctz.size
  BY <1>4 DEF FileInv, Shape, Size
<1>6. PICK n, h : /\ n = Top.n
                  /\ h = IF file.inline THEN Inline
                         ELSE Find(disk, file.ctz.head, file.ctz.size, Top.n)
  OBVIOUS
<1>7. file' = [file EXCEPT !.ctz.head = h, !.ctz.size = n, !.dirty = TRUE, !.reading = TRUE]
  BY <1>1, <1>6
<1>8. /\ file'.open = file.open /\ file'.ctz.head = h /\ file'.ctz.size = n
      /\ file'.ctz.buf = file.ctz.buf /\ file'.inline = file.inline
      /\ file'.writing = file.writing /\ file'.pos = file.pos /\ file'.off = file.off
      /\ file'.dirty /\ file'.block = file.block /\ file'.cur = file.cur
      /\ file'.erred = file.erred
  BY <1>5, <1>7 DEF FileFields
<1>9. Meant(Contents(entry), Content)
  BY FactsMeant
<1>10. PICK s, c : s = Contents(entry) /\ c = Content
  OBVIOUS
<1>11. n \in Nat /\ n < file.ctz.size /\ Len(c) = file.ctz.size /\ c \in Seq(Data)
  <2>1. ~Mid
    BY <1>1 DEF Mid, At
  <2> QED
    BY <1>2, <1>4, <1>5, <1>6, <1>10, <2>1, FactsMeant
<1>12. PICK w : w = SubSeq(c, 1, n)
  OBVIOUS
<1>13. w \in Seq(Data) /\ Len(w) = n
  BY <1>11, <1>12
<1>14. Size' = n /\ ~W'
  BY <1>4, <1>8 DEF Size, W
<1>15. Meant(s, w)'
  <2>1. CASE file.inline
    <3>1. Size <= Len(file.ctz.buf) /\ c = SubSeq(file.ctz.buf, 1, Size)
      BY <1>2, <1>9, <1>10, <2>1 DEF Meant
    <3>2. PICK t \in Seq(Data) : t = file.ctz.buf
      BY DEF Facts, Typed
    <3>3. PICK m \in Nat : m = Size /\ m <= Len(t) /\ n < m /\ c = SubSeq(t, 1, m)
      BY <1>5, <1>11, <3>1, <3>2
    <3>4. w = SubSeq(t, 1, n) /\ n <= Len(t)
      BY <1>11, <1>12, <3>2, <3>3
    <3> QED
      BY <1>1, <1>2, <1>8, <1>9, <1>10, <1>13, <1>14, <2>1, <3>2, <3>4 DEF Meant
  <2>2. CASE ~file.inline
    <3>1. OldIs(c, file.ctz, disk) /\ file.ctz.head # Inline
      BY <1>2, <1>4, <1>9, <1>10, <2>2 DEF Meant, FileInv, Pending
    <3>2. List(disk, h, w)
      <4>1. List(disk, file.ctz.head, c) /\ n < Len(c)
        BY <1>11, <3>1 DEF OldIs
      <4>2. n # 0 => n % BlockSize # 0
        BY <1>4, <1>6
      <4>3. PICK g : g = file.ctz.head
        OBVIOUS
      <4>4. List(disk, Find(disk, g, Len(c), n), w)
        BY <1>11, <1>12, <4>1, <4>2, <4>3, CutIs
      <4> QED
        BY <1>6, <1>11, <2>2, <4>3, <4>4
    <3>3. h # Inline
      BY <3>2, FileAssumption DEF List, Inline
    <3>4. OldIs(w, file'.ctz, disk')
      BY <1>1, <1>8, <1>13, <3>2, <3>3 DEF OldIs
    <3> QED
      BY <1>1, <1>2, <1>4, <1>8, <1>9, <1>10, <1>13, <1>14, <2>2, <3>4 DEF Meant
  <2> QED
    BY <2>1, <2>2
<1>16. Contents(entry)' = Contents(entry) /\ Content' = w /\ Meaning'
  BY <1>10, <1>15, NextMeant
<1>17. Typed'
  <2>1. n \in Sizes
    BY <1>2, <1>6 DEF FrameOK
  <2> QED
    BY <1>1, <1>4, <1>8, <1>14, <2>1 DEF Facts, Typed
<1>18. PICK f : f = [Top EXCEPT !.at = "back"]
  OBVIOUS
<1>19. Alike(f, Top) /\ f.at = "back" /\ f.op = "truncate"
  BY <1>1, <1>2, <1>18 DEF Alike, Framed
<1>20. calls' = [calls EXCEPT ![Len(calls)] = f] /\ ret' = ret
  BY <1>1, <1>2, <1>18 DEF Continue, GoTo
<1>21. Turn(calls, f, calls')
  BY <1>1, <1>2, <1>20, TurnShape
<1>22. SameTask(calls, calls')
  BY <1>1, <1>2, <1>19, <1>21, TurnTask DEF Alike
<1>23. DOMAIN calls' = {1} /\ calls'[1] = f /\ Top' = f /\ calls' # <<>>
  BY <1>3, <1>21 DEF Turn, Top
<1>24. FrameOK(f, Len(Content'))
  <2>1. FrameOK(Top, Len(Content))
    BY <1>2
  <2> QED
    BY <1>1, <1>6, <1>13, <1>16, <1>19, <2>1 DEF FrameOK, Alike
<1>25. Stacked(calls', file'.pos, Len(Content'), More', Coming')
  BY <1>19, <1>23, <1>24, SingleStacked DEF Outermost
<1>26. Nest' /\ Ends' /\ Clean'
  BY <1>8, <1>19, <1>23, <1>25 DEF Nest, Ends, Clean, Running
<1>27. Reading'
  BY <1>4, <1>8, <1>19, <1>23 DEF Reading, Running
<1>28. Position' = Position /\ Task' = Task
  <2>1. PositionOf(calls', file'.pos) = PositionOf(calls, file.pos)
    BY <1>2, <1>8, <1>22, SavedSame DEF SameTask
  <2>2. TaskOf(calls') = TaskOf(calls)
    BY <1>22 DEF SameTask
  <2> QED
    BY <2>1, <2>2, PositionTask, NextTask
<1>29. Task.op = "truncate" /\ Task.n = n
  BY <1>1, <1>2, <1>3, <1>6, TaskIs
<1>30. Promise!Cut
  BY <1>8, <1>10, <1>11, <1>12, <1>16, <1>20, <1>28, <1>29 DEF Promise!Cut
<1> QED
  BY <1>16, <1>17, <1>26, <1>27, <1>30 DEF Facts, Promised, Promise!Next

\* A function that has called another one.
LEMMA DoubleStacked ==
  ASSUME NEW f, NEW g, NEW p, NEW l, NEW z, NEW x, FrameOK(f, l), FrameOK(g, l),
         f.op \in Outermost, Fits(f, g, p, l, z, x), NEW c, c = <<f, g>>
  PROVE  /\ Stacked(c, p, l, z, x)
         /\ DOMAIN c = 1 .. 2 /\ c # <<>> /\ c[1] = f /\ c[2] = g /\ Last(c) = g
<1>1. DOMAIN c = 1 .. 2 /\ c # <<>> /\ c[1] = f /\ c[2] = g /\ Last(c) = g
  <2>1. /\ Len(<<f, g>>) = 2 /\ DOMAIN <<f, g>> = 1 .. 2 /\ <<f, g>>[1] = f
        /\ <<f, g>>[2] = g /\ <<f, g>> # <<>>
    OBVIOUS
  <2>2. Last(<<f, g>>) = g
    BY <2>1 DEF Last
  <2> QED
    BY <2>1, <2>2
<1>2. f.op # "fill"
  BY DEF Outermost
<1>3. ASSUME NEW k \in DOMAIN c
      PROVE  /\ FrameOK(c[k], l) /\ (c[k].op = "fill" => k = 2)
             /\ k > 1 => Fits(c[k - 1], c[k], p, l, z, x)
  <2>1. CASE k = 1
    BY <1>1, <1>2, <2>1
  <2>2. CASE k = 2
    BY <1>1, <2>2
  <2> QED
    BY <1>1, <2>1, <2>2
<1> QED
  BY <1>1, <1>3 DEF Stacked

\* lfs_file_truncate grows the file, cuts it, or does nothing.
LEMMA TruncateBeginKeeps ==
  ASSUME FileInv, FileInv', Facts, TruncateBegin
  PROVE  Facts' /\ Promised
<1>1. /\ calls # <<>> /\ Top.op = "truncate" /\ Top.at = "begin"
      /\ UNCHANGED <<entry, disk, file, flight, ops, ret>>
  BY DEF TruncateBegin, At, Kept, alloc
<1>2. /\ FrameOK(Top, Len(Content)) /\ Framed(Top) /\ Top = calls[Len(calls)]
      /\ Len(calls) \in DOMAIN calls /\ flight \subseteq Blocks /\ Len(calls) \in Nat
      /\ IsStack(calls) /\ file.open /\ ops \in 0 .. MaxOps /\ file.erred \in BOOLEAN
  BY <1>1, FactsTop
<1>3. Len(calls) = 1 /\ DOMAIN calls = {1} /\ calls[1] = Top
  <2>1. Len(calls) = 1
    BY <1>1, <1>2, Bottom
  <2>2. DOMAIN calls = 1 .. 1
    BY <1>2, <2>1, StackIs
  <2> QED
    BY <1>2, <2>1, <2>2
<1>4. Len(Content) = Size /\ Size \in Nat /\ Content \in Seq(Data)
  <2>1. ~Mid
    BY <1>1 DEF Mid, At
  <2> QED
    BY <1>2, <2>1, FactsMeant
<1>5. PICK a : a = CASE Top.n < Size -> "cut"
                     [] Top.n > Size -> "grow"
                     [] OTHER -> "back"
  OBVIOUS
<1>6. Top.n \in Nat /\ file.pos \in Sizes /\ file.pos \in Nat /\ Top.back = -1
  BY <1>1, <1>2 DEF Framed, Facts, Typed, FileInv, Shape, FrameOK
<1>7. /\ a \in {"cut", "grow", "back"}
      /\ a = "cut" <=> Top.n < Size
      /\ a = "grow" <=> Top.n > Size
      /\ a = "back" => Top.n = Size
  BY <1>4, <1>5, <1>6
<1>8. PICK f : f = [Top EXCEPT !.back = file.pos, !.at = a]
  OBVIOUS
<1>9. f.op = "truncate" /\ f.at = a /\ f.n = Top.n /\ f.data = Top.data /\ f.back = file.pos
  BY <1>1, <1>2, <1>8 DEF Framed
<1>10. calls' = CASE Top.n < Size -> <<f, Frame("flush")>>
                  [] Top.n > Size /\ file.pos # Size ->
                       <<f, [Frame("seek") EXCEPT !.n = Size]>>
                  [] OTHER -> <<f>>
  BY <1>5, <1>8 DEF TruncateBegin
<1>11. FrameOK(f, Len(Content)) /\ f.op \in Outermost
  <2>1. FrameOK(Top, Len(Content))
    BY <1>2
  <2>2. file.pos \in -1 .. MaxSize
    BY <1>6 DEF Sizes
  <2>3. a = "grow" => Len(Content) <= Top.n
    BY <1>4, <1>6, <1>7
  <2>4. a = "back" => Len(Content) = Top.n
    BY <1>4, <1>6, <1>7
  <2> QED
    BY <1>1, <1>7, <1>9, <2>1, <2>2, <2>3, <2>4 DEF FrameOK, Outermost
<1>12. Size \in Sizes
  <2>1. file.ctz.size \in Sizes /\ file.pos \in Sizes
    BY DEF Facts, Typed
  <2> QED
    BY <2>1 DEF Size, Larger
<1>13. UNCHANGED Substance
  BY <1>1 DEF Substance
<1>14. Contents(entry)' = Contents(entry) /\ Content' = Content
  BY <1>2, <1>13, Unmoved
<1>15. PICK g : g = IF Top.n < Size THEN Frame("flush") ELSE [Frame("seek") EXCEPT !.n = Size]
  OBVIOUS
<1>16. /\ g.op \in {"flush", "seek"} /\ g.at = "begin" /\ g.data = <<>> /\ g.back = -1
       /\ g.n \in Sizes /\ (g.op = "seek" => g.n = Size)
  <2>1. 0 \in Sizes
    BY FileAssumption DEF Sizes
  <2> QED
    BY <1>12, <1>15, <2>1 DEF Frame
<1>17. FrameOK(g, Len(Content)) /\ Fits(f, g, file.pos, Len(Content), More, Coming)
  <2>1. <<>> \in Seq(Data) /\ -1 \in -1 .. MaxSize
    BY FileAssumption
  <2>2. a = "grow" => Top.n > Size
    BY <1>7
  <2> QED
    BY <1>4, <1>7, <1>9, <1>16, <2>1, <2>2 DEF FrameOK, Fits
<1>18. CASE Top.n < Size \/ (Top.n > Size /\ file.pos # Size)
  <2>1. calls' = <<f, g>>
    <3>1. CASE Top.n < Size
      <4>1. g = Frame("flush") /\ ~(Top.n > Size)
        BY <1>4, <1>6, <1>15, <3>1
      <4> QED
        BY <1>10, <3>1, <4>1
    <3>2. CASE ~(Top.n < Size)
      <4>1. Top.n > Size /\ file.pos # Size
        BY <1>18, <3>2
      <4>2. g = [Frame("seek") EXCEPT !.n = Size]
        BY <1>15, <3>2
      <4> QED
        BY <1>10, <3>2, <4>1, <4>2
    <3> QED
      BY <3>1, <3>2
  <2>2. /\ Stacked(calls', file.pos, Len(Content), More, Coming)
        /\ DOMAIN calls' = 1 .. 2 /\ calls' # <<>> /\ calls'[1] = f /\ calls'[2] = g
        /\ Last(calls') = g
    BY <1>11, <1>17, <2>1, DoubleStacked
  <2>3. Top' = g
    BY <2>2 DEF Top
  <2>4. Ends'
    BY <1>16, <2>3 DEF Ends, Running
  <2>5. file.reading => \A k \in DOMAIN calls' : ~Running(calls'[k])
    BY <1>9, <1>16, <2>2 DEF Running
  <2>6. Facts'
    BY <1>1, <1>2, <1>3, <1>9, <1>13, <2>2, <2>4, <2>5, UnmovedFacts
  <2>7. 1 \in Saved(calls') /\ Saved(calls') \subseteq Nat
    BY <1>6, <1>9, <2>2 DEF Saved
  <2>8. PositionOf(calls', file.pos) = file.pos
    <3>1. \A k \in Saved(calls') : 1 <= k
      BY <2>2 DEF Saved
    <3> QED
      BY <1>9, <2>2, <2>7, <3>1, SavedFirst
  <2>9. PositionOf(calls, file.pos) = file.pos
    BY <1>3, <1>6, SavedNone
  <2>10. TaskOf(calls') = TaskOf(calls)
    BY <1>1, <1>3, <1>9, <2>2 DEF TaskOf
  <2>11. Promised
    BY <1>1, <1>14, <2>8, <2>9, <2>10, Stays
  <2> QED
    BY <2>6, <2>11
<1>19. CASE ~(Top.n < Size \/ (Top.n > Size /\ file.pos # Size))
  <2>1. calls' = <<f>>
    BY <1>4, <1>6, <1>10, <1>19
  <2>2. DOMAIN calls' = {1} /\ calls' # <<>> /\ calls'[1] = f /\ Last(calls') = f
    <3>1. Len(<<f>>) = 1 /\ <<f>>[1] = f /\ DOMAIN <<f>> = {1} /\ <<f>> # <<>>
      OBVIOUS
    <3>2. Last(<<f>>) = f
      BY <3>1 DEF Last
    <3> QED
      BY <2>1, <3>1, <3>2
  <2>3. Top' = f
    BY <2>2 DEF Top
  <2>4. Stacked(calls', file.pos, Len(Content), More, Coming)
    BY <1>11, <2>2, SingleStacked
  <2>5. a \in {"grow", "back"} /\ (a = "grow" => file.pos = Size)
    BY <1>7, <1>19
  <2>6. Ends'
    BY <1>1, <1>4, <1>9, <1>14, <2>3, <2>5 DEF Ends, Running
  <2>7. file.reading => \A k \in DOMAIN calls' : ~Running(calls'[k])
    BY <1>9, <2>2 DEF Running
  <2>8. Facts'
    BY <1>1, <1>2, <1>3, <1>9, <1>13, <2>2, <2>4, <2>6, <2>7, UnmovedFacts
  <2>9. 1 \in Saved(calls') /\ Saved(calls') \subseteq Nat
    BY <1>6, <1>9, <2>2 DEF Saved
  <2>10. PositionOf(calls', file.pos) = file.pos
    <3>1. \A k \in Saved(calls') : 1 <= k
      BY <2>2 DEF Saved
    <3> QED
      BY <1>9, <2>2, <2>9, <3>1, SavedFirst
  <2>11. PositionOf(calls, file.pos) = file.pos
    BY <1>3, <1>6, SavedNone
  <2>12. TaskOf(calls') = TaskOf(calls)
    BY <1>1, <1>3, <1>9, <2>2 DEF TaskOf
  <2>13. Promised
    BY <1>1, <1>14, <2>10, <2>11, <2>12, Stays
  <2> QED
    BY <2>8, <2>13
<1> QED
  BY <1>18, <1>19

-----------------------------------------------------------------------------
\* A write begins

\* The handle stands at p, where the write is to begin; it has not moved if it was
\* being written to.
LEMMA WriteStarts ==
  ASSUME FileInv, FileInv', Facts, file.open, UNCHANGED <<entry, disk, ops, flight>>,
         NEW p, p \in {file.pos, file.ctz.size}, file.writing => p = file.pos,
         file' = [file EXCEPT !.reading = FALSE, !.pos = p]
  PROVE  /\ Contents(entry)' = Contents(entry) /\ Content' = Content /\ Meaning'
         /\ Typed' /\ Clean' /\ p \in Sizes
         /\ file'.open = file.open /\ file'.ctz = file.ctz /\ file'.pos = p
         /\ file'.writing = file.writing /\ file'.erred = file.erred /\ ~file'.reading
<1>1. DOMAIN file = FileFields
  BY DEF FileInv, Shape
<1>2. /\ file'.open = file.open /\ file'.ctz = file.ctz /\ file'.inline = file.inline
      /\ file'.writing = file.writing /\ file'.pos = p /\ file'.off = file.off
      /\ file'.block = file.block /\ file'.cur = file.cur /\ file'.dirty = file.dirty
      /\ file'.erred = file.erred /\ file'.reading = FALSE
  BY <1>1 DEF FileFields
<1>3. p \in Sizes
  BY DEF Facts, Typed
<1>4. Typed'
  <2>1. W' = W
    BY <1>2 DEF W
  <2>2. file'.inline /\ file'.writing => file'.off = file'.pos
    BY <1>2 DEF Facts, Typed
  <2> QED
    BY <1>2, <1>3, <2>1, <2>2 DEF Facts, Typed
<1>5. Contents(entry)' = Contents(entry) /\ Content' = Content /\ Meaning'
  <2>1. CASE file.writing
    <3>1. UNCHANGED Substance
      BY <1>2, <2>1 DEF Substance
    <3> QED
      BY <3>1, Unmoved
  <2>2. CASE ~file.writing
    BY <1>2, <2>2, Idle
  <2> QED
    BY <2>1, <2>2
<1>6. Clean'
  BY <1>2, <1>5 DEF Facts, Clean
<1> QED
  BY <1>2, <1>3, <1>4, <1>5, <1>6

\* A write of another function begins where the handle stands, and there is room
\* for it and no hole to be filled.
LEMMA InnerWrite ==
  ASSUME FileInv, Facts, At("write", "begin"), Len(calls) > 1
  PROVE  /\ file.pos + Len(Top.data) <= MaxSize
         /\ file.append => file.pos >= file.ctz.size
         /\ file.writing \/ file.pos <= file.ctz.size
<1>1. calls # <<>> /\ Top.op = "write" /\ Top.at = "begin" /\ ~Mid
  BY DEF At, Mid
<1>2. PICK f : f = calls[Len(calls) - 1]
  OBVIOUS
<1>3. /\ Called(f, Top) /\ FrameOK(f, Len(Content)) /\ FrameOK(Top, Len(Content))
      /\ Fits(f, Top, file.pos, Len(Content), More, Coming)
      /\ Len(calls) - 1 \in DOMAIN calls /\ file.open
  BY <1>1, <1>2, FactsTop
<1>4. /\ f.op \in {"fill", "flush", "truncate"} /\ (f.op = "flush" => f.at = "copy")
  BY <1>1, <1>3 DEF Called
<1>5. /\ file.pos \in Nat /\ file.ctz.size \in Nat /\ file.pos <= MaxSize
      /\ file.ctz.size <= MaxSize /\ MaxSize \in Nat
  BY FileAssumption DEF Facts, Typed, Sizes
<1>6. Top.data \in Seq(Data) /\ Len(Top.data) \in Nat
  BY <1>3 DEF FrameOK
<1>7. CASE f.op = "flush"
  <2>1. W
    BY <1>2, <1>3, <1>4, <1>7 DEF FileInv, Positions, Waits
  <2>2. Standing
    BY <2>1 DEF FileInv, Positions, Busy, W
  <2>3. CASE Top.data = <<>>
    <3>1. Len(Top.data) = 0
      BY <2>3
    <3> QED
      BY <1>5, <2>1, <2>2, <3>1 DEF Standing, W
  <2>4. CASE Top.data # <<>>
    <3>1. More /\ Top.data = <<Coming>>
      BY <1>1, <1>3, <1>7, <2>4 DEF Fits
    <3>2. file.pos < file.ctz.size /\ Len(Top.data) = 1
      BY <3>1 DEF More
    <3> QED
      BY <1>5, <2>1, <2>2, <3>2 DEF Standing, W
  <2> QED
    BY <2>3, <2>4
<1>8. CASE f.op \in {"fill", "truncate"}
  <2>1. /\ file.pos = Len(Content)
        /\ file.pos + Len(Top.data) <= IF f.op = "fill" THEN f.back ELSE f.n
    BY <1>1, <1>3, <1>8 DEF Fits
  <2>2. f.back \in -1 .. MaxSize /\ f.n \in 0 .. MaxSize
    BY <1>3 DEF FrameOK, Sizes
  <2>3. file.ctz.size <= Len(Content) /\ Len(Content) = Size
    BY <1>1, <1>3, FactsMeant
  <2>4. ~file.writing => Size = file.ctz.size
    BY DEF Size
  <2> QED
    BY <1>5, <1>6, <2>1, <2>2, <2>3, <2>4
<1> QED
  BY <1>4, <1>7, <1>8

\* A write in append mode begins at the end; one behind the end fills the hole first.
LEMMA WriteBeginKeeps ==
  ASSUME FileInv, FileInv', Facts, WriteBegin
  PROVE  Facts' /\ Promised
<1>1. /\ calls # <<>> /\ Top.op = "write" /\ Top.at = "begin" /\ ~Mid
      /\ UNCHANGED <<entry, disk, bad, ops, window, flight>>
  BY DEF WriteBegin, At, Kept, alloc, Mid
<1>2. /\ FrameOK(Top, Len(Content)) /\ Framed(Top) /\ Top = calls[Len(calls)]
      /\ Len(calls) \in DOMAIN calls /\ Len(calls) \in Nat /\ flight \subseteq Blocks
      /\ IsStack(calls) /\ file.open /\ Last(calls) = Top
      /\ Stacked(calls, file.pos, Len(Content), More, Coming) /\ file.erred \in BOOLEAN
  BY <1>1, FactsTop
<1>3. /\ file.pos \in Nat /\ file.ctz.size \in Nat /\ file.pos \in Sizes /\ MaxSize \in Nat
      /\ DOMAIN file = FileFields /\ file.ctz.size \in Sizes
      /\ file.pos <= MaxSize /\ file.ctz.size <= MaxSize
  BY FileAssumption DEF Facts, Typed, Sizes, FileInv, Shape
<1>4. Top.data \in Seq(Data) /\ Len(Top.data) \in Nat /\ Top.back = -1 /\ Top.n \in Sizes
  BY <1>1, <1>2 DEF FrameOK
<1>5. PICK p : p = IF file.append /\ file.pos < file.ctz.size THEN file.ctz.size ELSE file.pos
  OBVIOUS
<1>6. p \in {file.pos, file.ctz.size} /\ p \in Nat
  BY <1>3, <1>5
<1>7. file.writing => p = file.pos
  <2>1. SUFFICES ASSUME file.writing PROVE p = file.pos
    OBVIOUS
  <2>2. file.append => file.pos >= file.ctz.size
    BY <2>1 DEF FileInv, Positions, Busy, Standing
  <2> QED
    BY <1>3, <1>5, <2>2
<1>8. Len(calls) > 1 => /\ p = file.pos /\ p + Len(Top.data) <= MaxSize
                        /\ file.writing \/ p <= file.ctz.size
  <2>1. SUFFICES ASSUME Len(calls) > 1
                 PROVE  /\ p = file.pos /\ p + Len(Top.data) <= MaxSize
                        /\ file.writing \/ p <= file.ctz.size
    OBVIOUS
  <2>2. /\ file.pos + Len(Top.data) <= MaxSize
        /\ file.append => file.pos >= file.ctz.size
        /\ file.writing \/ file.pos <= file.ctz.size
    BY <1>1, <2>1, InnerWrite DEF At
  <2>3. p = file.pos
    BY <1>3, <1>5, <2>2
  <2> QED
    BY <2>2, <2>3
<1>9. Len(calls) # 1 => Len(calls) > 1
  <2>1. PICK n : n = Len(calls)
    OBVIOUS
  <2>2. n \in Nat /\ n # 0
    BY <1>1, <1>2, <2>1, StackIs
  <2> QED
    BY <2>1, <2>2
<1>10. Len(Content) = Size /\ (~file.writing => Len(Content) = file.ctz.size)
  <2>1. ~file.writing => Size = file.ctz.size
    BY DEF Size
  <2> QED
    BY <1>1, <1>2, <2>1, FactsMeant
<1>11. Len(calls) = 1 => /\ Position = file.pos /\ DOMAIN calls = {1} /\ calls[1] = Top
                         /\ Task = [op |-> "write", n |-> Len(Top.data)]
                         /\ PositionOf(calls, file.pos) = file.pos
  BY <1>1, <1>4, OuterIs, PositionTask
<1>12. PICK a : a = [file EXCEPT !.reading = FALSE, !.pos = p]
  OBVIOUS
<1>13. \/ /\ p + Len(Top.data) > MaxSize
          /\ file' = a /\ Return(Error)
       \/ /\ p + Len(Top.data) <= MaxSize
          /\ ~file.writing /\ p > file.ctz.size
          /\ file' = [a EXCEPT !.pos = file.ctz.size]
          /\ Enter("check", [Frame("fill") EXCEPT !.back = p])
       \/ /\ p + Len(Top.data) <= MaxSize
          /\ file.writing \/ p <= file.ctz.size
          /\ file' = a /\ Continue("check")
  BY <1>5, <1>12 DEF WriteBegin
<1>14. CASE p + Len(Top.data) > MaxSize /\ file' = a /\ Return(Error)
  <2>1. Len(calls) = 1
    BY <1>3, <1>4, <1>6, <1>8, <1>9, <1>14
  <2>2. /\ Contents(entry)' = Contents(entry) /\ Content' = Content /\ Meaning'
        /\ Typed' /\ Clean' /\ p \in Sizes /\ file'.pos = p /\ file'.erred = file.erred
        /\ ~file'.reading
    BY <1>1, <1>2, <1>6, <1>7, <1>12, <1>14, WriteStarts
  <2>3. calls' = Front(calls) /\ ret' = Error
    BY <1>14, <2>1 DEF Return
  <2>4. calls' = <<>>
    <3>1. Pops(calls, calls')
      BY <1>1, <1>2, <2>3, Popped
    <3> QED
      BY <2>1, <3>1 DEF Pops
  <2>5. Position' = p /\ Task' = Promise!NoTask
    BY <2>2, <2>4, NoneIs
  <2>6. Stacked(calls', file'.pos, Len(Content'), More', Coming')
    BY <2>4, SingleStacked
  <2>7. Nest' /\ Ends' /\ Reading'
    BY <2>2, <2>4, <2>6 DEF Nest, Ends, Reading
  <2>8. Promise!Fail
    <3>1. Task # Promise!NoTask /\ Task.op # "close"
      BY <1>11, <2>1 DEF Promise!NoTask
    <3>2. file'.erred \in BOOLEAN
      BY <1>2, <2>2
    <3> QED
      BY <1>6, <2>2, <2>3, <2>5, <3>1, <3>2 DEF Promise!Fail, Promise!Error, Error
  <2> QED
    BY <2>2, <2>7, <2>8 DEF Facts, Promised, Promise!Next
<1>15. CASE /\ p + Len(Top.data) <= MaxSize
            /\ ~file.writing /\ p > file.ctz.size
            /\ file' = [a EXCEPT !.pos = file.ctz.size]
            /\ Enter("check", [Frame("fill") EXCEPT !.back = p])
  <2>1. Len(calls) = 1 /\ p = file.pos
    BY <1>3, <1>5, <1>6, <1>8, <1>9, <1>15
  <2>2. PICK z : z = file.ctz.size
    OBVIOUS
  <2>3. file' = [file EXCEPT !.reading = FALSE, !.pos = z]
    BY <1>3, <1>12, <1>15, <2>2 DEF FileFields
  <2>4. /\ Contents(entry)' = Contents(entry) /\ Content' = Content /\ Meaning'
        /\ Typed' /\ Clean' /\ file'.pos = z /\ file'.erred = file.erred
        /\ ~file'.reading /\ z \in Sizes
    BY <1>1, <1>2, <1>15, <2>2, <2>3, WriteStarts
  <2>5. PICK f, g : f = [Top EXCEPT !.at = "check"] /\ g = [Frame("fill") EXCEPT !.back = p]
    OBVIOUS
  <2>6. /\ f.op = "write" /\ f.at = "check" /\ f.n = Top.n /\ f.data = Top.data
        /\ f.back = -1
    BY <1>1, <1>2, <1>4, <2>5 DEF Framed
  <2>7. /\ g.op = "fill" /\ g.at = "begin" /\ g.n = 0 /\ g.data = <<>> /\ g.back = p
    BY <2>5 DEF Frame
  <2>8. p \in 0 .. MaxSize /\ z <= p /\ Len(Content) = z /\ 0 \in Sizes
        /\ p + Len(f.data) <= MaxSize
    BY <1>3, <1>6, <1>10, <1>15, <2>1, <2>2, <2>6 DEF Sizes
  <2>9. FrameOK(f, Len(Content)) /\ FrameOK(g, Len(Content)) /\ f.op \in Outermost
    <3>1. <<>> \in Seq(Data) /\ -1 \in -1 .. MaxSize
      BY <1>3
    <3>2. p \in -1 .. MaxSize /\ p # -1
      BY <2>8
    <3>3. FrameOK(f, Len(Content))
      BY <1>4, <2>6, <3>1 DEF FrameOK
    <3>4. FrameOK(g, Len(Content))
      BY <2>7, <2>8, <3>1, <3>2 DEF FrameOK
    <3> QED
      BY <2>6, <3>3, <3>4 DEF Outermost
  <2>10. Fits(f, g, z, Len(Content), More', Coming')
    BY <2>6, <2>7, <2>8 DEF Fits
  <2>11. calls' = <<f, g>> /\ ret' = ret
    <3>1. calls' = Append(GoTo("check"), g) /\ ret' = ret
      BY <1>15, <2>5 DEF Enter
    <3>2. GoTo("check") = [calls EXCEPT ![1] = f]
      BY <1>2, <2>1, <2>5 DEF GoTo
    <3>3. calls = <<Top>>
      <4>1. \E S : calls \in Seq(S)
        BY <1>2 DEF IsStack
      <4> QED
        BY <1>11, <2>1, <4>1
    <3>4. [<<Top>> EXCEPT ![1] = f] = <<f>>
      <4>1. PICK e, t, u : t = Top /\ u = <<t>> /\ e = [u EXCEPT ![1] = f]
        OBVIOUS
      <4>2. u \in Seq({t, f}) /\ Len(u) = 1 /\ DOMAIN u = 1 .. 1
        BY <4>1
      <4>3. e \in Seq({t, f}) /\ Len(e) = 1 /\ e[1] = f
        BY <4>1, <4>2
      <4>4. e = <<f>>
        BY <4>3
      <4> QED
        BY <4>1, <4>4
    <3>5. Append(<<f>>, g) = <<f, g>>
      <4>1. PICK S, u, e : S = {f, g} /\ u = <<f>> /\ e = Append(u, g)
        OBVIOUS
      <4>2. u \in Seq(S) /\ g \in S /\ Len(u) = 1 /\ u[1] = f
        BY <4>1
      <4>3. e \in Seq(S) /\ Len(e) = 2 /\ e[1] = f /\ e[2] = g
        BY <4>1, <4>2
      <4>4. e = <<f, g>>
        BY <4>3
      <4> QED
        BY <4>1, <4>4
    <3> QED
      BY <3>1, <3>2, <3>3, <3>4, <3>5
  <2>12. /\ Stacked(calls', z, Len(Content), More', Coming')
         /\ DOMAIN calls' = 1 .. 2 /\ calls' # <<>> /\ calls'[1] = f /\ calls'[2] = g
         /\ Last(calls') = g
    BY <2>9, <2>10, <2>11, DoubleStacked
  <2>13. Nest'
    BY <2>4, <2>12 DEF Nest
  <2>14. Ends'
    <3>1. Top' = g
      BY <2>12 DEF Top
    <3> QED
      BY <2>4, <2>7, <3>1 DEF Ends, Running
  <2>15. Reading'
    BY <2>4 DEF Reading
  <2>16. PositionOf(calls', file'.pos) = p
    <3>1. p # -1
      BY <2>8
    <3>2. 2 \in Saved(calls') /\ Saved(calls') \subseteq Nat
      BY <2>7, <2>12, <3>1 DEF Saved
    <3>3. \A k \in Saved(calls') : 2 <= k
      <4>1. 1 \notin Saved(calls')
        BY <2>6, <2>12 DEF Saved
      <4>2. \A k \in Saved(calls') : k \in 1 .. 2
        BY <2>12 DEF Saved
      <4>3. \A k \in 1 .. 2 : k # 1 => 2 <= k
        OBVIOUS
      <4> QED
        BY <4>1, <4>2, <4>3
    <3>4. PositionOf(calls', file'.pos) = calls'[2].back
      BY <3>2, <3>3, SavedFirst
    <3> QED
      BY <2>7, <2>12, <3>4
  <2>17. TaskOf(calls') = TaskOf(calls)
    BY <1>1, <1>11, <2>1, <2>6, <2>12 DEF TaskOf
  <2>18. Promised
    BY <1>11, <2>1, <2>4, <2>11, <2>16, <2>17, Stays
  <2> QED
    BY <2>4, <2>13, <2>14, <2>15, <2>18 DEF Facts
<1>16. CASE /\ p + Len(Top.data) <= MaxSize
            /\ file.writing \/ p <= file.ctz.size
            /\ file' = a /\ Continue("check")
  <2>1. /\ Contents(entry)' = Contents(entry) /\ Content' = Content /\ Meaning'
        /\ Typed' /\ Clean' /\ p \in Sizes /\ file'.pos = p /\ file'.erred = file.erred
        /\ ~file'.reading /\ file'.ctz = file.ctz
    BY <1>1, <1>2, <1>6, <1>7, <1>12, <1>16, WriteStarts
  <2>2. PICK f : f = [Top EXCEPT !.at = "check"]
    OBVIOUS
  <2>3. /\ f.op = "write" /\ f.at = "check" /\ f.n = Top.n /\ f.data = Top.data
        /\ f.back = -1 /\ f.back = Top.back
    BY <1>1, <1>2, <1>4, <2>2 DEF Framed
  <2>4. calls' = [calls EXCEPT ![Len(calls)] = f] /\ ret' = ret
    BY <1>2, <1>16, <2>2 DEF Continue, GoTo
  <2>5. Turn(calls, f, calls')
    BY <1>1, <1>2, <2>4, TurnShape
  <2>6. Top' = f /\ calls' # <<>>
    BY <2>5 DEF Turn, Top
  <2>7. FrameOK(f, Len(Content))
    BY <1>2, <1>4, <2>3 DEF FrameOK
  <2>8. Ends'
    BY <1>16, <2>1, <2>3, <2>6 DEF Ends, Running
  <2>9. Reading'
    BY <2>1 DEF Reading
  <2>10. SameTask(calls, calls')
    BY <1>1, <1>2, <2>3, <2>5, TurnTask
  <2>11. CASE p = file.pos
    <3>1. More' = More /\ Coming' = Coming
      BY <1>1, <2>1, <2>11 DEF More, Coming
    <3>2. Len(calls) > 1 => Fits(calls[Len(calls) - 1], f, file.pos, Len(Content), More, Coming)
      BY <1>1, <2>3, FactsTop, FitsAlike DEF Alike
    <3>3. Stacked(calls', file.pos, Len(Content), More, Coming)
      BY <1>1, <1>2, <2>3, <2>5, <2>7, <3>2, TurnStacked
    <3>4. Nest'
      BY <2>1, <2>11, <3>1, <3>3 DEF Nest
    <3>5. Promised
      BY <1>2, <2>1, <2>4, <2>10, <2>11, Stutters
    <3> QED
      BY <2>1, <2>8, <2>9, <3>4, <3>5 DEF Facts
  <2>12. CASE p # file.pos
    <3>1. Len(calls) = 1 /\ ~file.writing /\ p = file.ctz.size /\ file.pos < file.ctz.size
      BY <1>5, <1>7, <1>8, <1>9, <2>12
    <3>2. DOMAIN calls' = {1} /\ calls'[1] = f
      BY <1>11, <2>5, <3>1 DEF Turn
    <3>3. Stacked(calls', file'.pos, Len(Content'), More', Coming')
      <4>1. FrameOK(f, Len(Content')) /\ f.op \in Outermost
        BY <2>1, <2>3, <2>7 DEF Outermost
      <4> QED
        BY <3>2, <4>1, SingleStacked
    <3>4. Nest'
      BY <3>3 DEF Nest
    <3>5. PositionOf(calls', file'.pos) = p
      BY <2>1, <2>3, <3>2, SavedNone
    <3>6. Position' = p
      BY <3>5, NextTask
    <3>7. TaskOf(calls') = TaskOf(calls)
      BY <1>1, <1>11, <2>3, <2>6, <3>1, <3>2 DEF TaskOf
    <3>8. Task' = Task
      BY <3>7, PositionTask, NextTask
    <3>9. Promise!ToEnd
      BY <1>10, <1>11, <2>1, <2>4, <3>1, <3>6, <3>8 DEF Promise!ToEnd
    <3> QED
      BY <2>1, <2>8, <2>9, <3>4, <3>9 DEF Facts, Promised, Promise!Next
  <2> QED
    BY <2>11, <2>12
<1> QED
  BY <1>13, <1>14, <1>15, <1>16

-----------------------------------------------------------------------------
\* A block is added

\* The last block of a list has the cells that are in it.
LEMMA FilledIs ==
  ASSUME NEW d, NEW h, NEW w, NEW i \in Nat, NEW r \in 0 .. BlockSize - 1,
         Len(w) = Start(i) + r + 1, Holds(d, h, i, w), NEW D, d[h].data \in Seq(D)
  PROVE  r + 1 <= Len(d[h].data)
<1>1. PICK n \in Nat \ {0} : n = BlockSize
  BY FileAssumption
<1>2. Start(i) \in Nat
  BY StartIs
<1>3. PICK p \in Nat : p = Start(i) + r
  BY <1>1, <1>2
<1>4. p < Len(w) /\ Index(p) = i /\ p % BlockSize = r
  <2>1. Index(p) = i /\ p % BlockSize = r
    BY <1>3, PlaceIs
  <2>2. PICK x \in Nat : x = Start(i)
    BY <1>2
  <2>3. p = x + r /\ Len(w) = x + r + 1 /\ r \in Nat
    BY <1>1, <1>3, <2>2
  <2> QED
    BY <2>1, <2>3
<1>5. Stores(d, Before(d, h, i - i), p, w[p + 1])
  BY <1>4 DEF Holds
<1>6. i - i = 0 /\ Before(d, h, 0) = h
  BY BeforeIs
<1>7. r + 1 \in DOMAIN d[h].data
  BY <1>4, <1>5, <1>6 DEF Stores
<1> QED
  BY <1>7

\* Block b continues what the list from h holds: in a copy of h, or behind it.
LEMMA ContinuedIs ==
  ASSUME NEW d, NEW e, NEW h \in Blocks, NEW b \in Blocks, NEW w \in Seq(Data),
         NEW i \in Nat, NEW r \in 0 .. BlockSize - 1, Len(w) = Start(i) + r + 1,
         Holds(d, h, i, w), d[h].data \in Seq(Data),
         \A c \in Walk(d, h, i) : e[c] = d[c], b \notin Walk(d, h, i),
         r + 1 < BlockSize => Follows(d, e, h, b, r + 1, <<>>),
         r + 1 >= BlockSize => e[b].prev = h
  PROVE  NewIs(w, e, b, Len(w), IF r + 1 < BlockSize THEN r + 1 ELSE 0)
<1>1. PICK n \in Nat \ {0} : n = BlockSize
  BY FileAssumption
<1>2. Start(i) \in Nat /\ Start(i + 1) = Start(i) + BlockSize
  BY StartIs
<1>3. r + 1 <= Len(d[h].data)
  BY FilledIs
<1>4. CASE r + 1 < BlockSize
  <2>1. PICK k \in 0 .. BlockSize : k = r + 1
    BY <1>1, <1>4
  <2>2. <<>> \in Seq(Data) /\ Len(<<>>) = 0 /\ w \o <<>> = w
    OBVIOUS
  <2>3. \A c \in Walk(d, d[h].prev, i - 1) : e[c] = d[c]
    BY WalkStep
  <2>4. Len(w) = Start(i) + k /\ k + Len(<<>>) <= BlockSize /\ k <= Len(d[h].data)
        /\ Follows(d, e, h, b, k, <<>>)
    BY <1>1, <1>2, <1>3, <1>4, <2>1, <2>2
  <2>5. Holds(e, b, i, w \o <<>>)
    BY <2>2, <2>3, <2>4, HoldsGrow
  <2>6. Holds(e, b, i, w)
    BY <2>2, <2>5
  <2>7. b \notin Walk(e, e[b].prev, i - 1)
    <3>1. PICK m \in Int : m = i - 1
      OBVIOUS
    <3>6. PICK p : p = d[h].prev
      OBVIOUS
    <3>2. Walk(d, p, m) \subseteq Walk(d, h, i)
      BY <3>1, <3>6, WalkStep
    <3>3. \A c \in Walk(d, p, m) : d[c].prev = e[c].prev
      BY <3>2
    <3>4. Walk(e, p, m) = Walk(d, p, m)
      BY <3>3, WalkSame
    <3>5. e[b].prev = p
      BY <1>4, <3>6 DEF Follows
    <3> QED
      BY <3>1, <3>2, <3>4, <3>5
  <2> QED
    BY <1>4, <2>1, <2>4, <2>6, <2>7 DEF NewIs
<1>5. CASE r + 1 >= BlockSize
  <2>1. r + 1 = BlockSize
    BY <1>1, <1>5
  <2>2. Len(w) = Start(i + 1) + 0 /\ i + 1 \in Nat
    BY <1>2, <2>1
  <2>3. Holds(e, b, i + 1, w)
    BY <1>5, HoldsNext
  <2>4. PICK q \in Nat : q = i + 1
    OBVIOUS
  <2>5. Len(w) = Start(q) + 0 /\ Holds(e, b, q, w)
    BY <2>2, <2>3, <2>4
  <2>8. b \notin Walk(e, e[b].prev, q - 1)
    <3>1. \A c \in Walk(d, h, i) : d[c].prev = e[c].prev
      OBVIOUS
    <3>2. Walk(e, h, i) = Walk(d, h, i)
      BY <3>1, WalkSame
    <3>3. e[b].prev = h /\ q - 1 = i
      BY <1>5, <2>4
    <3> QED
      BY <3>2, <3>3
  <2>6. NewIs(w, e, b, Len(w), 0)
    BY <2>5, <2>8 DEF NewIs
  <2>7. (IF r + 1 < BlockSize THEN r + 1 ELSE 0) = 0
    BY <1>1, <2>1
  <2> QED
    BY <2>6, <2>7
<1> QED
  BY <1>1, <1>4, <1>5

\* The handle when block b has been added.
LEMMA ExtendedIs ==
  ASSUME Shape, NEW b, file' = [Extended(b, file.pos) EXCEPT !.writing = TRUE],
         NEW k \in Nat, k = ((file.pos - 1) % BlockSize) + 1
  PROVE  /\ file'.ctz = file.ctz /\ file'.inline = file.inline /\ file'.open = file.open
         /\ file'.writing /\ file'.dirty = file.dirty /\ file'.pos = file.pos
         /\ file'.reading = file.reading /\ file'.erred = file.erred /\ file'.block = b
         /\ file.pos = 0 => file'.off = 0 /\ file'.cur = Erased
         /\ file.pos # 0 /\ k < BlockSize =>
              /\ file'.off = k /\ file'.cur.prev = file.cur.prev
              /\ file'.cur.data = SubSeq(file.cur.data, 1, k)
         /\ file.pos # 0 /\ ~(k < BlockSize) =>
              /\ file'.off = 0 /\ file'.cur.prev = file.block /\ file'.cur.data = <<>>
<1>1. /\ DOMAIN file = FileFields /\ DOMAIN file.cur = {"prev", "data"} /\ file.pos \in Nat
  BY DEF Shape
<1>2. CASE file.pos = 0
  <2>1. file' = [[file EXCEPT !.block = b, !.off = 0, !.cur = Erased] EXCEPT !.writing = TRUE]
    BY <1>2 DEF Extended
  <2> QED
    BY <1>1, <1>2, <2>1 DEF FileFields
<1>3. CASE file.pos # 0 /\ k < BlockSize
  <2>1. Extended(b, file.pos) =
          [file EXCEPT !.block = b, !.off = k, !.misread = Null, !.cur.data = SubSeq(@, 1, k)]
    BY <1>1, <1>3 DEF Extended
  <2>2. PICK c : c = [file.cur EXCEPT !.data = SubSeq(@, 1, k)]
    OBVIOUS
  <2>3. c.prev = file.cur.prev /\ c.data = SubSeq(file.cur.data, 1, k)
    BY <1>1, <2>2
  <2>4. PICK z : z = [file EXCEPT !.block = b, !.off = k, !.misread = Null,
                                  !.cur.data = SubSeq(@, 1, k)]
    OBVIOUS
  <2>5. z = [file EXCEPT !.block = b, !.off = k, !.misread = Null, !.cur = c]
    BY <1>1, <2>2, <2>4 DEF FileFields
  <2>6. file' = [z EXCEPT !.writing = TRUE]
    BY <2>1, <2>4
  <2>7. /\ DOMAIN z = FileFields /\ z.ctz = file.ctz /\ z.inline = file.inline
        /\ z.open = file.open /\ z.dirty = file.dirty /\ z.pos = file.pos
        /\ z.reading = file.reading /\ z.erred = file.erred
        /\ z.block = b /\ z.off = k /\ z.cur = c
    BY <1>1, <2>5 DEF FileFields
  <2> QED
    BY <1>3, <2>3, <2>6, <2>7 DEF FileFields
<1>4. CASE file.pos # 0 /\ ~(k < BlockSize)
  <2>1. file' = [[file EXCEPT !.block = b, !.off = 0,
                      !.cur = [prev |-> file.block, data |-> <<>>]]
                   EXCEPT !.writing = TRUE]
    BY <1>4 DEF Extended
  <2>2. PICK c : c = [prev |-> file.block, data |-> <<>>]
    OBVIOUS
  <2>3. file' = [[file EXCEPT !.block = b, !.off = 0, !.cur = c] EXCEPT !.writing = TRUE]
    BY <2>1, <2>2
  <2>4. /\ file'.ctz = file.ctz /\ file'.inline = file.inline /\ file'.open = file.open
        /\ file'.writing /\ file'.dirty = file.dirty /\ file'.pos = file.pos
        /\ file'.reading = file.reading /\ file'.erred = file.erred /\ file'.block = b
        /\ file'.off = 0 /\ file'.cur = c
    BY <1>1, <2>3 DEF FileFields
  <2>5. c.prev = file.block /\ c.data = <<>>
    BY <2>2
  <2> QED
    BY <1>4, <2>4, <2>5
<1> QED
  BY <1>2, <1>3, <1>4

\* A new block takes nothing from the contents and adds nothing to them.
LEMMA ExtendKeeps ==
  ASSUME FileInv, FileInv', Facts, Extend
  PROVE  Facts' /\ Promised
<1>1. /\ calls # <<>> /\ Top.op = "write" /\ Top.at = "extend" /\ UNCHANGED <<entry, bad, ops>>
      /\ ~Mid
  BY DEF Extend, At, Mid
<1>2. /\ Framed(Top) /\ Top = calls[Len(calls)] /\ AtWrite /\ Standing
      /\ Len(calls) \in DOMAIN calls /\ flight \subseteq Blocks
      /\ file.open /\ Running(Top) /\ Shape
  BY <1>1, FactsTop, TopIs DEF Running, FileInv
<1>3. /\ ~file.inline /\ (file.writing => file.off = BlockSize)
      /\ ~file.writing /\ file.pos # 0 =>
           /\ file.block = Find(disk, file.ctz.head, file.ctz.size, file.pos - 1)
           /\ file.block \in Blocks /\ file.cur = disk[file.block]
  BY <1>1, <1>2 DEF AtWrite, Facts, Ends
<1>4. /\ file.pos \in Nat /\ file.ctz.size \in Nat /\ bad = {} /\ DOMAIN disk = Blocks
      /\ file.pos + Len(Top.data) <= MaxSize
  BY <1>1, <1>2 DEF FileInv, Shape, Facts, Ends
<1>5. PICK b \in window :
        /\ flight' = flight \cup {b} /\ disk' = [disk EXCEPT ![b] = Erased]
        /\ file' = [Extended(b, file.pos) EXCEPT !.writing = TRUE] /\ Continue("prog")
  BY <1>4 DEF Extend, Take
<1>6. /\ b \in Blocks /\ b \notin Old \cup Ent /\ disk'[b] = Erased /\ DOMAIN disk' = Blocks
      /\ \A a \in Blocks : a # b => disk'[a] = disk[a]
      /\ \A a \in Blocks :
           /\ disk'[a].prev \in Blocks \cup {Null}
           /\ disk'[a].data \in Seq(Data) /\ Len(disk'[a].data) <= BlockSize
      /\ \A s : Stored(s, entry, disk) => Stored(s, entry, disk')
      /\ \A o : OldIs(o, file.ctz, disk) => OldIs(o, file.ctz, disk')
      /\ \A o : OldIs(o, file.ctz, disk) /\ More /\ file.pos \in Nat =>
           Cell(disk', file.ctz.head, file.ctz.size, file.pos) = Coming
  BY <1>5, ErasedIs
<1>7. PICK n \in Nat \ {0} : n = BlockSize
  BY FileAssumption
<1>8. PICK i \in Nat, r \in 0 .. BlockSize - 1 :
        file.pos # 0 => /\ file.pos = Start(i) + r + 1 /\ i = Index(file.pos - 1)
                        /\ (file.pos - 1) % BlockSize = r
  <2>1. CASE file.pos = 0
    <3>1. 0 \in 0 .. BlockSize - 1
      BY <1>7
    <3> QED
      BY <2>1, <3>1
  <2>2. CASE file.pos # 0
    <3>1. PICK p \in Nat : p = file.pos - 1 /\ file.pos = p + 1
      BY <1>4, <2>2
    <3>2. PICK t \in 0 .. BlockSize - 1 : p = Start(Index(p)) + t /\ p % BlockSize = t
      BY PlaceOf
    <3>3. PICK j \in Nat : j = Index(p)
      BY PlaceOf
    <3>4. Start(j) \in Nat
      BY StartIs
    <3>5. file.pos = Start(j) + t + 1 /\ j = Index(file.pos - 1) /\ (file.pos - 1) % BlockSize = t
      BY <3>1, <3>2, <3>3, <3>4
    <3> QED
      BY <3>5
  <2> QED
    BY <2>1, <2>2
<1>9. PICK k \in Nat : k = ((file.pos - 1) % BlockSize) + 1 /\ (file.pos # 0 => k = r + 1)
  <2>1. CASE file.pos = 0
    <3>1. PICK x \in Int : x = file.pos - 1
      BY <1>4
    <3>2. x % n \in 0 .. n - 1
      BY <1>7
    <3> QED
      BY <1>7, <2>1, <3>1, <3>2
  <2>2. CASE file.pos # 0
    BY <1>7, <1>8, <2>2
  <2> QED
    BY <2>1, <2>2
<1>10. /\ file'.ctz = file.ctz /\ file'.inline = file.inline /\ file'.open = file.open
       /\ file'.writing /\ file'.dirty = file.dirty /\ file'.pos = file.pos
       /\ file'.reading = file.reading /\ file'.erred = file.erred /\ file'.block = b
       /\ file.pos = 0 => file'.off = 0 /\ file'.cur = Erased
       /\ file.pos # 0 /\ k < BlockSize =>
            /\ file'.off = k /\ file'.cur.prev = file.cur.prev
            /\ file'.cur.data = SubSeq(file.cur.data, 1, k)
       /\ file.pos # 0 /\ ~(k < BlockSize) =>
            /\ file'.off = 0 /\ file'.cur.prev = file.block /\ file'.cur.data = <<>>
  BY <1>2, <1>5, <1>9, ExtendedIs
<1>11. PICK v, h : v = View' /\ h = file.block
  OBVIOUS
<1>12. v[b] = file'.cur /\ \A a \in Blocks : a # b => v[a] = disk[a]
  BY <1>6, <1>10, <1>11 DEF View
<1>13. Meant(Contents(entry), Content)
  BY FactsMeant
<1>14. PICK s, c : s = Contents(entry) /\ c = Content
  OBVIOUS
<1>15. \E w, o : /\ OldIs(o, file.ctz, disk) /\ c = Over(w, o)
                 /\ w \in Seq(Data) /\ Len(w) = file.pos
                 /\ file.pos # 0 =>
                      /\ h \in Blocks /\ file.cur = disk[h] /\ b \notin Walk(disk, h, i)
                      /\ Holds(disk, h, i, w)
                 /\ ~file.writing => file.ctz.head # Inline
  <2>1. CASE ~file.writing
    <3>1. file.ctz.head # Inline /\ OldIs(c, file.ctz, disk)
      BY <1>2, <1>3, <1>13, <1>14, <2>1 DEF Meant, FileInv, Pending
    <3>2. c \in Seq(Data) /\ Len(c) = file.ctz.size /\ List(disk, file.ctz.head, c)
      BY <3>1 DEF OldIs
    <3>3. file.pos <= Len(c)
      BY <1>2, <2>1, <3>2 DEF Standing
    <3>4. PICK m, w : m = file.pos /\ w = SubSeq(c, 1, m)
      OBVIOUS
    <3>5. m \in Nat /\ m \in 0 .. Len(c)
      BY <1>4, <3>2, <3>3, <3>4
    <3>6. w \in Seq(Data) /\ Len(w) = m
      BY <3>2, <3>4, <3>5
    <3>7. c = Over(w, c)
      <4>1. PICK y : y = Over(w, c)
        OBVIOUS
      <4>2. /\ y \in Seq(Data) /\ Len(y) = IF Len(c) > m THEN Len(c) ELSE m
            /\ \A j \in 1 .. m : y[j] = w[j]
            /\ \A j \in m + 1 .. Len(c) : y[j] = c[j]
        BY <3>2, <3>6, <4>1, OverIs
      <4>3. \A j \in 1 .. m : w[j] = c[j]
        BY <3>2, <3>4, <3>5
      <4>4. Len(y) = Len(c) /\ \A j \in 1 .. Len(c) : y[j] = c[j]
        BY <3>2, <3>5, <4>2, <4>3
      <4>5. y = c
        BY <3>2, <4>2, <4>4
      <4> QED
        BY <4>1, <4>5
    <3>8. ASSUME file.pos # 0
          PROVE  /\ h \in Blocks /\ file.cur = disk[h] /\ b \notin Walk(disk, h, i)
                 /\ Holds(disk, h, i, w)
      <4>1. PICK g, z, p : g = file.ctz.head /\ z = file.ctz.size /\ p = file.pos - 1
        OBVIOUS
      <4>2. p \in Nat /\ z \in Nat \ {0} /\ p < z /\ m = p + 1
        BY <1>4, <3>2, <3>3, <3>4, <3>8, <4>1
      <4>3. h = Find(disk, g, z, p) /\ h \in Blocks /\ file.cur = disk[h]
        BY <1>3, <1>11, <2>1, <3>8, <4>1
      <4>4. /\ Index(p) = i /\ Index(z - 1) \in Nat /\ i <= Index(z - 1)
            /\ Find(disk, g, z, p) = Before(disk, g, Index(z - 1) - Index(p))
        <5>1. i = Index(p)
          BY <1>8, <3>8, <4>1
        <5>2. /\ Index(p) \in Nat /\ Index(z - 1) \in Nat /\ Index(p) <= Index(z - 1)
              /\ Find(disk, g, z, p) = Before(disk, g, Index(z - 1) - Index(p))
          BY <4>2, FindBack
        <5> QED
          BY <5>1, <5>2
      <4>5. PICK q \in Nat, j \in Nat : q = Index(z - 1) /\ j = q - i /\ q - j = i
        BY <4>4
      <4>6. h = Before(disk, g, j)
        BY <4>3, <4>4, <4>5
      <4>7. Holds(disk, g, q, c)
        BY <3>2, <4>1, <4>5 DEF List
      <4>8. Holds(disk, g, q, w)
        BY <3>2, <3>4, <3>5, <4>7, HoldsPart
      <4>9. \A x \in Nat : x < Len(w) => Index(x) <= q - j
        <5> SUFFICES ASSUME NEW x \in Nat, x < Len(w) PROVE Index(x) <= i
          BY <4>5
        <5>1. x <= p
          BY <3>6, <4>2
        <5> QED
          BY <4>2, <4>4, <5>1, IndexGrows
      <4>10. Holds(disk, h, i, w)
        BY <4>5, <4>6, <4>8, <4>9, HoldsBack
      <4>11. Walk(disk, h, i) \subseteq Old
        BY <4>1, <4>2, <4>3, <4>4, FindPart DEF Old
      <4> QED
        BY <1>6, <4>3, <4>10, <4>11
    <3> QED
      BY <3>1, <3>4, <3>6, <3>7, <3>8
  <2>2. CASE file.writing
    <3>1. W /\ file.off = BlockSize
      BY <1>3, <2>2 DEF W
    <3>2. PICK w, o : /\ NewIs(w, View, file.block, file.pos, file.off)
                     /\ OldIs(o, file.ctz, disk) /\ c = Over(w, o)
      BY <1>2, <1>13, <1>14, <3>1 DEF Meant, Mixed
    <3>3. h \in Blocks /\ file.cur = disk[h]
      BY <1>11, <3>1 DEF FileInv, Geometry
    <3>4. PICK u : u = View
      OBVIOUS
    <3>5. \A a \in Blocks : u[a] = disk[a]
      BY <1>2, <1>11, <3>1, <3>3, <3>4, ViewIs DEF W
    <3>6. PICK q \in Nat : file.pos = Start(q) + BlockSize /\ Holds(u, h, q, w)
      BY <1>11, <3>1, <3>2, <3>4 DEF NewIs
    <3>7. PICK y \in Nat : /\ file.pos = y * BlockSize + file.off
                           /\ Walk(View, file.block, y) \cap window = {}
      BY <3>1 DEF FileInv, Geometry
    <3>8. q = i /\ y = i
      <4>1. PICK p \in Nat : p = Start(q) + (BlockSize - 1)
        BY <1>7, StartIs
      <4>2. Start(q) \in Nat /\ Start(y) \in Nat
        BY StartIs
      <4>3. file.pos # 0 /\ file.pos - 1 = p
        BY <1>7, <3>6, <4>1, <4>2
      <4>4. BlockSize - 1 \in 0 .. BlockSize - 1
        BY <1>7
      <4>5. Index(p) = q
        BY <4>1, <4>4, PlaceIs
      <4>6. p = Start(y) + (BlockSize - 1)
        BY <1>7, <3>1, <3>7, <4>2, <4>3 DEF Start
      <4>7. Index(p) = y
        BY <4>4, <4>6, PlaceIs
      <4> QED
        BY <1>8, <4>3, <4>5, <4>7
    <3>9. Holds(disk, h, i, w)
      <4>1. \A a \in Walk(u, h, i) : disk[a] = u[a]
        BY <3>5 DEF Walk
      <4> QED
        BY <3>6, <3>8, <4>1, HoldsSame
    <3>10. b \notin Walk(disk, h, i)
      <4>1. Walk(disk, h, i) = Walk(u, h, i)
        <5>1. \A a \in Walk(u, h, i) : u[a].prev = disk[a].prev
          BY <3>5 DEF Walk
        <5> QED
          BY <5>1, WalkSame
      <4> QED
        BY <1>11, <3>4, <3>7, <3>8, <4>1
    <3> QED
      BY <2>2, <3>2, <3>3, <3>9, <3>10 DEF NewIs
  <2> QED
    BY <2>1, <2>2
<1>16. PICK w, o : /\ OldIs(o, file.ctz, disk) /\ c = Over(w, o)
                   /\ w \in Seq(Data) /\ Len(w) = file.pos
                   /\ file.pos # 0 =>
                        /\ h \in Blocks /\ file.cur = disk[h] /\ b \notin Walk(disk, h, i)
                        /\ Holds(disk, h, i, w)
  BY <1>15
<1>17. /\ NewIs(w, v, b, file.pos, file'.off)
       /\ file'.off \in 0 .. BlockSize /\ file'.cur.prev \in Blocks \cup {Null}
       /\ file'.cur.data \in Seq(Data) /\ Len(file'.cur.data) = file'.off
  <2>0. <<>> \in Seq(Data) /\ Len(<<>>) = 0
    OBVIOUS
  <2>1. CASE file.pos = 0
    <3>1. file'.off = 0 /\ file'.cur.prev = Null /\ file'.cur.data = <<>>
      BY <1>10, <2>1 DEF Erased
    <3>2. Start(0) = 0 /\ 0 \in Nat
      BY StartIs
    <3>3. Holds(v, b, 0, w)
      BY <1>16, <2>1 DEF Holds
    <3>5. Walk(v, v[b].prev, 0 - 1) = {}
      BY DEF Walk
    <3>4. NewIs(w, v, b, 0, 0)
      BY <1>16, <2>1, <3>2, <3>3, <3>5 DEF NewIs
    <3> QED
      BY <1>7, <2>0, <2>1, <3>1, <3>4
  <2>2. CASE file.pos # 0
    <3>1. /\ h \in Blocks /\ file.cur = disk[h] /\ b \notin Walk(disk, h, i)
          /\ Holds(disk, h, i, w) /\ Len(w) = Start(i) + r + 1 /\ k = r + 1
      BY <1>8, <1>9, <1>16, <2>2
    <3>2. /\ disk[h].data \in Seq(Data) /\ Len(disk[h].data) <= BlockSize
          /\ disk[h].prev \in Blocks \cup {Null}
      BY <3>1 DEF Facts, Typed
    <3>3. \A a \in Walk(disk, h, i) : v[a] = disk[a]
      BY <1>12, <3>1 DEF Walk
    <3>10. r + 1 <= Len(disk[h].data)
      BY <1>8, <3>1, <3>2, FilledIs
    <3>4. r + 1 < BlockSize => Follows(disk, v, h, b, r + 1, <<>>)
      <4> SUFFICES ASSUME r + 1 < BlockSize PROVE Follows(disk, v, h, b, r + 1, <<>>)
        OBVIOUS
      <4>1. v[b].prev = disk[h].prev /\ v[b].data = SubSeq(disk[h].data, 1, r + 1)
        BY <1>10, <1>12, <2>2, <3>1
      <4>2. PICK t : t = SubSeq(disk[h].data, 1, r + 1)
        OBVIOUS
      <4>3. t \in Seq(Data)
        BY <1>7, <1>8, <3>2, <3>10, <4>2
      <4>4. t \o <<>> = t
        BY <4>3
      <4> QED
        BY <4>1, <4>2, <4>4 DEF Follows
    <3>5. r + 1 >= BlockSize => v[b].prev = h
      BY <1>7, <1>10, <1>11, <1>12, <2>2, <3>1
    <3>6. NewIs(w, v, b, Len(w), IF r + 1 < BlockSize THEN r + 1 ELSE 0)
      BY <1>6, <1>8, <1>16, <3>1, <3>2, <3>3, <3>4, <3>5, ContinuedIs
    <3>7. file'.off = IF r + 1 < BlockSize THEN r + 1 ELSE 0
      BY <1>10, <2>2, <3>1
    <3>8. CASE r + 1 < BlockSize
      <4>1. PICK t : t = SubSeq(disk[h].data, 1, r + 1)
        OBVIOUS
      <4>2. t \in Seq(Data) /\ Len(t) = r + 1
        BY <1>7, <1>8, <3>2, <3>10, <4>1
      <4>3. file'.cur.data = t /\ file'.cur.prev = disk[h].prev /\ file'.off = r + 1
        BY <1>10, <2>2, <3>1, <3>8, <4>1
      <4>4. r + 1 \in 0 .. BlockSize
        BY <1>7, <3>8
      <4> QED
        BY <1>16, <3>2, <3>6, <3>7, <4>2, <4>3, <4>4
    <3>9. CASE ~(r + 1 < BlockSize)
      <4>1. file'.cur.data = <<>> /\ file'.cur.prev = h /\ file'.off = 0
        BY <1>10, <1>11, <2>2, <3>1, <3>9
      <4>2. 0 \in 0 .. BlockSize
        BY <1>7
      <4> QED
        BY <1>16, <2>0, <3>1, <3>6, <3>7, <4>1, <4>2
    <3> QED
      BY <3>8, <3>9
  <2> QED
    BY <2>1, <2>2
<1>18. Meant(s, c)'
  <2>1. Stored(s, entry', disk')
    BY <1>1, <1>6, <1>13, <1>14 DEF Meant
  <2>2. Mixed(c, file'.ctz, disk', View', file'.block, file'.pos, file'.off)
    BY <1>6, <1>10, <1>11, <1>16, <1>17 DEF Mixed
  <2>3. c \in Seq(Data)
    BY <1>13, <1>14 DEF Meant
  <2> QED
    BY <1>2, <1>3, <1>10, <2>1, <2>2, <2>3 DEF Meant
<1>19. Contents(entry)' = Contents(entry) /\ Content' = Content /\ Meaning'
  BY <1>14, <1>18, NextMeant
<1>20. Typed'
  <2>1. flight' \subseteq Blocks
    BY <1>2, <1>5, <1>6
  <2>2. Len(file'.cur.data) <= BlockSize
    BY <1>7, <1>17
  <2> QED
    BY <1>1, <1>3, <1>6, <1>10, <1>17, <2>1, <2>2 DEF Facts, Typed
<1>21. More' = More /\ (More => Coming' = Coming)
  <2>1. More' = More
    BY <1>10 DEF More
  <2>2. Coming' = Cell(disk', file.ctz.head, file.ctz.size, file.pos)
    BY <1>10 DEF Coming
  <2>3. More => Coming' = Coming
    BY <1>4, <1>6, <1>16, <2>2
  <2> QED
    BY <2>1, <2>3
<1>22. ~file'.reading /\ Clean'
  BY <1>2, <1>10 DEF Facts, Reading, Clean
<1>23. Alike(Top', Top) /\ Top'.at = "prog" => Ends'
  BY <1>1, <1>4, <1>10, <1>22 DEF Alike, Ends, Running
<1> QED
  BY <1>1, <1>2, <1>5, <1>10, <1>19, <1>20, <1>21, <1>22, <1>23, WriteTurns

-----------------------------------------------------------------------------
\* Cells are programmed

\* y is c with d written over it from p on.
Puts(y, c, p, d) ==
  /\ y \in Seq(Data) /\ Len(y) = IF Len(c) > p + Len(d) THEN Len(c) ELSE p + Len(d)
  /\ \A i \in 1 .. p : y[i] = c[i]
  /\ \A i \in 1 .. Len(d) : y[p + i] = d[i]
  /\ \A i \in p + Len(d) + 1 .. Len(c) : y[i] = c[i]

\* There is one such sequence.
LEMMA PutsOne ==
  ASSUME NEW c \in Seq(Data), NEW p \in 0 .. Len(c), NEW d \in Seq(Data),
         NEW y, Puts(y, c, p, d), NEW z, Puts(z, c, p, d)
  PROVE  y = z
<1>1. PICK n \in Nat, m \in Nat : n = Len(c) /\ m = Len(d)
  OBVIOUS
<1>2. /\ y \in Seq(Data) /\ Len(y) = IF n > p + m THEN n ELSE p + m
      /\ z \in Seq(Data) /\ Len(z) = IF n > p + m THEN n ELSE p + m
  BY <1>1 DEF Puts
<1>3. ASSUME NEW i \in 1 .. Len(y) PROVE y[i] = z[i]
  <2>1. CASE i <= p
    <3>1. i \in 1 .. p
      BY <1>1, <1>2, <2>1
    <3> QED
      BY <3>1 DEF Puts
  <2>2. CASE i > p + m
    <3>1. i \in p + m + 1 .. n
      BY <1>1, <1>2, <2>2
    <3> QED
      BY <1>1, <3>1 DEF Puts
  <2>3. CASE p < i /\ i <= p + m
    <3>1. PICK j \in Int : j = i - p
      BY <1>1, <1>2
    <3>2. j \in 1 .. m /\ p + j = i
      BY <1>1, <1>2, <2>3, <3>1
    <3>3. y[p + j] = d[j] /\ z[p + j] = d[j]
      BY <1>1, <3>2 DEF Puts
    <3> QED
      BY <3>2, <3>3
  <2> QED
    BY <1>1, <1>2, <2>1, <2>2, <2>3
<1>4. Len(y) = Len(z)
  BY <1>2
<1> QED
  BY <1>2, <1>3, <1>4

\* And Spliced is it.
LEMMA PutsSpliced ==
  ASSUME NEW c \in Seq(Data), NEW p \in 0 .. Len(c), NEW d \in Seq(Data)
  PROVE  Puts(Spliced(c, p, d), c, p, d)
<1>1. PICK n \in Nat, m \in Nat, q \in Nat : n = Len(c) /\ m = Len(d) /\ q = p /\ q <= n
  OBVIOUS
<1>2. PICK a : a = SubSeq(c, 1, q)
  OBVIOUS
<1>3. a \in Seq(Data) /\ Len(a) = q /\ \A i \in 1 .. q : a[i] = c[i]
  BY <1>1, <1>2
<1>4. PICK u : u = a \o d
  OBVIOUS
<1>5. /\ u \in Seq(Data) /\ Len(u) = q + m
      /\ \A i \in 1 .. q : u[i] = a[i]
      /\ \A i \in 1 .. m : u[q + i] = d[i]
  <2>1. a \in Seq(Data) /\ d \in Seq(Data)
    BY <1>3
  <2>2. /\ u \in Seq(Data) /\ Len(u) = Len(a) + Len(d)
        /\ \A i \in 1 .. Len(a) : u[i] = a[i]
        /\ \A i \in 1 .. Len(d) : u[Len(a) + i] = d[i]
    BY ONLY <1>4, <2>1, ConcatIs
  <2> QED
    BY <1>1, <1>3, <2>2
<1>6. PICK k \in Nat : k = q + m
  OBVIOUS
<1>7. PICK z : z = SubSeq(c, k + 1, n)
  OBVIOUS
<1>8. /\ z \in Seq(Data) /\ Len(z) = IF n > k THEN n - k ELSE 0
      /\ \A i \in 1 .. Len(z) : z[i] = c[k + i]
  <2>1. c \in Seq(Data) /\ n = Len(c) /\ n \in Nat /\ k \in Nat
    BY <1>1
  <2>2. CASE n > k
    BY ONLY <1>7, <2>1, <2>2
  <2>3. CASE ~(n > k)
    BY ONLY <1>7, <2>1, <2>3
  <2> QED
    BY <2>2, <2>3
<1>9. PICK y : y = u \o z
  OBVIOUS
<1>10. /\ y \in Seq(Data) /\ Len(y) = k + Len(z)
       /\ \A i \in 1 .. k : y[i] = u[i]
       /\ \A i \in 1 .. Len(z) : y[k + i] = z[i]
  <2>1. u \in Seq(Data) /\ z \in Seq(Data)
    BY <1>5, <1>8
  <2>2. /\ y \in Seq(Data) /\ Len(y) = Len(u) + Len(z)
        /\ \A i \in 1 .. Len(u) : y[i] = u[i]
        /\ \A i \in 1 .. Len(z) : y[Len(u) + i] = z[i]
    BY ONLY <1>9, <2>1, ConcatIs
  <2> QED
    BY <1>5, <1>6, <2>2
<1>11. \A i \in 1 .. q : y[i] = c[i]
  <2>1. \A i \in 1 .. q : i \in 1 .. k
    BY <1>6
  <2> QED
    BY <1>3, <1>5, <1>10, <2>1
<1>12. ASSUME NEW i \in 1 .. m PROVE y[q + i] = d[i]
  <2>1. q + i \in 1 .. k
    BY <1>6
  <2> QED
    BY <1>5, <1>10, <2>1
<1>13. ASSUME NEW i \in k + 1 .. n PROVE y[i] = c[i]
  <2>1. PICK j \in Int : j = i - k
    OBVIOUS
  <2>2. j \in 1 .. Len(z) /\ k + j = i
    BY <1>1, <1>8, <2>1
  <2> QED
    BY <1>8, <1>10, <2>2
<1>14. Len(y) = IF n > q + m THEN n ELSE q + m
  BY <1>6, <1>8, <1>10
<1>15. Spliced(c, q, d) = y
  BY <1>1, <1>2, <1>4, <1>6, <1>7, <1>9 DEF Spliced
<1>16. Puts(y, c, q, d)
  BY <1>1, <1>6, <1>10, <1>11, <1>12, <1>13, <1>14 DEF Puts
<1> QED
  BY <1>1, <1>15, <1>16

\* What is added to the list is written over what was there.
LEMMA PutsOver ==
  ASSUME NEW w \in Seq(Data), NEW o \in Seq(Data), NEW d \in Seq(Data)
  PROVE  Puts(Over(w \o d, o), Over(w, o), Len(w), d) /\ w \o d \in Seq(Data)
<1>1. PICK n \in Nat, m \in Nat, l \in Nat : n = Len(w) /\ m = Len(d) /\ l = Len(o)
  OBVIOUS
<1>2. PICK u : u = w \o d
  OBVIOUS
<1>3. /\ u \in Seq(Data) /\ Len(u) = n + m
      /\ \A i \in 1 .. n : u[i] = w[i]
      /\ \A i \in 1 .. m : u[n + i] = d[i]
  BY <1>1, <1>2, ConcatIs
<1>4. PICK y, c : y = Over(u, o) /\ c = Over(w, o)
  OBVIOUS
<1>5. /\ c \in Seq(Data) /\ Len(c) = IF l > n THEN l ELSE n
      /\ \A i \in 1 .. n : c[i] = w[i]
      /\ \A i \in n + 1 .. l : c[i] = o[i]
  BY <1>1, <1>4, OverIs
<1>6. /\ y \in Seq(Data) /\ Len(y) = IF l > n + m THEN l ELSE n + m
      /\ \A i \in 1 .. n + m : y[i] = u[i]
      /\ \A i \in n + m + 1 .. l : y[i] = o[i]
  <2>1. u \in Seq(Data) /\ o \in Seq(Data)
    BY <1>3
  <2>2. /\ Over(u, o) \in Seq(Data)
        /\ Len(Over(u, o)) = IF Len(o) > Len(u) THEN Len(o) ELSE Len(u)
        /\ \A i \in 1 .. Len(u) : Over(u, o)[i] = u[i]
        /\ \A i \in Len(u) + 1 .. Len(o) : Over(u, o)[i] = o[i]
    BY ONLY <2>1, OverIs
  <2>3. Over(u, o) = y /\ Len(u) = n + m /\ Len(o) = l
    BY <1>1, <1>3, <1>4
  <2> QED
    BY ONLY <2>2, <2>3
<1>7. Len(y) = IF Len(c) > n + m THEN Len(c) ELSE n + m
  BY <1>1, <1>5, <1>6
<1>8. \A i \in 1 .. n : y[i] = c[i]
  BY <1>1, <1>3, <1>5, <1>6
<1>9. ASSUME NEW i \in 1 .. m PROVE y[n + i] = d[i]
  <2>1. n + i \in 1 .. n + m
    BY <1>1
  <2> QED
    BY <1>3, <1>6, <2>1
<1>10. ASSUME NEW i \in n + m + 1 .. Len(c) PROVE y[i] = c[i]
  <2>1. i \in n + m + 1 .. l /\ i \in n + 1 .. l
    BY <1>1, <1>5
  <2> QED
    BY <1>5, <1>6, <2>1
<1> QED
  BY <1>1, <1>2, <1>3, <1>4, <1>6, <1>7, <1>8, <1>9, <1>10 DEF Puts

\* In a directory entry the same.
LEMMA PutsInline ==
  ASSUME NEW t \in Seq(Data), NEW n \in Nat, NEW p \in 0 .. n, n <= Len(t),
         NEW d \in Seq(Data), NEW k, k = IF n > p + Len(d) THEN n ELSE p + Len(d)
  PROVE  /\ Puts(SubSeq(Spliced(t, p, d), 1, k), SubSeq(t, 1, n), p, d)
         /\ k <= Len(Spliced(t, p, d)) /\ Spliced(t, p, d) \in Seq(Data)
<1>1. PICK m \in Nat, l \in Nat : m = Len(d) /\ l = Len(t)
  OBVIOUS
<1>2. PICK u : u = Spliced(t, p, d)
  OBVIOUS
<1>3. Puts(u, t, p, d)
  <2>1. p \in 0 .. Len(t)
    BY <1>1
  <2> QED
    BY <1>2, <2>1, PutsSpliced
<1>4. /\ u \in Seq(Data) /\ Len(u) = IF l > p + m THEN l ELSE p + m
      /\ \A i \in 1 .. p : u[i] = t[i]
      /\ \A i \in 1 .. m : u[p + i] = d[i]
      /\ \A i \in p + m + 1 .. l : u[i] = t[i]
  BY <1>1, <1>3 DEF Puts
<1>5. k \in Nat /\ k <= Len(u) /\ n <= k /\ p + m <= k
  BY <1>1, <1>4
<1>6. PICK y, c : y = SubSeq(u, 1, k) /\ c = SubSeq(t, 1, n)
  OBVIOUS
<1>7. y \in Seq(Data) /\ Len(y) = k /\ \A i \in 1 .. k : y[i] = u[i]
  BY <1>4, <1>5, <1>6
<1>8. c \in Seq(Data) /\ Len(c) = n /\ \A i \in 1 .. n : c[i] = t[i]
  BY <1>1, <1>6
<1>9. \A i \in 1 .. p : y[i] = c[i]
  <2>1. \A i \in 1 .. p : i \in 1 .. k /\ i \in 1 .. n
    BY <1>5
  <2> QED
    BY <1>4, <1>7, <1>8, <2>1
<1>10. ASSUME NEW i \in 1 .. m PROVE y[p + i] = d[i]
  <2>1. p + i \in 1 .. k
    BY <1>1, <1>5
  <2> QED
    BY <1>4, <1>7, <2>1
<1>11. ASSUME NEW i \in p + m + 1 .. n PROVE y[i] = c[i]
  <2>1. i \in 1 .. k /\ i \in 1 .. n /\ i \in p + m + 1 .. l
    BY <1>1, <1>5
  <2> QED
    BY <1>4, <1>7, <1>8, <2>1
<1> QED
  BY <1>1, <1>2, <1>4, <1>5, <1>6, <1>7, <1>8, <1>9, <1>10, <1>11 DEF Puts

\* A part d of the data of the write is programmed, x is left.
Programs(m, d, x, cur, f) ==
  /\ d \in Seq(Data) /\ x \in Seq(Data) /\ Len(d) = m /\ m + Len(x) = Len(Top.data)
  /\ \A i \in 1 .. m : d[i] = Top.data[i]
  /\ file.inline => Len(x) = 0
  /\ ~file.inline => file.off + m <= BlockSize
  /\ f.op = "write" /\ f.at = "loop" /\ f.n = Top.n /\ f.data = x /\ f.back = Top.back
  /\ cur.prev = file.cur.prev /\ cur.data = SubSeq(file.cur.data, 1, file.off) \o d
  /\ disk' = IF ~file.inline /\ file.off + m = BlockSize
             THEN [disk EXCEPT ![file.block] = cur] ELSE disk
  /\ calls' = [calls EXCEPT ![Len(calls)] = f]
  /\ file'.ctz.head = file.ctz.head /\ file'.ctz.size = file.ctz.size
  /\ file'.ctz.buf = IF file.inline THEN Spliced(file.ctz.buf, file.off, d)
                     ELSE file.ctz.buf
  /\ file'.inline = file.inline /\ file'.open = file.open /\ file'.writing = file.writing
  /\ file'.dirty = file.dirty /\ file'.block = file.block
  /\ file'.reading = file.reading /\ file'.erred = file.erred
  /\ file'.pos = file.pos + m /\ file'.off = file.off + m
  /\ file'.cur = IF file.inline THEN file.cur ELSE cur
  /\ UNCHANGED <<entry, ops, ret>> /\ flight' = {}

\* That is what Prog does.
LEMMA ProgIs ==
  ASSUME FileInv, Settled, Facts, Prog
  PROVE  \E m \in Nat \ {0} : \E d, x, cur, f : Programs(m, d, x, cur, f)
<1>1. /\ calls # <<>> /\ Top.op = "write" /\ Top.at = "prog" /\ Framed(Top)
      /\ Len(calls) \in DOMAIN calls /\ Top = calls[Len(calls)] /\ AtWrite
      /\ FrameOK(Top, Len(Content))
  BY TopIs, FactsTop DEF Prog, At
<1>2. file.writing /\ Len(Top.data) > 0 /\ (file.inline \/ file.off < BlockSize)
  BY <1>1 DEF AtWrite
<1>3. PICK t : t = Top.data
  OBVIOUS
<1>4. t \in Seq(Data) /\ Len(t) \in Nat /\ Len(t) > 0
  BY <1>1, <1>2, <1>3 DEF FrameOK
<1>5. PICK room : room = IF file.inline THEN Len(t) ELSE BlockSize - file.off
  OBVIOUS
<1>6. room \in Nat \ {0} /\ file.off \in Nat
  BY <1>2, <1>4, <1>5, FileAssumption DEF FileInv, Shape
<1>7. PICK m \in Nat \ {0} : m = Smaller(room, Len(t)) /\ m <= Len(t) /\ m <= room
  BY <1>4, <1>6 DEF Smaller
<1>8. PICK d : d = SubSeq(t, 1, m)
  OBVIOUS
<1>9. d \in Seq(Data) /\ Len(d) = m /\ \A i \in 1 .. m : d[i] = t[i]
  BY <1>4, <1>7, <1>8
<1>10. PICK x : x = SubSeq(t, m + 1, Len(t))
  OBVIOUS
<1>11. x \in Seq(Data) /\ Len(x) = Len(t) - m
  BY <1>4, <1>7, <1>10
<1>12. PICK cur : cur = [file.cur EXCEPT !.data = SubSeq(@, 1, file.off) \o d]
  OBVIOUS
<1>13. cur.prev = file.cur.prev /\ cur.data = SubSeq(file.cur.data, 1, file.off) \o d
  BY <1>12 DEF FileInv, Shape
<1>14. bad = {}
  BY DEF FileInv, Shape
<1>27. Piece = d
  BY <1>3, <1>5, <1>7, <1>8 DEF Piece, Room
<1>28. Programmed(d) = cur /\ (Fills(d) <=> file.off + m = BlockSize)
  BY <1>9, <1>12, ProgrammedIs
<1>29. PICK c : c = IF ~file.inline /\ Fills(d) /\ file.off + Len(d) < BlockSize
                    THEN "blank" ELSE "right"
  OBVIOUS
<1>15. /\ file' = [file EXCEPT
             !.pos = @ + m, !.off = file.off + m,
             !.cur = IF file.inline THEN @ ELSE cur, !.cache = c,
             !.ctz.buf = IF file.inline THEN Spliced(@, file.off, d) ELSE @]
       /\ disk' = IF ~file.inline /\ file.off + m = BlockSize
                  THEN [disk EXCEPT ![file.block] = cur] ELSE disk
       /\ calls' = [GoTo("loop") EXCEPT ![Len(calls)].data = x]
       /\ UNCHANGED <<entry, bad, window, ops, ret>> /\ flight' = {}
  BY <1>3, <1>9, <1>10, <1>14, <1>27, <1>28, <1>29 DEF Prog
<1>16. PICK z : z = [file.ctz EXCEPT !.buf =
                       IF file.inline THEN Spliced(@, file.off, d) ELSE @]
  OBVIOUS
<1>17. /\ z.head = file.ctz.head /\ z.size = file.ctz.size
       /\ z.buf = IF file.inline THEN Spliced(file.ctz.buf, file.off, d) ELSE file.ctz.buf
  <2>1. PICK u : u = IF file.inline THEN Spliced(file.ctz.buf, file.off, d) ELSE file.ctz.buf
    OBVIOUS
  <2>2. z = [file.ctz EXCEPT !.buf = u]
    BY <1>16, <2>1
  <2>3. DOMAIN file.ctz = {"head", "size", "buf"}
    BY DEF FileInv, Shape
  <2>4. z.head = file.ctz.head /\ z.size = file.ctz.size /\ z.buf = u
    BY <2>2, <2>3
  <2> QED
    BY <2>1, <2>4
<1>18. file' = [file EXCEPT !.pos = @ + m, !.off = @ + m,
                  !.cur = IF file.inline THEN @ ELSE cur, !.cache = c, !.ctz = z]
  BY <1>15, <1>16 DEF FileInv, Shape, FileFields
<1>19. /\ file'.ctz = z /\ file'.inline = file.inline /\ file'.open = file.open
       /\ file'.writing = file.writing /\ file'.dirty = file.dirty
       /\ file'.block = file.block /\ file'.reading = file.reading
       /\ file'.erred = file.erred
       /\ file'.pos = file.pos + m /\ file'.off = file.off + m
       /\ file'.cur = IF file.inline THEN file.cur ELSE cur
  BY <1>18 DEF FileInv, Shape, FileFields
<1>20. PICK f : f = [Top EXCEPT !.at = "loop", !.data = x]
  OBVIOUS
<1>21. /\ f.op = "write" /\ f.at = "loop" /\ f.n = Top.n /\ f.data = x /\ f.back = Top.back
  BY <1>1, <1>20 DEF Framed
<1>22. calls' = [calls EXCEPT ![Len(calls)] = f]
  BY <1>1, <1>15, <1>20 DEF GoTo
<1>23. m + Len(x) = Len(t)
  BY <1>4, <1>7, <1>11
<1>24. file.inline => Len(x) = 0
  <2>1. file.inline => m = Len(t)
    BY <1>4, <1>5, <1>7 DEF Smaller
  <2> QED
    BY <1>4, <1>11, <2>1
<1>25. ~file.inline => file.off + m <= BlockSize
  <2>1. PICK n \in Nat \ {0} : n = BlockSize
    BY FileAssumption
  <2> QED
    BY <1>5, <1>6, <1>7, <2>1
<1>26. Programs(m, d, x, cur, f)
  BY <1>3, <1>9, <1>11, <1>13, <1>15, <1>17, <1>19, <1>21, <1>22, <1>23, <1>24, <1>25
     DEF Programs
<1> QED
  BY <1>26

\* The old list is known by its head and its size.
LEMMA OldLike ==
  ASSUME NEW o, NEW z, NEW y, NEW d, OldIs(o, z, d), y.head = z.head, y.size = z.size
  PROVE  OldIs(o, y, d)
BY DEF OldIs

\* What is programmed arrives at the position.
LEMMA ProgMeant ==
  ASSUME FileInv, FileInv', Facts, At("write", "prog"), NEW m \in Nat \ {0},
         NEW d, NEW x, NEW cur, NEW f, Programs(m, d, x, cur, f)
  PROVE  /\ Puts(Content', Content, file.pos, d)
         /\ Contents(entry)' = Contents(entry) /\ Meaning' /\ Typed'
<1>1. /\ calls # <<>> /\ Top.op = "write" /\ Top.at = "prog" /\ AtWrite /\ file.open
      /\ flight \subseteq Blocks /\ Top.data \in Seq(Data)
      /\ FrameOK(Top, Len(Content))
  BY TopIs, FactsTop DEF At, FrameOK
<1>2. file.writing /\ (file.inline \/ file.off < BlockSize)
  BY <1>1 DEF AtWrite
<1>3. /\ file.pos \in Nat /\ file.off \in Nat /\ file.ctz.size \in Nat /\ DOMAIN disk' = Blocks
      /\ file.pos + Len(Top.data) <= MaxSize /\ Len(Top.data) \in Nat /\ MaxSize \in Nat
  BY <1>1, FileAssumption DEF FileInv, Shape, Facts, Ends, Running
<1>4. /\ d \in Seq(Data) /\ x \in Seq(Data) /\ Len(d) = m /\ m + Len(x) = Len(Top.data)
      /\ Len(x) \in Nat
  BY DEF Programs
<1>5. file.pos + m \in Sizes
  BY <1>3, <1>4 DEF Sizes
<1>6. /\ file'.ctz.head = file.ctz.head /\ file'.ctz.size = file.ctz.size
      /\ file'.ctz.buf = IF file.inline THEN Spliced(file.ctz.buf, file.off, d)
                         ELSE file.ctz.buf
      /\ file'.inline = file.inline /\ file'.open = file.open /\ file'.writing
      /\ file'.dirty = file.dirty /\ file'.block = file.block
      /\ file'.reading = file.reading /\ file'.erred = file.erred
      /\ file'.pos = file.pos + m /\ file'.off = file.off + m
      /\ file'.cur = IF file.inline THEN file.cur ELSE cur
      /\ UNCHANGED <<entry, ops>> /\ flight' = {}
      /\ disk' = IF ~file.inline /\ file.off + m = BlockSize
                 THEN [disk EXCEPT ![file.block] = cur] ELSE disk
  BY <1>2 DEF Programs
<1>7. PICK s, c : s = Contents(entry) /\ c = Content
  OBVIOUS
<1>8. Meant(s, c)
  BY <1>7, FactsMeant
<1>9. ASSUME NEW y, Meant(s, y)', Puts(y, c, file.pos, d), Typed'
      PROVE  /\ Puts(Content', Content, file.pos, d)
             /\ Contents(entry)' = Contents(entry) /\ Meaning' /\ Typed'
  <2>1. Contents(entry)' = s /\ Content' = y /\ Meaning'
    BY <1>9, NextMeant
  <2> QED
    BY <1>7, <1>9, <2>1
<1>10. CASE file.inline
  <2>1. file.off = file.pos /\ file.ctz.buf \in Seq(Data)
    BY <1>2, <1>10 DEF Facts, Typed
  <2>2. PICK t, n, p, k : /\ t \in Seq(Data) /\ t = file.ctz.buf
                         /\ n = Size /\ p = file.pos
                         /\ k = IF n > p + m THEN n ELSE p + m
    BY <2>1
  <2>3. n \in Nat /\ p \in 0 .. n /\ p \in Nat
    BY <1>2, <1>3, <2>2 DEF Size, Larger
  <2>4. n <= Len(t) /\ c = SubSeq(t, 1, n)
    BY <1>1, <1>8, <1>10, <2>2 DEF Meant
  <2>5. Size' = k
    <3>1. PICK z \in Nat : z = file.ctz.size
      BY <1>3
    <3>2. n = IF p > z THEN p ELSE z
      BY <1>2, <2>2, <3>1 DEF Size, Larger
    <3>3. Size' = IF p + m > z THEN p + m ELSE z
      BY <1>6, <2>2, <3>1 DEF Size, Larger
    <3>4. (IF p + m > z THEN p + m ELSE z) = IF n > p + m THEN n ELSE p + m
      BY <2>3, <3>1, <3>2
    <3> QED
      BY <2>2, <3>3, <3>4
  <2>6. PICK u, y : u = Spliced(t, p, d) /\ y = SubSeq(u, 1, k)
    OBVIOUS
  <2>7. Puts(y, c, p, d) /\ k <= Len(u) /\ u \in Seq(Data)
    BY <1>4, <2>2, <2>3, <2>4, <2>6, PutsInline
  <2>8. file'.ctz.buf = u
    BY <1>6, <1>10, <2>1, <2>2, <2>6
  <2>9. disk' = disk /\ file'.cur = file.cur
    BY <1>6, <1>10
  <2>10. ~W' /\ ~W
    BY <1>6, <1>10 DEF W
  <2>11. Stored(s, entry', disk')
    BY <1>6, <1>8, <2>9 DEF Meant
  <2>12. y \in Seq(Data)
    BY <2>7 DEF Puts
  <2>13. Meant(s, y)'
    BY <1>1, <1>6, <1>10, <2>5, <2>6, <2>7, <2>8, <2>10, <2>11, <2>12 DEF Meant
  <2>14. file'.off \in 0 .. BlockSize
    <3>1. file.pos + Len(Top.data) <= InlineMax
      BY <1>1, <1>10 DEF AtWrite
    <3> QED
      BY <1>3, <1>4, <1>6, <2>1, <3>1, FileAssumption
  <2>15. Typed'
    BY <1>5, <1>6, <1>10, <2>1, <2>7, <2>8, <2>9, <2>10, <2>14 DEF Facts, Typed
  <2> QED
    BY <1>9, <2>2, <2>7, <2>13, <2>15
<1>11. CASE ~file.inline
  <2>1. W /\ W'
    BY <1>2, <1>6, <1>11 DEF W
  <2>2. /\ file.cur.prev \in Blocks \cup {Null} /\ file.cur.data \in Seq(Data)
        /\ Len(file.cur.data) = file.off /\ file.off \in 0 .. BlockSize
    BY <2>1 DEF Facts, Typed
  <2>3. PICK b, v, e, r, p : /\ b = file.block /\ v = View /\ e = View' /\ r = file.off
                             /\ p = file.pos
    OBVIOUS
  <2>4. r + m <= BlockSize /\ cur.prev = file.cur.prev
        /\ cur.data = SubSeq(file.cur.data, 1, r) \o d
    BY <1>11, <2>3 DEF Programs
  <2>5. cur.data \in Seq(Data) /\ Len(cur.data) = r + m
    <3>1. PICK t, u : t = file.cur.data /\ u = cur.data
      OBVIOUS
    <3>2. /\ t \in Seq(Data) /\ d \in Seq(Data) /\ r \in 0 .. Len(t)
          /\ u = SubSeq(t, 1, r) \o d
      BY <1>3, <1>4, <2>2, <2>3, <2>4, <3>1
    <3>3. u \in Seq(Data) /\ Len(u) = r + Len(d)
      BY ONLY <3>2, JoinIs
    <3> QED
      BY <1>4, <3>1, <3>3
  <2>6. b \in Blocks /\ v[b] = file.cur /\ \A a \in Blocks : a # b => v[a] = disk[a]
    BY <2>1, <2>3, ViewIs DEF FileInv, Geometry, W
  <2>7. /\ \A a \in Blocks : a # b => disk'[a] = disk[a]
        /\ \A a \in Blocks :
             /\ disk'[a].prev \in Blocks \cup {Null}
             /\ disk'[a].data \in Seq(Data) /\ Len(disk'[a].data) <= BlockSize
        /\ \A z : Stored(z, entry, disk) => Stored(z, entry, disk')
        /\ \A z : OldIs(z, file.ctz, disk) => OldIs(z, file.ctz, disk')
    <3>1. CASE file.off + m = BlockSize
      <4>1. disk' = [disk EXCEPT ![file.block] = cur]
        BY <1>6, <1>11, <3>1
      <4>2. /\ cur.prev \in Blocks \cup {Null} /\ cur.data \in Seq(Data)
            /\ Len(cur.data) <= BlockSize
        BY <2>2, <2>3, <2>4, <2>5, FileAssumption
      <4> QED
        BY <2>1, <2>3, <4>1, <4>2, ViewedIs
    <3>2. CASE file.off + m # BlockSize
      <4>1. disk' = disk
        BY <1>6, <3>2
      <4> QED
        BY <4>1 DEF Facts, Typed
    <3> QED
      BY <3>1, <3>2
  <2>8. e[b] = cur /\ \A a \in Blocks : a # b => e[a] = v[a]
    <3>1. e = [disk' EXCEPT ![b] = cur]
      BY <1>6, <1>11, <2>3, <2>6 DEF View
    <3> QED
      BY <1>3, <2>6, <2>7, <3>1
  <2>9. PICK w, o : NewIs(w, v, b, p, r) /\ OldIs(o, file.ctz, disk) /\ c = Over(w, o)
    BY <1>1, <1>8, <2>1, <2>3 DEF Meant, Mixed
  <2>10. w \in Seq(Data) /\ Len(w) = p /\ o \in Seq(Data)
    BY <2>9 DEF NewIs, OldIs
  <2>11. PICK q \in Nat : /\ p = Start(q) + r /\ Holds(v, b, q, w)
                          /\ b \notin Walk(v, v[b].prev, q - 1)
    BY <2>9 DEF NewIs
  <2>12. PICK i, g : i \in Int /\ i = q - 1 /\ g = v[b].prev
    OBVIOUS
  <2>13. \A a \in Walk(v, g, i) : e[a] = v[a]
    BY <2>8, <2>11, <2>12 DEF Walk
  <2>14. Walk(e, g, i) = Walk(v, g, i) /\ e[b].prev = g
    <3>1. \A a \in Walk(v, g, i) : v[a].prev = e[a].prev
      BY <2>13
    <3> QED
      BY <2>4, <2>6, <2>8, <2>12, <3>1, WalkSame
  <2>15. Holds(e, b, q, w \o d)
    <3>1. /\ r \in 0 .. BlockSize /\ Len(w) = Start(q) + r /\ r + Len(d) <= BlockSize
          /\ v[b].data \in Seq(Data) /\ r <= Len(v[b].data)
      BY <1>4, <2>2, <2>3, <2>4, <2>6, <2>10, <2>11
    <3>2. Follows(v, e, b, b, r, d)
      BY <2>4, <2>6, <2>8 DEF Follows
    <3>3. \A a \in Walk(v, v[b].prev, q - 1) : e[a] = v[a]
      BY <2>12, <2>13
    <3> QED
      BY <1>4, <2>6, <2>10, <2>11, <3>1, <3>2, <3>3, HoldsGrow
  <2>16. PICK u, y : u = w \o d /\ y = Over(u, o)
    OBVIOUS
  <2>17. Puts(y, c, p, d) /\ u \in Seq(Data) /\ Len(u) = p + m
    <3>1. Puts(Over(w \o d, o), Over(w, o), Len(w), d) /\ w \o d \in Seq(Data)
      BY <1>4, <2>10, PutsOver
    <3>2. Len(u) = Len(w) + Len(d)
      <4>1. w \in Seq(Data) /\ d \in Seq(Data)
        BY <1>4, <2>10
      <4> QED
        BY ONLY <2>16, <4>1, ConcatIs
    <3> QED
      BY <1>4, <2>9, <2>10, <2>16, <3>1, <3>2
  <2>18. NewIs(u, e, b, p + m, r + m)
    <3>1. p + m = Start(q) + (r + m)
      <4>1. Start(q) \in Nat
        BY StartIs
      <4> QED
        BY <1>3, <2>3, <2>11, <4>1
    <3>2. b \notin Walk(e, e[b].prev, q - 1)
      BY <2>11, <2>12, <2>14
    <3> QED
      BY <2>15, <2>16, <2>17, <3>1, <3>2 DEF NewIs
  <2>19. OldIs(o, file'.ctz, disk')
    <3>1. OldIs(o, file.ctz, disk')
      BY <2>7, <2>9
    <3> QED
      BY <1>6, <3>1, OldLike
  <2>20. Stored(s, entry', disk')
    BY <1>6, <1>8, <2>7 DEF Meant
  <2>21. Mixed(y, file'.ctz, disk', View', file'.block, file'.pos, file'.off)
    BY <1>6, <2>3, <2>16, <2>18, <2>19 DEF Mixed
  <2>22. y \in Seq(Data)
    BY <2>17 DEF Puts
  <2>23. Meant(s, y)'
    BY <1>1, <1>6, <1>11, <2>20, <2>21, <2>22 DEF Meant
  <2>24. file'.off \in 0 .. BlockSize /\ file'.cur = cur /\ Len(cur.data) = file'.off
         /\ Len(cur.data) <= BlockSize /\ cur.prev \in Blocks \cup {Null}
    <3>1. file'.off = r + m /\ file'.cur = cur
      BY <1>6, <1>11, <2>3
    <3>2. r \in Nat /\ m \in Nat /\ BlockSize \in Nat
      BY <1>3, <2>3, FileAssumption
    <3>3. r + m \in 0 .. BlockSize
      BY ONLY <2>4, <3>2
    <3>4. cur.prev \in Blocks \cup {Null}
      BY <2>2, <2>4
    <3> QED
      BY <2>4, <2>5, <3>1, <3>3, <3>4
  <2>25. file'.ctz.buf \in Seq(Data)
    BY <1>6, <1>11 DEF Facts, Typed
  <2>26. Typed'
    BY <1>5, <1>6, <1>11, <2>5, <2>7, <2>24, <2>25 DEF Facts, Typed
  <2> QED
    BY <1>9, <2>3, <2>17, <2>23, <2>26
<1> QED
  BY <1>10, <1>11

\* The next cell of the old list is the next one of the contents.
LEMMA ComingNext ==
  ASSUME FileInv, Facts, file.open, W, More
  PROVE  file.pos < Len(Content) /\ Content[file.pos + 1] = Coming
<1>1. PICK c, p : c = Content /\ p = file.pos
  OBVIOUS
<1>2. PICK w, o : /\ NewIs(w, View, file.block, file.pos, file.off)
                 /\ OldIs(o, file.ctz, disk) /\ c = Over(w, o)
  BY <1>1, FactsMeant DEF Meant, Mixed
<1>3. p \in Nat /\ p < file.ctz.size /\ file.ctz.head # Inline
  BY <1>1 DEF More, FileInv, Shape
<1>4. /\ w \in Seq(Data) /\ Len(w) = p /\ o \in Seq(Data) /\ Len(o) = file.ctz.size
      /\ List(disk, file.ctz.head, o)
  BY <1>1, <1>2, <1>3 DEF NewIs, OldIs
<1>5. Coming = o[p + 1]
  <2>1. PICK h : h = file.ctz.head
    OBVIOUS
  <2>2. List(disk, h, o) /\ p < Len(o) /\ \A b \in Chain(disk, h, Len(o)) : disk[b] = disk[b]
    BY <1>3, <1>4, <2>1
  <2>3. Cell(disk, h, Len(o), p) = o[p + 1]
    BY <1>3, <1>4, <2>2, CellSame
  <2> QED
    BY <1>1, <1>4, <2>1, <2>3 DEF Coming
<1>6. Len(c) = Len(o) /\ c[p + 1] = o[p + 1]
  <2>1. /\ Len(Over(w, o)) = IF Len(o) > Len(w) THEN Len(o) ELSE Len(w)
        /\ \A i \in Len(w) + 1 .. Len(o) : Over(w, o)[i] = o[i]
    BY <1>4, OverIs
  <2>2. Len(o) > Len(w) /\ p + 1 \in Len(w) + 1 .. Len(o)
    BY <1>3, <1>4
  <2> QED
    BY <1>2, <2>1, <2>2
<1> QED
  BY <1>1, <1>3, <1>4, <1>5, <1>6

\* A stack whose top has moved on, and with it the position and the contents.
LEMMA MovedStacked ==
  ASSUME NEW c, IsStack(c), c # <<>>, NEW f, NEW e, Turn(c, f, e), f.op = Last(c).op,
         NEW p, NEW l, NEW z, NEW x, Stacked(c, p, l, z, x),
         NEW q, NEW m, NEW y, NEW u, FrameOK(f, m),
         \A k \in DOMAIN c : k < Len(c) => FrameOK(c[k], m),
         \A k \in DOMAIN c : k > 1 /\ k < Len(c) => Fits(c[k - 1], c[k], q, m, y, u),
         Len(c) > 1 => Fits(c[Len(c) - 1], f, q, m, y, u)
  PROVE  Stacked(e, q, m, y, u)
<1>1. Len(c) \in Nat /\ Len(c) # 0 /\ DOMAIN c = 1 .. Len(c) /\ Last(c) = c[Len(c)]
  BY StackIs
<1>2. DOMAIN e = DOMAIN c /\ \A k \in DOMAIN c : e[k] = IF k = Len(c) THEN f ELSE c[k]
  BY DEF Turn
<1>3. ASSUME NEW k \in DOMAIN e
      PROVE  /\ FrameOK(e[k], m) /\ e[k].op = c[k].op
             /\ k > 1 => Fits(e[k - 1], e[k], q, m, y, u)
  <2>1. CASE k = Len(c)
    <3>1. k > 1 => k - 1 \in DOMAIN c /\ k - 1 # Len(c)
      <4>1. PICK n \in Nat : n = Len(c)
        BY <1>1
      <4>2. n > 1 => n - 1 \in 1 .. n /\ n - 1 # n
        OBVIOUS
      <4> QED
        BY <1>1, <2>1, <4>1, <4>2
    <3> QED
      BY <1>1, <1>2, <2>1, <3>1
  <2>2. CASE k # Len(c)
    <3>1. k < Len(c) /\ k \in DOMAIN c
      BY <1>1, <1>2, <2>2
    <3>2. k > 1 => k - 1 \in DOMAIN c /\ k - 1 # Len(c)
      BY <1>1, <3>1
    <3> QED
      BY <1>2, <2>2, <3>1, <3>2
  <2> QED
    BY <2>1, <2>2
<1>4. e # <<>> => e[1].op \in Outermost
  <2>1. 1 \in DOMAIN e /\ c[1].op \in Outermost
    BY <1>1, <1>2 DEF Stacked
  <2> QED
    BY <1>3, <2>1
<1>5. \A k \in DOMAIN e : e[k].op = "fill" => k = 2
  BY <1>2, <1>3 DEF Stacked
<1> QED
  BY <1>3, <1>4, <1>5 DEF Stacked

\* What is programmed for a caller: the zero that fills a hole, or the cell that
\* the contents have there already.
LEMMA ProgFor ==
  ASSUME FileInv, Facts, At("write", "prog"), NEW m \in Nat \ {0},
         NEW d, NEW x, NEW cur, NEW f, Programs(m, d, x, cur, f), Len(calls) > 1,
         NEW g, g = calls[Len(calls) - 1]
  PROVE  /\ m = 1 /\ x = <<>> /\ g.back # -1 /\ file.pos <= Len(Content)
         /\ \/ /\ g.op \in {"fill", "truncate"} /\ d = <<0>> /\ file.pos = Len(Content)
               /\ file.pos + 1 <= IF g.op = "fill" THEN g.back ELSE g.n
            \/ g.op = "flush" /\ d = <<Content[file.pos + 1]>> /\ file.pos < Len(Content)
<1>1. /\ calls # <<>> /\ Top.op = "write" /\ Top.at = "prog" /\ file.open
      /\ AtWrite /\ FrameOK(Top, Len(Content)) /\ Called(g, Top) /\ FrameOK(g, Len(Content))
      /\ Framed(g) /\ Fits(g, Top, file.pos, Len(Content), More, Coming)
      /\ Len(calls) - 1 \in DOMAIN calls
  BY FactsTop, TopIs DEF At
<1>2. file.writing /\ Len(Top.data) > 0 /\ Top.data \in Seq(Data)
  BY <1>1 DEF AtWrite, FrameOK
<1>3. Top.data # <<>>
  BY <1>2
<1>4. /\ d \in Seq(Data) /\ x \in Seq(Data) /\ Len(d) = m /\ m + Len(x) = Len(Top.data)
      /\ \A i \in 1 .. m : d[i] = Top.data[i]
  BY DEF Programs
<1>5. file.pos \in Nat /\ file.pos <= Len(Content)
  BY <1>1, <1>2, FactsMeant DEF FileInv, Shape
<1>6. g.op \in {"fill", "truncate", "flush"} /\ g.back # -1
  <2>1. /\ g.op \in {"fill", "flush", "truncate"}
        /\ g.op = "flush" => g.at = "copy"
        /\ g.op = "truncate" => g.at = "grow"
    <3>1. Called(g, Top) /\ Top.op = "write"
      BY <1>1
    <3> QED
      BY <3>1 DEF Called
  <2> QED
    BY <1>1, <2>1 DEF FrameOK, Framed
<1>7. ASSUME NEW t \in Data, Top.data = <<t>>
      PROVE  m = 1 /\ x = <<>> /\ d = <<t>>
  <2>1. Len(Top.data) = 1 /\ Top.data[1] = t
    BY <1>7
  <2>2. PICK j : j = Len(x)
    OBVIOUS
  <2>3. j \in Nat /\ m + j = 1
    BY <1>4, <2>1, <2>2
  <2>4. m = 1 /\ j = 0
    BY <2>3
  <2>5. x = <<>>
    <3>1. x \in Seq(Data) /\ Len(x) = 0
      BY <1>4, <2>2, <2>4
    <3> QED
      BY ONLY <3>1
  <2>6. Len(d) = 1 /\ d[1] = t
    BY <1>4, <2>1, <2>4
  <2>7. d = <<t>>
    BY <1>4, <2>6
  <2> QED
    BY <2>4, <2>5, <2>7
<1>8. CASE g.op \in {"fill", "truncate"}
  <2>1. /\ Top.data = <<0>> /\ file.pos = Len(Content)
        /\ file.pos + Len(Top.data) <= IF g.op = "fill" THEN g.back ELSE g.n
    BY <1>1, <1>3, <1>8 DEF Fits
  <2>2. 0 \in Data
    BY FileAssumption DEF Data
  <2>3. m = 1 /\ x = <<>> /\ d = <<0>>
    BY <1>7, <2>1, <2>2
  <2>4. Len(Top.data) = 1
    BY <2>1
  <2> QED
    BY <1>5, <1>6, <1>8, <2>1, <2>3, <2>4
<1>9. CASE g.op = "flush"
  <2>1. More /\ Top.data = <<Coming>>
    BY <1>1, <1>3, <1>9 DEF Fits
  <2>2. W
    <3>1. Waits(g, Size, W) /\ g.at = "copy"
      BY <1>1, <1>9 DEF FileInv, Positions, Called
    <3> QED
      BY <1>9, <3>1 DEF Waits
  <2>3. file.pos < Len(Content) /\ Content[file.pos + 1] = Coming
    BY <1>1, <2>1, <2>2, ComingNext
  <2>4. Coming \in Data
    BY ComingIs DEF Facts
  <2>5. m = 1 /\ x = <<>> /\ d = <<Coming>>
    BY <1>7, <2>1, <2>4
  <2> QED
    BY <1>5, <1>6, <1>9, <2>3, <2>5
<1> QED
  BY <1>6, <1>8, <1>9

\* The cells at the position are what has been put there.
LEMMA PutsPart ==
  ASSUME NEW c \in Seq(Data), NEW p \in 0 .. Len(c), NEW d \in Seq(Data),
         NEW y, Puts(y, c, p, d)
  PROVE  /\ SubSeq(y, p + 1, p + Len(d)) = d /\ Len(y) >= p + Len(d)
         /\ y = Promise!Spliced(c, p, SubSeq(y, p + 1, p + Len(d)))
<1>1. PICK n \in Nat, m \in Nat, q \in Nat : n = Len(c) /\ m = Len(d) /\ q = p /\ q <= n
  OBVIOUS
<1>2. y \in Seq(Data) /\ Len(y) = IF n > q + m THEN n ELSE q + m
  BY <1>1 DEF Puts
<1>3. PICK j \in Nat : j = Len(y) /\ j >= q + m
  BY <1>1, <1>2
<1>4. PICK e : e = SubSeq(y, q + 1, q + m)
  OBVIOUS
<1>5. e \in Seq(Data) /\ Len(e) = m /\ \A i \in 1 .. m : e[i] = y[q + i]
  <2>1. q + 1 \in 1 .. j + 1 /\ q + m \in 0 .. j /\ (q + m) - (q + 1) + 1 = m
    BY <1>1, <1>3
  <2>2. e \in Seq(Data) /\ Len(e) = m
    BY <1>1, <1>2, <1>3, <1>4, <2>1
  <2>3. ASSUME NEW i \in 1 .. m PROVE e[i] = y[q + i]
    <3>1. (q + 1) + i - 1 = q + i
      BY <1>1
    <3> QED
      BY <1>1, <1>2, <1>3, <1>4, <2>1, <3>1
  <2> QED
    BY <2>2, <2>3
<1>6. e = d
  <2>1. \A i \in 1 .. m : y[q + i] = d[i]
    BY <1>1 DEF Puts
  <2> QED
    BY <1>1, <1>5, <2>1
<1>7. Puts(Spliced(c, p, d), c, p, d)
  BY PutsSpliced
<1>8. y = Spliced(c, p, d)
  BY <1>7, PutsOne
<1>9. Promise!Spliced(c, p, d) = Spliced(c, p, d)
  BY DEF Promise!Spliced, Spliced
<1> QED
  BY <1>1, <1>3, <1>4, <1>6, <1>8, <1>9

\* What is put over itself leaves everything as it was.
LEMMA PutsSame ==
  ASSUME NEW c \in Seq(Data), NEW p \in Nat, p < Len(c), NEW y, Puts(y, c, p, <<c[p + 1]>>)
  PROVE  y = c
<1>1. PICK n \in Nat : n = Len(c)
  OBVIOUS
<1>2. p + 1 \in 1 .. n /\ p \in 0 .. n
  BY <1>1
<1>3. c[p + 1] \in Data
  BY <1>1, <1>2
<1>4. PICK d : d = <<c[p + 1]>>
  OBVIOUS
<1>5. d \in Seq(Data) /\ Len(d) = 1 /\ d[1] = c[p + 1]
  BY <1>3, <1>4
<1>6. \A i \in 1 .. Len(d) : c[p + i] = d[i]
  <2>1. \A i \in 1 .. 1 : i = 1
    OBVIOUS
  <2> QED
    BY <1>5, <2>1
<1>7. Puts(c, c, p, d)
  BY <1>1, <1>2, <1>5, <1>6 DEF Puts
<1> QED
  BY <1>1, <1>2, <1>4, <1>5, <1>7, PutsOne

\* What is put at the end is appended.
LEMMA PutsEnd ==
  ASSUME NEW c \in Seq(Data), NEW t \in Data, NEW y, Puts(y, c, Len(c), <<t>>)
  PROVE  y = Append(c, t) /\ Len(y) = Len(c) + 1
<1>1. PICK n \in Nat : n = Len(c)
  OBVIOUS
<1>2. PICK d : d = <<t>>
  OBVIOUS
<1>3. d \in Seq(Data) /\ Len(d) = 1 /\ d[1] = t
  BY <1>2
<1>4. PICK z : z = Append(c, t)
  OBVIOUS
<1>5. z \in Seq(Data) /\ Len(z) = n + 1 /\ z[n + 1] = t /\ \A i \in 1 .. n : z[i] = c[i]
  BY <1>1, <1>4
<1>6. \A i \in 1 .. Len(d) : z[n + i] = d[i]
  <2>1. \A i \in 1 .. 1 : i = 1
    OBVIOUS
  <2> QED
    BY <1>3, <1>5, <2>1
<1>7. Len(z) = IF n > n + Len(d) THEN n ELSE n + Len(d)
  BY <1>1, <1>3, <1>5
<1>8. \A i \in n + Len(d) + 1 .. n : z[i] = c[i]
  BY <1>1, <1>3
<1>9. Puts(z, c, n, d)
  BY <1>1, <1>5, <1>6, <1>7, <1>8 DEF Puts
<1>10. n \in 0 .. Len(c)
  BY <1>1
<1> QED
  BY <1>1, <1>2, <1>3, <1>4, <1>5, <1>9, <1>10, PutsOne

\* The functions under one that programs for another.
LEMMA ProgUnder ==
  ASSUME FileInv, Facts, At("write", "prog"), NEW n \in Nat, n = Len(calls), n > 1,
         NEW g, g = calls[n - 1]
  PROVE  /\ g.op = "truncate" => n = 2 /\ g.at = "grow"
         /\ g.op = "fill" => /\ n = 3 /\ calls[1].op = "write" /\ calls[1].at = "check"
                             /\ Fits(calls[1], g, file.pos, Len(Content), More, Coming)
         /\ g.op = "flush" =>
              \A k \in DOMAIN calls : k < n => calls[k].op \notin Inner
<1>1. /\ calls # <<>> /\ Top.op = "write" /\ IsStack(calls) /\ Called(g, Top)
      /\ Stacked(calls, file.pos, Len(Content), More, Coming)
      /\ Len(calls) - 1 \in DOMAIN calls
  BY FactsTop DEF At
<1>2. DOMAIN calls = 1 .. n /\ n - 1 \in 1 .. n
  BY <1>1, StackIs
<1>3. CASE g.op = "truncate"
  <2>1. g.at = "grow"
    BY <1>1, <1>3 DEF Called
  <2>2. ASSUME n - 1 > 1 PROVE FALSE
    <3>1. n - 1 \in DOMAIN calls
      BY <1>2
    <3>2. Called(calls[(n - 1) - 1], g)
      BY <1>1, <2>2, <3>1 DEF IsStack
    <3> QED
      BY <1>3, <3>2 DEF Called
  <2>3. n = 2
    BY <2>2
  <2> QED
    BY <1>3, <2>1, <2>3
<1>4. CASE g.op = "fill"
  <2>1. n - 1 = 2
    BY <1>1, <1>2, <1>4 DEF Stacked
  <2>2. n = 3 /\ 2 \in DOMAIN calls /\ g = calls[2]
    <3>1. n = 3
      <4>1. \A j \in Nat : j - 1 = 2 => j = 3
        OBVIOUS
      <4> QED
        BY <2>1, <4>1
    <3>2. 2 \in 1 .. 3
      OBVIOUS
    <3>3. calls[n - 1] = calls[2]
      BY <2>1
    <3> QED
      BY <1>2, <3>1, <3>2, <3>3
  <2>3. 2 > 1 /\ 2 - 1 = 1
    OBVIOUS
  <2>4. Called(calls[1], g) /\ Fits(calls[1], g, file.pos, Len(Content), More, Coming)
    <3>1. \A k \in DOMAIN calls : k > 1 =>
             /\ Called(calls[k - 1], calls[k])
             /\ Fits(calls[k - 1], calls[k], file.pos, Len(Content), More, Coming)
      BY <1>1 DEF IsStack, Stacked
    <3>2. Called(calls[2 - 1], calls[2])
          /\ Fits(calls[2 - 1], calls[2], file.pos, Len(Content), More, Coming)
      BY <2>2, <2>3, <3>1
    <3> QED
      BY <2>2, <2>3, <3>2
  <2>5. calls[1].op = "write" /\ calls[1].at = "check"
    BY <1>4, <2>4 DEF Called
  <2> QED
    BY <1>4, <2>2, <2>4, <2>5
<1>5. CASE g.op = "flush"
  <2>1. ASSUME NEW k \in DOMAIN calls, k < n, calls[k].op \in Inner PROVE FALSE
    <3>1. k # n - 1
      BY <1>5, <2>1 DEF Inner
    <3>2. n - 1 > k /\ n - 1 \in DOMAIN calls
      BY <1>2, <2>1, <3>1
    <3>3. calls[n - 1].op \in Inner
      BY <1>1, <2>1, <3>2 DEF IsStack
    <3> QED
      BY <1>5, <3>3 DEF Inner
  <2> QED
    BY <1>5, <2>1
<1>6. g.op \in {"truncate", "fill", "flush"}
  BY <1>1 DEF Called
<1> QED
  BY <1>3, <1>4, <1>5, <1>6

\* What a function that is no write, nor for one, fits does not depend on the
\* position.
LEMMA FitsMoved ==
  ASSUME NEW f, NEW g, NEW p, NEW l, NEW z, NEW x, Fits(f, g, p, l, z, x),
         g.op \notin Inner, NEW q, NEW y, NEW u
  PROVE  Fits(f, g, q, l, y, u)
BY DEF Fits, Inner

\* Cells are programmed.
LEMMA ProgKeeps ==
  ASSUME FileInv, Settled, FileInv', Facts, Prog
  PROVE  Facts' /\ Promised
<1>1. /\ calls # <<>> /\ Top.op = "write" /\ Top.at = "prog" /\ At("write", "prog")
      /\ Running(Top)
  BY DEF Prog, At, Running
<1>2. /\ file.open /\ AtWrite /\ FrameOK(Top, Len(Content)) /\ Framed(Top)
      /\ IsStack(calls) /\ Top = calls[Len(calls)] /\ Last(calls) = Top
      /\ Len(calls) \in DOMAIN calls /\ Len(calls) \in Nat
      /\ Stacked(calls, file.pos, Len(Content), More, Coming)
      /\ DOMAIN calls = 1 .. Len(calls) /\ Len(calls) # 0
  BY <1>1, FactsTop, TopIs, StackIs
<1>3. PICK m \in Nat \ {0} : \E d, x, cur, f : Programs(m, d, x, cur, f)
  BY ProgIs
<1>4. PICK d, x, cur, f : Programs(m, d, x, cur, f)
  BY <1>3
<1>5. /\ Puts(Content', Content, file.pos, d)
      /\ Contents(entry)' = Contents(entry) /\ Meaning' /\ Typed'
  BY <1>1, <1>4, ProgMeant
<1>6. PICK c, y, p : c = Content /\ y = Content' /\ p = file.pos
  OBVIOUS
<1>7. PICK q : q = file'.pos
  OBVIOUS
<1>8. /\ d \in Seq(Data) /\ x \in Seq(Data) /\ Len(d) = m /\ m + Len(x) = Len(Top.data)
      /\ f.op = "write" /\ f.at = "loop" /\ f.n = Top.n /\ f.data = x /\ f.back = Top.back
      /\ calls' = [calls EXCEPT ![Len(calls)] = f]
      /\ file'.open = file.open /\ file'.writing = file.writing
      /\ file'.reading = file.reading /\ file'.erred = file.erred
      /\ q = p + m /\ ret' = ret
  BY <1>4, <1>6, <1>7 DEF Programs
<1>9. file.writing /\ Top.data \in Seq(Data) /\ Len(Top.data) \in Nat /\ Len(x) \in Nat
  BY <1>1, <1>2, <1>8 DEF AtWrite, FrameOK
<1>10. c \in Seq(Data) /\ p \in Nat /\ p <= Len(c)
  BY <1>2, <1>6, <1>9, FactsMeant DEF FileInv, Shape
<1>11. Turn(calls, f, calls')
  BY <1>1, <1>2, <1>8, TurnShape
<1>12. Top' = f /\ calls' # <<>>
  BY <1>11 DEF Turn, Top
<1>13. ~file.reading
  BY <1>1, <1>2 DEF Facts, Reading
<1>14. p + Len(Top.data) <= MaxSize /\ MaxSize \in Nat
  BY <1>1, <1>6, FileAssumption DEF Facts, Ends
<1>15. Ends'
  <2>1. q + Len(x) <= MaxSize
    BY <1>8, <1>9, <1>10, <1>14
  <2> QED
    BY <1>7, <1>8, <1>12, <1>13, <2>1 DEF Ends
<1>16. Reading' /\ Clean'
  BY <1>8, <1>9, <1>13 DEF Reading, Clean
<1>17. \A l : FrameOK(f, l)
  BY <1>1, <1>2, <1>8 DEF FrameOK
<1>18. f.back = -1
  BY <1>1, <1>2, <1>8 DEF FrameOK
<1>19. CASE Len(calls) = 1
  <2>1. DOMAIN calls' = {1} /\ calls'[1] = f
    BY <1>2, <1>11, <1>19 DEF Turn
  <2>2. Stacked(calls', q, Len(y), More', Coming')
    BY <1>8, <1>17, <2>1, SingleStacked DEF Outermost
  <2>3. /\ Position = p /\ Task = [op |-> "write", n |-> Len(Top.data)]
    BY <1>1, <1>6, <1>8, <1>18, <1>19, OuterIs
  <2>4. Position' = q
    <3>1. \A k \in DOMAIN calls' : calls'[k].back = -1
      BY <1>18, <2>1
    <3>2. PositionOf(calls', file'.pos) = file'.pos
      BY <3>1, SavedNone
    <3> QED
      BY <1>7, <3>2, NextTask
  <2>5. Task' = [op |-> "write", n |-> Len(x)]
    BY <1>8, <1>12, <2>1, NextTask DEF TaskOf
  <2>6. Puts(y, c, p, d) /\ p \in 0 .. Len(c)
    BY <1>5, <1>6, <1>10
  <2>7. Len(y) >= q /\ y = Promise!Spliced(c, p, SubSeq(y, p + 1, q))
    <3>1. /\ Len(y) >= p + Len(d)
          /\ y = Promise!Spliced(c, p, SubSeq(y, p + 1, p + Len(d)))
      <4>1. c \in Seq(Data) /\ p \in 0 .. Len(c) /\ d \in Seq(Data) /\ Puts(y, c, p, d)
        BY <1>8, <1>10, <2>6
      <4> QED
        BY ONLY <4>1, PutsPart
    <3>2. q = p + Len(d)
      BY <1>8
    <3> QED
      BY ONLY <3>1, <3>2
  <2>8. q \in p + 1 .. p + Len(Top.data)
    BY <1>8, <1>9, <1>10
  <2>9. Len(x) = Len(Top.data) - (q - p)
    BY <1>8, <1>9, <1>10
  <2>10. Task' = [Task EXCEPT !.n = @ - (Position' - Position)]
    BY <2>3, <2>4, <2>5, <2>9
  <2>11. Promise!Put
    BY <1>5, <1>6, <1>8, <1>10, <2>3, <2>4, <2>7, <2>8, <2>10 DEF Promise!Put
  <2>12. Nest'
    BY <1>6, <1>7, <2>2 DEF Nest
  <2>13. Promised
    BY <2>11 DEF Promised, Promise!Next
  <2>14. Meaning' /\ Typed'
    BY <1>5
  <2>15. Facts'
    BY ONLY <1>15, <1>16, <2>12, <2>14 DEF Facts
  <2> QED
    BY <2>13, <2>15
<1>20. CASE Len(calls) # 1
  <2>1. PICK n \in Nat : n = Len(calls) /\ n > 1
    <3>1. PICK n \in Nat : n = Len(calls) /\ n # 0
      BY <1>2
    <3>2. n > 1
      BY <1>20, <3>1
    <3> QED
      BY ONLY <3>1, <3>2
  <2>2. PICK g : g = calls[n - 1]
    OBVIOUS
  <2>3. /\ m = 1 /\ x = <<>> /\ g.back # -1 /\ p <= Len(c)
        /\ \/ /\ g.op \in {"fill", "truncate"} /\ d = <<0>> /\ p = Len(c)
              /\ p + 1 <= IF g.op = "fill" THEN g.back ELSE g.n
           \/ g.op = "flush" /\ d = <<c[p + 1]>> /\ p < Len(c)
    BY <1>1, <1>4, <1>6, <2>1, <2>2, ProgFor
  <2>4. SameTask(calls, calls')
    BY <1>1, <1>2, <1>8, <1>11, <2>1, TurnTask
  <2>5. n - 1 \in DOMAIN calls /\ Saved(calls) # {}
    <3>1. n - 1 \in DOMAIN calls
      BY <1>2, <2>1
    <3> QED
      BY <2>2, <2>3, <3>1 DEF Saved
  <2>6. Position' = Position /\ Task' = Task
    <3>1. PositionOf(calls', file'.pos) = PositionOf(calls, file.pos)
      BY <1>2, <2>4, <2>5, SavedSame DEF SameTask
    <3> QED
      BY <2>4, <3>1, NextTask, PositionTask DEF SameTask
  <2>7. /\ g.op = "truncate" => n = 2 /\ g.at = "grow"
        /\ g.op = "fill" => /\ n = 3 /\ calls[1].op = "write" /\ calls[1].at = "check"
                            /\ Fits(calls[1], g, p, Len(c), More, Coming)
        /\ g.op = "flush" => \A k \in DOMAIN calls : k < n => calls[k].op \notin Inner
    BY <1>1, <1>6, <2>1, <2>2, ProgUnder
  <2>8. FrameOK(g, Len(c)) /\ Framed(g) /\ \A k \in DOMAIN calls : FrameOK(calls[k], Len(c))
    BY <1>2, <1>6, <2>2, <2>5 DEF Stacked, IsStack
  <2>9. CASE g.op = "flush"
    <3>1. y = c
      BY <1>5, <1>6, <1>10, <2>3, <2>9, PutsSame
    <3>2. Fits(g, f, q, Len(y), More', Coming')
      BY <1>8, <2>3, <2>9 DEF Fits
    <3>3. \A k \in DOMAIN calls : k > 1 /\ k < Len(calls) =>
            Fits(calls[k - 1], calls[k], q, Len(y), More', Coming')
      <4> SUFFICES ASSUME NEW k \in DOMAIN calls, k > 1, k < Len(calls)
                   PROVE  Fits(calls[k - 1], calls[k], q, Len(y), More', Coming')
        OBVIOUS
      <4>1. Fits(calls[k - 1], calls[k], p, Len(c), More, Coming)
        BY <1>2, <1>6 DEF Stacked
      <4>2. calls[k].op \notin Inner
        BY <2>1, <2>7, <2>9
      <4> QED
        BY <3>1, <4>1, <4>2, FitsMoved
    <3>4. Stacked(calls', q, Len(y), More', Coming')
      BY <1>1, <1>2, <1>6, <1>8, <1>11, <1>17, <2>1, <2>2, <2>8, <3>1, <3>2, <3>3,
         MovedStacked
    <3>5. Promised
      BY <1>2, <1>5, <1>6, <1>8, <2>4, <2>5, <3>1, Stutters
    <3> QED
      BY <1>5, <1>6, <1>7, <1>15, <1>16, <3>4, <3>5 DEF Facts, Nest
  <2>10. CASE g.op \in {"fill", "truncate"}
    <3>1. 0 \in Data
      BY FileAssumption DEF Data
    <3>2. y = Append(c, 0) /\ Len(y) = Len(c) + 1
      BY <1>5, <1>6, <1>10, <2>3, <2>10, <3>1, PutsEnd
    <3>3. q = p + 1 /\ Len(y) = q /\ q \in Nat /\ p = Len(c)
      BY <1>8, <1>10, <2>3, <2>10, <3>2
    <3>4. Fits(g, f, q, Len(y), More', Coming')
      <4>1. Len(f.data) = 0 /\ f.data = <<>>
        BY <1>8, <2>3
      <4>2. q + 0 <= IF g.op = "fill" THEN g.back ELSE g.n
        BY <1>8, <2>3, <2>10, <3>3
      <4> QED
        BY <1>8, <2>10, <3>3, <4>1, <4>2 DEF Fits
    <3>5. Task.op = calls[1].op
          /\ (calls[1].op # "write" => Task.n = calls[1].n)
      BY <1>1, TaskIs
    <3>6. CASE g.op = "truncate"
      <4>1. n = 2 /\ g.at = "grow" /\ g = calls[1] /\ q <= g.n
        BY <2>2, <2>3, <2>7, <3>3, <3>6
      <4>2. \A k \in DOMAIN calls : k < Len(calls) => k = 1
        BY <1>2, <2>1, <4>1
      <4>3. FrameOK(g, Len(y))
        BY <2>8, <3>3, <3>6, <4>1 DEF FrameOK
      <4>4. \A k \in DOMAIN calls : k < Len(calls) => FrameOK(calls[k], Len(y))
        BY <4>1, <4>2, <4>3
      <4>5. \A k \in DOMAIN calls : k > 1 /\ k < Len(calls) =>
              Fits(calls[k - 1], calls[k], q, Len(y), More', Coming')
        BY <4>2
      <4>6. Stacked(calls', q, Len(y), More', Coming')
        BY <1>1, <1>2, <1>8, <1>11, <1>17, <2>1, <2>2, <3>4, <4>4, <4>5, MovedStacked
      <4>7. Promise!Pad
        <5>1. Task.op = "truncate" /\ Task.n = g.n /\ g.n \in Nat
          BY <2>8, <3>5, <3>6, <4>1 DEF Framed
        <5>2. Len(c) < g.n
          BY <3>3, <4>1, <5>1
        <5> QED
          BY <1>5, <1>6, <1>8, <2>6, <3>2, <5>1, <5>2 DEF Promise!Pad
      <4> QED
        BY <1>5, <1>6, <1>7, <1>15, <1>16, <4>6, <4>7 DEF Promised, Promise!Next, Facts, Nest
    <3>7. CASE g.op = "fill"
      <4>1. /\ n = 3 /\ g = calls[2] /\ q <= g.back
            /\ calls[1].op = "write" /\ calls[1].at = "check"
            /\ Fits(calls[1], g, p, Len(c), More, Coming)
        BY <2>2, <2>3, <2>7, <3>3, <3>7
      <4>2. \A k \in DOMAIN calls : k < Len(calls) => k = 1 \/ k = 2
        BY <1>2, <2>1, <4>1
      <4>3. FrameOK(g, Len(y)) /\ 1 \in DOMAIN calls /\ FrameOK(calls[1], Len(c))
        BY <1>2, <2>8, <3>7 DEF FrameOK
      <4>4. FrameOK(calls[1], Len(y))
        BY <4>1, <4>3 DEF FrameOK
      <4>5. \A k \in DOMAIN calls : k < Len(calls) => FrameOK(calls[k], Len(y))
        BY <4>1, <4>2, <4>3, <4>4
      <4>6. Fits(calls[1], g, q, Len(y), More', Coming')
        BY <3>3, <3>7, <4>1 DEF Fits
      <4>7. \A k \in DOMAIN calls : k > 1 /\ k < Len(calls) =>
              Fits(calls[k - 1], calls[k], q, Len(y), More', Coming')
        <5>1. 2 - 1 = 1
          OBVIOUS
        <5> QED
          BY <4>1, <4>2, <4>6, <5>1
      <4>8. Stacked(calls', q, Len(y), More', Coming')
        BY <1>1, <1>2, <1>8, <1>11, <1>17, <2>1, <2>2, <3>4, <4>5, <4>7, MovedStacked
      <4>9. Position = g.back
        <5>1. calls[1].back = -1
          BY <4>1, <4>3 DEF FrameOK
        <5>2. Saved(calls) = {2}
          <6>1. 3 \in DOMAIN calls /\ calls[3] = Top /\ calls[3].back = -1
            BY <1>2, <1>8, <1>18, <2>1, <4>1
          <6>2. DOMAIN calls = {1, 2, 3}
            BY <1>2, <2>1, <4>1
          <6> QED
            BY <2>3, <4>1, <5>1, <6>1, <6>2 DEF Saved
        <5>3. 2 \in Saved(calls) /\ Saved(calls) \subseteq Nat /\ \A l \in Saved(calls) : 2 <= l
          BY <5>2
        <5>4. PositionOf(calls, file.pos) = calls[2].back
          BY <5>3, SavedFirst
        <5> QED
          BY <4>1, <5>4, PositionTask
      <4>10. Promise!Pad
        <5>1. Task.op = "write"
          BY <3>5, <4>1
        <5>2. g.back \in Int
          BY <2>8, FileAssumption DEF FrameOK
        <5>3. Len(c) < g.back
          BY <3>3, <4>1, <5>2
        <5> QED
          BY <1>5, <1>6, <1>8, <2>6, <3>2, <4>9, <5>1, <5>3 DEF Promise!Pad
      <4> QED
        BY <1>5, <1>6, <1>7, <1>15, <1>16, <4>8, <4>10 DEF Promised, Promise!Next, Facts, Nest
    <3> QED
      BY <2>10, <3>6, <3>7
  <2> QED
    BY <2>3, <2>9, <2>10
<1> QED
  BY <1>19, <1>20

-----------------------------------------------------------------------------
\* The start

\* Block k, counted from 1, of a file of n cells.
FirstBlock(o, k, n) ==
  [prev |-> IF k = 1 THEN Null ELSE o[k - 1],
   data |-> [i \in 1 .. Smaller(BlockSize, n - (k - 1) * BlockSize) |->
               MaxOps + (k - 1) * BlockSize + i]]

\* The file has the blocks of o, in this order.
LaidOut(o, n) ==
  /\ n \in Nat \ {0} /\ n <= MaxSize /\ entry.head = o[Index(n - 1) + 1]
  /\ \A k \in 1 .. Index(n - 1) + 1 : o[k] \in Blocks /\ disk[o[k]] = FirstBlock(o, k, n)
  /\ \A b \in Blocks : \/ disk[b] = Erased
                       \/ \E k \in 1 .. Index(n - 1) + 1 : b = o[k]

\* At the start a file that is not in its directory has such blocks.
LEMMA InitialLaid ==
  ASSUME Init
  PROVE  /\ entry.head = Inline => \A b \in Blocks : disk[b] = Erased
         /\ entry.head # Inline => \E o : LaidOut(o, entry.size)
<1>1. PICK order \in {s \in [1 .. MaxSize \div BlockSize + 1 -> Blocks] : IsInjective(s)} :
        /\ entry.head # Inline => entry.head = order[Index(entry.size - 1) + 1]
        /\ disk = [b \in Blocks |->
            IF entry.head # Inline
                 /\ \E k \in 1 .. Index(entry.size - 1) + 1 : order[k] = b
            THEN LET k == CHOOSE i \in DOMAIN order : order[i] = b IN
                 [prev |-> IF k = 1 THEN Null ELSE order[k - 1],
                  data |-> [i \in 1 .. Smaller(BlockSize,
                                          entry.size - (k - 1) * BlockSize) |->
                              MaxOps + (k - 1) * BlockSize + i]]
            ELSE Erased]
  BY DEF Init
<1>2. PICK m : m = MaxSize \div BlockSize + 1
  OBVIOUS
<1>3. /\ order \in [1 .. m -> Blocks] /\ DOMAIN order = 1 .. m
      /\ \A i \in 1 .. m : \A j \in 1 .. m : order[i] = order[j] => i = j
  BY <1>1, <1>2 DEF IsInjective
<1>4. entry.head = Inline => \A b \in Blocks : disk[b] = Erased
  BY <1>1
<1>5. ASSUME entry.head # Inline PROVE LaidOut(order, entry.size)
  <2>1. PICK n : n = entry.size
    OBVIOUS
  <2>2. n \in Nat \ {0} /\ n <= MaxSize /\ MaxSize \in Nat
    BY <1>5, <2>1, InitialEntry, FileAssumption
  <2>3. PICK q \in Nat : q = Index(n - 1) /\ q + 1 <= m
    <3>1. PICK p \in Nat : p = n - 1 /\ p <= MaxSize
      BY <2>2
    <3>2. Index(p) <= Index(MaxSize) /\ Index(p) \in Nat /\ Index(MaxSize) \in Nat
      BY <2>2, <3>1, IndexGrows, IndexSplit
    <3>3. m = Index(MaxSize) + 1
      BY <1>2 DEF Index
    <3>4. Index(p) + 1 <= m
      BY <3>2, <3>3
    <3> QED
      BY <3>1, <3>2, <3>4
  <2>4. m \in Nat
    <3>1. Index(MaxSize) \in Nat
      BY <2>2, IndexSplit
    <3> QED
      BY <1>2, <3>1 DEF Index
  <2>5. entry.head = order[q + 1]
    BY <1>1, <1>5, <2>1, <2>3
  <2>6. ASSUME NEW k \in 1 .. q + 1
        PROVE  order[k] \in Blocks /\ disk[order[k]] = FirstBlock(order, k, n)
    <3>1. k \in 1 .. m
      BY <2>3, <2>4
    <3>2. PICK b : b = order[k] /\ b \in Blocks
      BY <1>3, <3>1
    <3>3. PICK j : j = CHOOSE i \in DOMAIN order : order[i] = b
      OBVIOUS
    <3>4. j \in DOMAIN order /\ order[j] = b
      BY <1>3, <3>1, <3>2, <3>3
    <3>5. j = k
      BY <1>3, <3>1, <3>2, <3>4
    <3>6. disk[b] = FirstBlock(order, CHOOSE i \in DOMAIN order : order[i] = b, n)
      BY <1>1, <1>5, <2>1, <2>3, <3>2 DEF FirstBlock
    <3>7. disk[b] = FirstBlock(order, k, n)
      BY <3>3, <3>5, <3>6
    <3> QED
      BY <3>2, <3>7
  <2>7. ASSUME NEW b \in Blocks, disk[b] # Erased
        PROVE  \E k \in 1 .. q + 1 : b = order[k]
    BY <1>1, <2>1, <2>3, <2>7
  <2>8. LaidOut(order, n)
    BY <2>2, <2>3, <2>5, <2>6, <2>7 DEF LaidOut
  <2> QED
    BY <2>1, <2>8
<1> QED
  BY <1>4, <1>5

\* What a block holds then.
LEMMA FirstIs ==
  ASSUME NEW o, NEW n \in Nat, n <= MaxSize, NEW k \in Nat, Start(k) < n
  PROVE  /\ FirstBlock(o, k + 1, n).prev = IF k = 0 THEN Null ELSE o[k]
         /\ FirstBlock(o, k + 1, n).data \in Seq(Data)
         /\ Len(FirstBlock(o, k + 1, n).data) <= BlockSize
         /\ \A t \in 0 .. BlockSize - 1 : Start(k) + t < n =>
              /\ t + 1 \in DOMAIN FirstBlock(o, k + 1, n).data
              /\ FirstBlock(o, k + 1, n).data[t + 1] = MaxOps + (Start(k) + t) + 1
<1>1. PICK x : x = Start(k)
  OBVIOUS
<1>2. x \in Nat /\ x < n
  BY <1>1, StartIs
<1>3. PICK z : z = BlockSize
  OBVIOUS
<1>4. z \in Nat \ {0} /\ MaxOps \in Nat /\ MaxSize \in Nat
  BY <1>3, FileAssumption
<1>5. PICK m : m = Smaller(z, n - x)
  OBVIOUS
<1>6. m \in Nat /\ m <= z /\ m <= n - x /\ (m = z \/ m = n - x)
  BY <1>2, <1>4, <1>5 DEF Smaller
<1>7. PICK f : f = [i \in 1 .. m |-> MaxOps + x + i]
  OBVIOUS
<1>8. (k + 1) - 1 = k /\ (k + 1 = 1 <=> k = 0)
  OBVIOUS
<1>9. FirstBlock(o, k + 1, n) = [prev |-> IF k = 0 THEN Null ELSE o[k], data |-> f]
  <2>1. ((k + 1) - 1) * BlockSize = x
    BY <1>1, <1>8 DEF Start
  <2> QED
    BY <1>3, <1>5, <1>7, <1>8, <2>1 DEF FirstBlock
<1>10. \A i \in 1 .. m : MaxOps + x + i \in Data
  <2> SUFFICES ASSUME NEW i \in 1 .. m PROVE MaxOps + x + i \in Data
    OBVIOUS
  <2>1. x + i <= MaxSize /\ x + i \in Nat
    BY <1>2, <1>4, <1>6
  <2>2. MaxOps + x + i \in 0 .. MaxOps + MaxSize + z
    BY <1>2, <1>4, <2>1
  <2> QED
    BY <1>3, <2>2 DEF Data
<1>11. f \in Seq(Data) /\ Len(f) = m /\ DOMAIN f = 1 .. m
  <2>1. f \in [1 .. m -> Data]
    BY <1>7, <1>10
  <2> QED
    BY <1>6, <2>1
<1>12. ASSUME NEW t \in 0 .. z - 1, x + t < n
       PROVE  t + 1 \in DOMAIN f /\ f[t + 1] = MaxOps + (x + t) + 1
  <2>1. t + 1 \in 1 .. m
    BY <1>2, <1>4, <1>6, <1>12
  <2>2. f[t + 1] = MaxOps + x + (t + 1)
    BY <1>7, <2>1
  <2>3. MaxOps + x + (t + 1) = MaxOps + (x + t) + 1
    BY <1>2, <1>4
  <2> QED
    BY <1>11, <2>1, <2>2, <2>3
<1> QED
  BY <1>1, <1>3, <1>6, <1>9, <1>11, <1>12

\* The blocks of such a file, each with its place.
LEMMA LaidIs ==
  ASSUME NEW o, NEW n, LaidOut(o, n), NEW q, q = Index(n - 1)
  PROVE  /\ n \in Nat \ {0} /\ n <= MaxSize /\ q \in Nat /\ entry.head = o[q + 1]
         /\ \A k \in 0 .. q : /\ o[k + 1] \in Blocks /\ Start(k) < n
                              /\ disk[o[k + 1]] = FirstBlock(o, k + 1, n)
         /\ \A b \in Blocks : disk[b] = Erased \/ \E k \in 0 .. q : b = o[k + 1]
<1>1. /\ n \in Nat \ {0} /\ n <= MaxSize /\ entry.head = o[q + 1]
      /\ \A k \in 1 .. q + 1 : o[k] \in Blocks /\ disk[o[k]] = FirstBlock(o, k, n)
      /\ \A b \in Blocks : disk[b] = Erased \/ \E k \in 1 .. q + 1 : b = o[k]
  BY DEF LaidOut
<1>2. PICK p \in Nat : p = n - 1 /\ p < n
  BY <1>1
<1>3. q \in Nat
  BY <1>2, PlaceOf
<1>4. PICK t \in 0 .. BlockSize - 1 : p = Start(q) + t
  BY <1>2, PlaceOf
<1>5. ASSUME NEW k \in 0 .. q
      PROVE  o[k + 1] \in Blocks /\ Start(k) < n /\ disk[o[k + 1]] = FirstBlock(o, k + 1, n)
  <2>1. k + 1 \in 1 .. q + 1 /\ k \in Nat
    BY <1>3
  <2>2. Start(k) \in Nat /\ Start(q) \in Nat /\ BlockSize \in Nat
    BY <1>3, <2>1, StartIs, FileAssumption
  <2>3. Start(k) <= Start(q)
    <3>1. CASE k < q
      <4>1. Start(k) + BlockSize <= Start(q)
        BY <1>3, <2>1, <3>1, StartGrows
      <4> QED
        BY <2>2, <4>1
    <3>2. CASE k = q
      BY <2>2, <3>2
    <3> QED
      BY <1>3, <3>1, <3>2
  <2>4. Start(k) < n
    BY <1>1, <1>2, <1>4, <2>2, <2>3
  <2> QED
    BY <1>1, <2>1, <2>4
<1>6. ASSUME NEW b \in Blocks, disk[b] # Erased PROVE \E k \in 0 .. q : b = o[k + 1]
  <2>1. PICK i \in 1 .. q + 1 : b = o[i]
    BY <1>1, <1>6
  <2>2. PICK k : k = i - 1
    OBVIOUS
  <2>3. k \in 0 .. q /\ k + 1 = i
    BY <1>3, <2>2
  <2> QED
    BY <2>1, <2>3
<1> QED
  BY <1>1, <1>3, <1>5, <1>6

\* The way back through it.
LEMMA LaidBack ==
  ASSUME NEW o, NEW n, LaidOut(o, n), NEW q, q = Index(n - 1)
  PROVE  \A j \in Nat : j <= q => Before(disk, entry.head, j) = o[(q - j) + 1]
<1>1. /\ n \in Nat \ {0} /\ n <= MaxSize /\ q \in Nat /\ entry.head = o[q + 1]
      /\ \A k \in 0 .. q : /\ o[k + 1] \in Blocks /\ Start(k) < n
                           /\ disk[o[k + 1]] = FirstBlock(o, k + 1, n)
  BY LaidIs
<1>2. PICK h : h = entry.head
  OBVIOUS
<1> DEFINE S == {j \in Nat : j <= q => Before(disk, h, j) = o[(q - j) + 1]}
<1>3. 0 \in S
  <2>1. (q - 0) + 1 = q + 1
    BY <1>1
  <2> QED
    BY <1>1, <1>2, <2>1, BeforeIs
<1>4. ASSUME NEW j \in Nat, j \in S PROVE j + 1 \in S
  <2> SUFFICES ASSUME j + 1 <= q PROVE Before(disk, h, j + 1) = o[(q - (j + 1)) + 1]
    OBVIOUS
  <2>1. PICK k \in Nat : k = q - j /\ k \in 0 .. q /\ k # 0 /\ j <= q
    BY <1>1
  <2>2. Before(disk, h, j) = o[k + 1]
    BY <1>4, <2>1
  <2>3. o[k + 1] \in Blocks /\ disk[o[k + 1]] = FirstBlock(o, k + 1, n) /\ Start(k) < n
    BY <1>1, <2>1
  <2>4. disk[o[k + 1]].prev = o[k]
    <3>1. n \in Nat
      BY <1>1
    <3>2. n <= MaxSize /\ Start(k) < n /\ k \in Nat
      BY <1>1, <2>1, <2>3
    <3>3. FirstBlock(o, k + 1, n).prev = IF k = 0 THEN Null ELSE o[k]
      BY ONLY <3>1, <3>2, FirstIs
    <3> QED
      BY <2>1, <2>3, <3>3
  <2>5. Before(disk, h, j + 1) = o[k]
    <3>1. PICK b : b = o[k + 1]
      OBVIOUS
    <3>2. Before(disk, h, j + 1) = Prev(disk, Before(disk, h, j))
      BY BeforeIs
    <3>3. Prev(disk, b) = disk[b].prev
      BY <2>3, <3>1 DEF Prev
    <3> QED
      BY <2>2, <2>4, <3>1, <3>2, <3>3
  <2>6. (q - (j + 1)) + 1 = k
    BY <1>1, <2>1
  <2> QED
    BY <2>5, <2>6
<1>5. Nat \subseteq S
  <2> HIDE DEF S
  <2> QED
    BY <1>3, <1>4, Upwards
<1> QED
  BY <1>2, <1>5

\* What the file holds at the start.
LEMMA LaidHolds ==
  ASSUME NEW o, NEW n, LaidOut(o, n)
  PROVE  \E s \in Seq(Data) : Len(s) = n /\ List(disk, entry.head, s)
<1>1. PICK q : q = Index(n - 1)
  OBVIOUS
<1>2. /\ n \in Nat \ {0} /\ n <= MaxSize /\ q \in Nat /\ entry.head = o[q + 1]
      /\ \A k \in 0 .. q : /\ o[k + 1] \in Blocks /\ Start(k) < n
                           /\ disk[o[k + 1]] = FirstBlock(o, k + 1, n)
  BY <1>1, LaidIs
<1>3. PICK h : h = entry.head
  OBVIOUS
<1>4. \A j \in Nat : j <= q => Before(disk, h, j) = o[(q - j) + 1]
  BY <1>1, <1>3, LaidBack
<1>5. PICK s : s = [i \in 1 .. n |-> MaxOps + i]
  OBVIOUS
<1>6. s \in Seq(Data) /\ Len(s) = n
  <2>1. MaxOps \in Nat /\ MaxSize \in Nat /\ BlockSize \in Nat
    BY FileAssumption
  <2>2. \A i \in 1 .. n : MaxOps + i \in Data
    BY <1>2, <2>1 DEF Data
  <2>3. s \in [1 .. n -> Data]
    BY <1>5, <2>2
  <2> QED
    BY <1>2, <2>3
<1>7. ASSUME NEW p \in Nat, p < n
      PROVE  Index(p) <= q /\ Stores(disk, Before(disk, h, q - Index(p)), p, s[p + 1])
  <2>1. PICK k \in Nat, t \in 0 .. BlockSize - 1 :
          k = Index(p) /\ p = Start(k) + t /\ p % BlockSize = t
    BY PlaceOf
  <2>2. k <= q
    <3>1. PICK i \in Nat : i = n - 1 /\ p <= i
      BY <1>2, <1>7
    <3> QED
      BY <1>1, <2>1, <3>1, IndexGrows
  <2>3. k \in 0 .. q /\ q - k \in Nat /\ q - k <= q /\ q - (q - k) = k
    BY <1>2, <2>1, <2>2
  <2>4. PICK b : b = o[k + 1]
    OBVIOUS
  <2>5. Before(disk, h, q - k) = b
    BY <1>4, <2>3, <2>4
  <2>6. b \in Blocks /\ disk[b] = FirstBlock(o, k + 1, n) /\ Start(k) < n
    BY <1>2, <2>3, <2>4
  <2>7. t + 1 \in DOMAIN disk[b].data /\ disk[b].data[t + 1] = MaxOps + (Start(k) + t) + 1
    <3>1. n \in Nat
      BY <1>2
    <3>2. /\ t + 1 \in DOMAIN FirstBlock(o, k + 1, n).data
          /\ FirstBlock(o, k + 1, n).data[t + 1] = MaxOps + (Start(k) + t) + 1
      BY <1>2, <1>7, <2>1, <2>6, <3>1, FirstIs
    <3> QED
      BY <2>6, <3>2
  <2>8. s[p + 1] = MaxOps + p + 1
    <3>1. p + 1 \in 1 .. n
      BY <1>2, <1>7
    <3>2. MaxOps + (p + 1) = MaxOps + p + 1
      BY FileAssumption
    <3> QED
      BY <1>5, <3>1, <3>2
  <2>9. Stores(disk, b, p, s[p + 1])
    BY <2>1, <2>6, <2>7, <2>8 DEF Stores
  <2> QED
    BY <2>1, <2>2, <2>5, <2>9
<1>8. Holds(disk, h, q, s)
  BY <1>6, <1>7 DEF Holds
<1>9. h \in Blocks
  BY <1>2, <1>3
<1> QED
  BY <1>1, <1>3, <1>6, <1>8, <1>9 DEF List

\* At the start the state means something: the entry, and a handle that is closed.
LEMMA InitialFacts ==
  ASSUME Init, FileInv
  PROVE  Facts
<1>1. /\ file = Fresh /\ calls = <<>> /\ ops = 0 /\ flight = {}
  BY DEF Init
<1>2. /\ ~file.open /\ ~file.writing /\ ~file.reading /\ file.inline
      /\ file.erred = FALSE /\ file.pos = 0 /\ file.off = 0 /\ file.cur = Erased
      /\ file.ctz.size = 0 /\ file.ctz.buf = <<>>
  BY <1>1, FreshIs DEF Fresh
<1>3. PICK n : n = entry.size
  OBVIOUS
<1>4. n \in Nat /\ n <= MaxSize /\ MaxSize \in Nat /\ MaxOps \in Nat /\ BlockSize \in Nat
  BY <1>3, InitialEntry, FileAssumption
<1>5. /\ entry.buf \in Seq(Data)
      /\ entry.head = Inline => Len(entry.buf) = n
  <2>1. PICK order \in [1 .. MaxSize \div BlockSize + 1 -> Blocks] :
          entry \in Entries(Inline) \cup UNION {Entries(order[k]) : k \in DOMAIN order}
    BY DEF Init
  <2>2. CASE entry \in Entries(Inline)
    <3>1. PICK m \in 0 .. Smaller(InlineMax, MaxSize) :
            entry = [head |-> Inline, size |-> m, buf |-> [k \in 1 .. m |-> MaxOps + k]]
      BY <2>2 DEF Entries
    <3>2. m = n
      BY <1>3, <3>1
    <3>3. PICK s : s = [k \in 1 .. n |-> MaxOps + k]
      OBVIOUS
    <3>4. \A i \in 1 .. n : MaxOps + i \in Data
      BY <1>4 DEF Data
    <3>5. s \in [1 .. n -> Data]
      BY <3>3, <3>4
    <3>6. s \in Seq(Data) /\ Len(s) = n
      BY <1>4, <3>5
    <3> QED
      BY <3>1, <3>2, <3>3, <3>6
  <2>3. ASSUME NEW k \in DOMAIN order, entry \in Entries(order[k])
        PROVE  entry.buf = <<>> /\ entry.head # Inline
    <3>1. order[k] \in Blocks /\ order[k] # Inline
      BY FileAssumption DEF Inline
    <3>2. PICK m \in InlineMax + 1 .. MaxSize :
            entry = [head |-> order[k], size |-> m, buf |-> <<>>]
      BY <2>3, <3>1 DEF Entries
    <3> QED
      BY <3>1, <3>2
  <2>4. <<>> \in Seq(Data)
    OBVIOUS
  <2> QED
    BY <2>1, <2>2, <2>3, <2>4
<1>6. \E s : Stored(s, entry, disk)
  <2>1. CASE entry.head = Inline
    <3>1. PICK t : t = entry.buf
      OBVIOUS
    <3>2. t \in Seq(Data) /\ Len(t) = n
      BY <1>5, <2>1, <3>1
    <3>3. PICK s : s = SubSeq(t, 1, n)
      OBVIOUS
    <3>4. s \in Seq(Data) /\ Len(s) = n
      BY <1>4, <3>2, <3>3
    <3>5. n <= Len(t)
      BY <1>4, <3>2
    <3>6. Stored(s, entry, disk)
      BY <1>3, <2>1, <3>1, <3>3, <3>4, <3>5 DEF Stored
    <3> QED
      BY <3>6
  <2>2. CASE entry.head # Inline
    <3>1. PICK o : LaidOut(o, n)
      BY <1>3, <2>2, InitialLaid
    <3>2. PICK s \in Seq(Data) : Len(s) = n /\ List(disk, entry.head, s)
      BY <3>1, LaidHolds
    <3>3. Stored(s, entry, disk)
      BY <1>3, <2>2, <3>2 DEF Stored
    <3> QED
      BY <3>3
  <2> QED
    BY <2>1, <2>2
<1>7. Meaning
  <2>1. PICK s : Stored(s, entry, disk)
    BY <1>6
  <2>2. s \in Seq(Data)
    BY <2>1 DEF Stored
  <2>3. ~W
    BY <1>2 DEF W
  <2>4. Meant(s, s)
    BY <1>1, <1>2, <2>1, <2>2, <2>3 DEF Meant
  <2> QED
    BY <2>4 DEF Meaning
<1>8. ASSUME NEW b \in Blocks
      PROVE  /\ disk[b].prev \in Blocks \cup {Null}
             /\ disk[b].data \in Seq(Data) /\ Len(disk[b].data) <= BlockSize
  <2>1. <<>> \in Seq(Data) /\ Len(<<>>) = 0 /\ 0 <= BlockSize
    BY <1>4
  <2>2. CASE disk[b] = Erased
    BY <2>1, <2>2 DEF Erased
  <2>3. CASE disk[b] # Erased
    <3>1. entry.head # Inline
      BY <2>3, InitialLaid
    <3>2. PICK o : LaidOut(o, n)
      BY <1>3, <3>1, InitialLaid
    <3>3. PICK q : q = Index(n - 1)
      OBVIOUS
    <3>4. /\ q \in Nat
          /\ \A k \in 0 .. q : /\ o[k + 1] \in Blocks /\ Start(k) < n
                               /\ disk[o[k + 1]] = FirstBlock(o, k + 1, n)
          /\ \E k \in 0 .. q : b = o[k + 1]
      BY <2>3, <3>2, <3>3, LaidIs
    <3>5. PICK k \in 0 .. q : b = o[k + 1]
      BY <3>4
    <3>6. k \in Nat /\ disk[b] = FirstBlock(o, k + 1, n) /\ Start(k) < n
      BY <3>4, <3>5
    <3>7. /\ disk[b].prev = IF k = 0 THEN Null ELSE o[k]
          /\ disk[b].data \in Seq(Data) /\ Len(disk[b].data) <= BlockSize
      <4>1. /\ FirstBlock(o, k + 1, n).prev = IF k = 0 THEN Null ELSE o[k]
            /\ FirstBlock(o, k + 1, n).data \in Seq(Data)
            /\ Len(FirstBlock(o, k + 1, n).data) <= BlockSize
        BY <1>4, <3>6, FirstIs
      <4> QED
        BY <3>6, <4>1
    <3>8. k # 0 => o[k] \in Blocks
      <4> SUFFICES ASSUME k # 0 PROVE o[k] \in Blocks
        OBVIOUS
      <4>1. PICK j : j = k - 1
        OBVIOUS
      <4>2. j \in 0 .. q /\ j + 1 = k
        BY <3>4, <3>6, <4>1
      <4> QED
        BY <3>4, <4>2
    <3> QED
      BY <3>7, <3>8
  <2> QED
    BY <2>2, <2>3
<1>9. Typed
  <2>1. 0 \in Sizes /\ 0 \in 0 .. BlockSize /\ <<>> \in Seq(Data) /\ Len(<<>>) = 0 /\ 0 <= BlockSize
    BY <1>4 DEF Sizes
  <2>2. file.cur.prev = Null /\ file.cur.data = <<>>
    BY <1>2 DEF Erased
  <2>3. Len(file.cur.data) <= BlockSize
    BY <2>1, <2>2
  <2>4. ~W /\ ops \in 0 .. MaxOps /\ flight \subseteq Blocks /\ entry.size \in Sizes
    BY <1>1, <1>2, <1>3, <1>4 DEF W, Sizes
  <2> QED
    BY <1>2, <1>5, <1>8, <2>1, <2>2, <2>3, <2>4 DEF Typed
<1>10. Nest
  <2>1. Stacked(calls, file.pos, Len(Content), More, Coming)
    BY <1>1, SingleStacked
  <2> QED
    BY <2>1 DEF Nest
<1> QED
  BY <1>1, <1>2, <1>7, <1>9, <1>10 DEF Facts, Ends, Reading, Clean

\* At the start the promise is that of a closed handle.
LEMMA InitialPromise ==
  ASSUME Init, FileInv, Facts
  PROVE  Promise!Init
<1>1. /\ file = Fresh /\ calls = <<>> /\ ret = Nothing
  BY DEF Init
<1>2. ~file.open /\ file.erred = FALSE /\ file.pos = 0
  BY <1>1 DEF Fresh
<1>3. Content = Contents(entry)
  BY <1>2 DEF Content
<1>4. Task = Promise!NoTask
  BY <1>1 DEF Task, Promise!NoTask
<1>5. Position = 0
  <2>1. DOMAIN calls = {}
    BY <1>1
  <2>2. PositionOf(calls, file.pos) = file.pos
    BY <2>1, SavedNone
  <2> QED
    BY <1>2, <2>2, PositionTask
<1> QED
  BY <1>1, <1>2, <1>3, <1>4, <1>5 DEF Promise!Init, Promise!Nothing, Nothing

-----------------------------------------------------------------------------
\* The promise is kept

\* Every step of the functions keeps what the state means, and is a step of the
\* promise or none.
LEMMA StepKeeps ==
  ASSUME ~FullElsewhere, Mild, \A n \in Cuts : n # 0 => n % BlockSize # 0,
         FileInv, Settled, FileInv', Facts, Step
  PROVE  Facts' /\ Promised
<1>1. CASE WriteBegin \/ Fill \/ Check \/ WriteEnds \/ NeedsBlock \/ Refill \/ NoSpace
  BY <1>1, WriteBeginKeeps, FillKeeps, CheckKeeps, WriteEndsKeeps, NeedsBlockKeeps,
     RefillKeeps, NoSpaceKeeps
<1>2. CASE Extend \/ Prog \/ Relocate \/ FlushBegin \/ Copy \/ Drain \/ Flush
  BY <1>2, ExtendKeeps, ProgKeeps, RelocateKeeps, FlushBeginKeeps, CopyKeeps,
     DrainKeeps, FlushKeeps
<1>3. CASE Commit \/ CommitFull \/ CommitFails \/ Synced \/ CloseBegin \/ Closed
  BY <1>3, CommitKeeps, CommitFullKeeps, CommitFailsKeeps, SyncedKeeps,
     CloseBeginKeeps, ClosedKeeps
<1>4. CASE Move \/ Fetch \/ TruncateBegin \/ Cut \/ Grow \/ Restore \/ Truncated
  BY <1>4, MoveKeeps, FetchKeeps, TruncateBeginKeeps, CutKeeps, GrowKeeps,
     RestoreKeeps, TruncatedKeeps
<1>5. CASE EraseFails \/ CopyFails \/ FlushFails
  BY <1>5, EraseFailsKeeps, CopyFailsKeeps, FlushFailsKeeps
<1>6. ~ProgFails /\ ~ExtendFails /\ ~ExtendMisread /\ ~CopyMisread /\ ~FetchFails
        /\ ~FetchStale
  BY MildIs
<1> QED
  BY <1>1, <1>2, <1>3, <1>4, <1>5, <1>6 DEF Step

\* So does every step of the system.
LEMMA NextKeeps ==
  ASSUME MaxBad = 0, ~FullElsewhere, Mild, \A n \in Cuts : n # 0 => n % BlockSize # 0,
         FileInv, Settled, Facts, [Next]_vars
  PROVE  FileInv' /\ Facts' /\ Promised
<1>1. FileInv'
  BY NextHolds
<1>2. CASE API \/ Step
  BY <1>1, <1>2, APIKeeps, StepKeeps
<1>3. CASE AckElsewhere \/ Crash
  BY <1>1, <1>3, AckElsewhereKeeps, CrashKeeps
<1>4. ~Wear
  <2>1. bad = {}
    BY DEF FileInv, Shape
  <2>2. Cardinality(bad) = 0
    BY <2>1, FS_EmptySet
  <2> QED
    BY <2>2 DEF Wear
<1>5. CASE UNCHANGED vars
  <2>1. UNCHANGED <<entry, disk, file, calls, ops, ret, flight>>
    BY <1>5 DEF vars, alloc
  <2>2. flight' \subseteq Blocks
    BY <2>1 DEF Facts, Typed
  <2> QED
    BY <1>1, <2>1, <2>2, SameFacts
<1> QED
  BY <1>1, <1>2, <1>3, <1>4, <1>5 DEF Next

\* The state always means something: a list of the storage, or what is written
\* and the rest of the old list.  On a device without bad blocks whose own errors
\* are those of an erase, of the reads and the last program of lfs_file_flush, and
\* of a commit; with a directory that fills up at the end of a file only; and
\* without truncations to a multiple of the block size, but 0.
THEOREM FactsCorrect ==
  ASSUME MaxBad = 0, ~FullElsewhere, Mild,
         \A n \in Cuts : n # 0 => n % BlockSize # 0
  PROVE  Spec => [](FileInv /\ Settled /\ Facts)
<1>1. Init => Facts
  BY InitHolds, InitialFacts
<1>2. FileInv /\ Settled /\ Facts /\ [Next]_vars => Facts'
  BY NextKeeps
<1> QED
  BY <1>1, <1>2, FileInvCorrect, PTL DEF Spec

\* An open file behaves as contents of its own that a sync stores at once
\* (lfs_file_write, _flush, _sync, _truncate, _seek, _read, _close): under the same
\* conditions every step of the code is a step of that promise, or none.
THEOREM KeepsItsPromiseCorrect ==
  ASSUME MaxBad = 0, ~FullElsewhere, Mild,
         \A n \in Cuts : n # 0 => n % BlockSize # 0
  PROVE  Spec => KeepsItsPromise
<1>1. Init => Promise!Init
  BY InitHolds, InitialFacts, InitialPromise
<1>2. FileInv /\ Settled /\ Facts /\ [Next]_vars => [Promise!Next]_(Promise!vars)
  BY NextKeeps DEF Promised
<1> QED
  BY <1>1, <1>2, FactsCorrect, PTL DEF Spec, KeepsItsPromise, Promise!Spec

\* What is stored has its head on the device or in the directory.
LEMMA StoredHead ==
  ASSUME NEW s, NEW e, NEW d, Stored(s, e, d)
  PROVE  e.head \in Blocks \cup {Inline}
BY DEF Stored, List

\* The shape of the state: sizes, offsets and pointers stay in their ranges.
THEOREM TypeOKCorrect ==
  ASSUME MaxBad = 0, ~FullElsewhere, Mild,
         \A n \in Cuts : n # 0 => n % BlockSize # 0
  PROVE  Spec => []TypeOK
<1>1. FileInv /\ Facts => TypeOK
  <2> SUFFICES ASSUME FileInv, Facts PROVE TypeOK
    OBVIOUS
  <2>1. entry.head \in Blocks \cup {Inline}
    <3>1. PICK s, c : Meant(s, c)
      BY DEF Facts, Meaning
    <3>2. Stored(s, entry, disk)
      BY <3>1 DEF Meant
    <3> QED
      BY <3>2, StoredHead
  <2>2. /\ entry.size \in Sizes
        /\ \A b \in Blocks : /\ disk[b].prev \in Blocks \cup {Null}
                             /\ Len(disk[b].data) <= BlockSize
        /\ flight \subseteq Blocks /\ file.ctz.size \in Sizes /\ file.pos \in Sizes
        /\ file.off \in 0 .. BlockSize /\ file.ctz.buf \in Seq(Data)
    BY DEF Facts, Typed
  <2>3. bad \subseteq Blocks /\ window \subseteq Blocks
    BY DEF FileInv, Shape
  <2>4. file.reading => ~file.writing
    BY DEF Facts, Reading
  <2>5. file.writing /\ ~file.inline => file.block \in Blocks
    BY DEF FileInv, Geometry, W
  <2>6. Range(file.ctz.buf) \subseteq Data
    <3>1. PICK t : t = file.ctz.buf
      OBVIOUS
    <3>2. t \in Seq(Data)
      BY <2>2, <3>1
    <3>3. Range(t) \subseteq Data
      BY <3>2 DEF Range
    <3> QED
      BY <3>1, <3>3
  <2> QED
    BY <2>1, <2>2, <2>3, <2>4, <2>5, <2>6 DEF TypeOK
<1> QED
  BY <1>1, FactsCorrect, PTL
=============================================================================
