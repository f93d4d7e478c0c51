---------------------------- MODULE LfsToolProofs ---------------------------
(***************************************************************************)
(* Proofs about lfs-tool's traversal, for every source tree, every content *)
(* and every buffer size, with or without faults.  The invariants below    *)
(* are what the recursion of traversal and the loop of process_file keep   *)
(* true; each is proved from the ones before it.                           *)
(***************************************************************************)
EXTENDS LfsTool, SequenceTheorems, TLAPS

\* The calls of process_file, those made while the source directory is open,
\* and all calls of the traversal.
FilePcs == {"openout", "openin", "read", "write", "closein", "closeout"}
OpenPcs == {"readdir", "closedir"} \cup FilePcs
TreePcs == {"mkdir", "opendir", "return"} \cup OpenPcs

\* process_file works on a file of the tree, and holds the handles that its
\* position says.
InHand ==
  /\ IF pc \in FilePcs THEN file \in Files ELSE file = Nobody
  /\ fds = {h \in {"in", "out"} :
              \/ h = "in" /\ pc \in {"read", "write", "closein"}
              \/ h = "out" /\ pc \in FilePcs \ {"openout"}}

\* The stack of the recursion: the open directories and the one at hand lead
\* from it up to Root, one below the other; readdir reports entries of the
\* directory it reads only.
Active == dirh \cup {cur}
Chain ==
  /\ cur \in dirh <=> pc \in OpenPcs
  /\ pc \notin TreePcs => cur = Root
  /\ \A d \in Active \ {Root} : Parent[d] \in dirh /\ Parent[d] # cur
  /\ \A d, e \in Active \ {Root} : Parent[d] = Parent[e] => d = e
  /\ \A d \in Dirs : left[d] \subseteq Children(d) \cup Dots

\* Where the run stands: CHECK_ERROR leaves the loop at the first error, and
\* the traversal runs on a mounted image only.
Status ==
  /\ pc \in {"get", "mount", "mkdir", "opendir", "readdir"}
            \cup (FilePcs \ {"closein", "closeout"}) => res = 0
  /\ result # 0 => pc \in {"unmount", "exited", "crashed"}
  /\ pc \in TreePcs => opaque = "live"
  /\ pc = "unmount" /\ result = 0 => opaque = "live"

\* What is being visited or has been visited is not ahead of readdir, and the
\* other way round: a directory not yet made is ahead of it with all it holds.
Visits ==
  /\ \A n \in (Active \cup made \cup lost) \ {Root} : n \notin left[Parent[n]]
  /\ \A n \in (made \cup lost) \ {Root} : Parent[n] \in made
  /\ dirh \subseteq made
  /\ pc \in {"get", "mount"} => made = {} /\ lost = {}
  /\ pc = "mkdir" => cur \notin made
  /\ pc = "opendir" => cur \in made
  /\ pc \in FilePcs =>
       file \notin made \cup lost \cup left[cur] /\ Parent[file] = cur
  /\ \A d \in Dirs \ made : left[d] = Children(d) \cup Dots

\* As long as nothing failed, a made directory has nothing ahead of it that is
\* not visited later, and an entry is skipped by nobody.
Progress ==
  res = 0 =>
    /\ pc \in {"opendir", "return"} \cup OpenPcs => cur \in made
    /\ \A n \in Nodes \ {Root} :
         Parent[n] \in made /\ n \notin left[Parent[n]] =>
           n \in made \cup lost \/ n = file \/ (pc = "mkdir" /\ n = cur)
    /\ \A d \in Dirs \cap made :
         d \notin dirh /\ ~(pc = "opendir" /\ d = cur) => left[d] = {}
    /\ pc = "closedir" => left[cur] = {}
    /\ pc \in {"unmount", "exited"} /\ result = 0 => made \cup lost = Nodes

\* The copy loop of process_file: what has been written is the beginning of
\* the source up to the buffer at hand, all of it when the loop is left well.
CopyLoop ==
  /\ pc \in FilePcs \ {"openout"} => IsPrefix(out, Content[file])
  /\ pc \in FilePcs \ {"openout"} /\ res = 0 =>
       /\ errd = FALSE
       /\ pc = "openin" => out = <<>>
       /\ pc \in {"closein", "closeout"} => out = Content[file]
  /\ pc = "read" =>
       rpos <= Len(Content[file]) /\ out = SubSeq(Content[file], 1, rpos)
  /\ pc = "write" =>
       /\ rpos <= Len(Content[file]) /\ Len(buf) <= rpos
       /\ Len(buf) < Buf => rpos = Len(Content[file])
       /\ Len(buf) <= Buf
       /\ out = SubSeq(Content[file], 1, rpos - Len(buf))
       /\ buf = SubSeq(Content[file], rpos - Len(buf) + 1, rpos)

\* What has been delivered is there, and below directories only.
Delivered ==
  /\ \A n \in made : kind[n] # "none"
  /\ \A n \in made \cap Files : Copied(n)
  /\ \A n \in (made \cup lost) \ {Root} : kind[Parent[n]] = "dir"
  /\ pc \in FilePcs \ {"openout"} =>
       kind[file] = "file" /\ kind[Parent[file]] = "dir"

\* Without faults, and with a target and an image that are fit, nothing fails.
Clean ==
  /\ pc = "get" /\ mode = "create" => kind = [n \in Nodes |-> "none"]
  /\ ~faults /\ ~pending /\ Compatible =>
       res = 0 /\ result = 0 /\ lost = {} /\ pc # "crashed"

-----------------------------------------------------------------------------
\* A piece of a sequence is a sequence of the same elements.
LEMMA PieceTyped ==
  ASSUME NEW S, NEW s \in Seq(S), NEW m \in Int, NEW n \in Int,
         m >= 1, n <= Len(s)
  PROVE  SubSeq(s, m, n) \in Seq(S)
<1>1. \A i \in m .. n : s[i] \in S
  BY ElementOfSeq, LenProperties, SMT
<1> QED
  BY <1>1, SubSeqProperties

\* One turn of the copy loop reads up to a buffer, not past the end.
LEMMA ReadBounds ==
  ASSUME NEW len \in Nat, NEW pos \in Nat
  PROVE  LET n == lfs_min(Buf, len - pos) IN
         /\ n \in Int /\ n <= Buf /\ pos + n \in Nat /\ pos + n <= len
         /\ pos <= len => n >= 0 /\ (n < Buf => pos + n = len)
BY DataAssumption, SMT DEF lfs_min

\* Every variable keeps its type, and process_file the handles it should.
LEMMA TypeStep ==
  ASSUME TypeOK, InHand, [Next]_vars
  PROVE  TypeOK' /\ InHand'
<1> USE DEF TypeOK, InHand, FilePcs, PcLabels, setup, fileVars, target, history
<1>a. /\ Root \in Dirs /\ Nobody \notin Files
      /\ Parent \in [Nodes \ {Root} -> Dirs]
      /\ Content \in [Files -> Seq(Bytes)]
      /\ Dirs \subseteq Nodes /\ Files \subseteq Nodes
  BY TreeAssumption, DataAssumption DEF Nodes
<1>b. {"none", "dir", "file"} = Kinds
  BY DEF Kinds
<1>1. CASE Get
  BY <1>a, <1>b, <1>1 DEF Get, Goto
<1>2. CASE Mount
  BY <1>a, <1>b, <1>2 DEF Mount, Goto
<1>3. CASE Unmount
  BY <1>a, <1>b, <1>3 DEF Unmount, Goto
<1>4. CASE Mkdir
  BY <1>a, <1>b, <1>4 DEF Mkdir, Goto, Bail
<1>5. CASE Opendir
  BY <1>a, <1>b, <1>5 DEF Opendir, Goto, Bail
<1>6. CASE ReadEntry
  BY <1>a, <1>b, <1>6 DEF ReadEntry, Goto
<1>7. CASE ReadEnd
  BY <1>a, <1>b, <1>7 DEF ReadEnd, Goto
<1>8. CASE ReadFails
  BY <1>a, <1>b, <1>8 DEF ReadFails, Goto, Bail
<1>9. CASE Closedir
  BY <1>a, <1>b, <1>9 DEF Closedir, Goto
<1>10. CASE Return
  BY <1>a, <1>b, <1>10 DEF Return, Goto
<1>11. CASE OpenOut
  <2>1. <<>> \in Seq(Bytes) /\ file \in Files
    BY <1>11, EmptySeq DEF OpenOut
  <2>2. out' \in Seq(Bytes) /\ data' \in [Files -> Seq(Bytes)]
    BY <1>11, <2>1 DEF OpenOut
  <2>3. kind' \in [Nodes -> Kinds]
    BY <1>a, <1>b, <1>11, <2>1 DEF OpenOut
  <2> QED
    BY <1>a, <1>11, <2>1, <2>2, <2>3 DEF OpenOut, Goto, Bail
<1>12. CASE OpenIn
  BY <1>a, <1>b, <1>12 DEF OpenIn, Goto, Bail
<1>13. CASE Read
  <2> DEFINE n == lfs_min(Buf, Len(Content[file]) - rpos)
  <2>1. file \in Files /\ Content[file] \in Seq(Bytes) /\ rpos \in Nat
    BY <1>a, <1>13 DEF Read
  <2>2. Len(Content[file]) \in Nat
    BY <2>1, LenProperties
  <2>3. n \in Int /\ rpos + n \in Nat /\ rpos + n <= Len(Content[file])
    BY <2>1, <2>2, ReadBounds
  <2>4. SubSeq(Content[file], rpos + 1, rpos + n) \in Seq(Bytes)
    BY <2>1, <2>3, PieceTyped
  <2>5. buf' \in Seq(Bytes) /\ rpos' \in Nat
    BY <1>13, <2>3, <2>4 DEF Read
  <2> QED
    BY <1>a, <1>13, <2>5 DEF Read, Goto, Bail
<1>14. CASE Write
  BY <1>a, <1>b, <1>14 DEF Write, Goto, Written
<1>15. CASE WriteFails
  <2>1. PICK wb \in 0 .. Len(buf) : Written(out \o SubSeq(buf, 1, wb))
    BY <1>15 DEF WriteFails
  <2>2. out \o SubSeq(buf, 1, wb) \in Seq(Bytes)
    BY <2>1, PieceTyped, ConcatProperties, LenProperties
  <2>3. out' \in Seq(Bytes) /\ data' \in [Files -> Seq(Bytes)]
    BY <2>1, <2>2, <1>15 DEF WriteFails, Written
  <2>4. errd' \in BOOLEAN
    BY <1>15 DEF WriteFails
  <2> QED
    BY <1>a, <1>b, <1>15, <2>3, <2>4 DEF WriteFails, Goto, Bail
<1>16. CASE CloseIn
  BY <1>a, <1>b, <1>16 DEF CloseIn, Goto
<1>17. CASE CloseOut
  <2>1. file \in Files
    BY <1>17 DEF CloseOut
  <2>2. Committed \in Seq(Bytes) /\ Salvaged \subseteq Seq(Bytes)
    <3>1. data[file] \in Seq(Bytes) /\ out \in Seq(Bytes)
      BY <2>1
    <3>2. \A n \in 0 .. Len(out) : SubSeq(out, 1, n) \in Seq(Bytes)
      BY <3>1, PieceTyped, LenProperties
    <3> QED
      BY <3>1, <3>2 DEF Committed, Salvaged
  <2>3. data' \in [Files -> Seq(Bytes)]
    BY <1>17, <2>1, <2>2 DEF CloseOut
  <2>4. made' \subseteq Nodes /\ lost' \subseteq Files
    BY <1>a, <1>17, <2>1 DEF CloseOut
  <2> QED
    BY <1>a, <1>b, <1>17, <2>3, <2>4 DEF CloseOut, Goto
<1>18. CASE Halted \/ UNCHANGED vars
  BY <1>a, <1>b, <1>18 DEF Halted, vars, setup, fileVars, target, history
<1> QED
  BY <1>1, <1>2, <1>3, <1>4, <1>5, <1>6, <1>7, <1>8, <1>9, <1>10, <1>11,
     <1>12, <1>13, <1>14, <1>15, <1>16, <1>17, <1>18
     DEF Next, Step, Main, Traversal, ProcessFile

\* The first state has its type, and no file is in hand.
LEMMA TypeInit == Init => TypeOK /\ InHand
<1> SUFFICES ASSUME Init PROVE TypeOK /\ InHand
  OBVIOUS
<1> USE TreeAssumption, DataAssumption, EmptySeq DEF Init
<1>1. left \in [Dirs -> SUBSET (Nodes \cup Dots)]
  BY DEF Children
<1>2. kind \in [Nodes -> Kinds]
  BY DEF Kinds
<1>3. data \in [Files -> Seq(Bytes)]
  <2>1. <<>> \in Seq(Bytes) /\ Stale \in Seq(Bytes)
    BY EmptySeq
  <2> QED
    BY <2>1
<1>4. pending \in BOOLEAN /\ faults \in Faults /\ mode \in {"create", "extract"}
  OBVIOUS
<1> QED
  BY <1>1, <1>2, <1>3, <1>4 DEF TypeOK, InHand, FilePcs, PcLabels

\* The tool's state keeps its shape, whatever call fails: what TLC sees on a
\* small tree holds for every tree, every content and every buffer size.
THEOREM TypeCorrect == Spec => []TypeOK
<1>1. Spec => [](TypeOK /\ InHand)
  BY TypeInit, TypeStep, PTL DEF Spec
<1> QED
  BY <1>1, PTL

\* In every state of a run process_file has a file in hand where it says so.
LEMMA InHandCorrect == Spec => []InHand
BY TypeInit, TypeStep, PTL DEF Spec

-----------------------------------------------------------------------------
\* What holds for Root and passes from each directory to its entries holds for
\* the whole tree.
LEMMA TreeInduction ==
  ASSUME NEW S \in SUBSET Nodes, Root \in S,
         \A n \in Nodes \ {Root} : Parent[n] \in S => n \in S
  PROVE  S = Nodes
BY TreeAssumption

\* Each call of traversal opens a directory below those of its callers, and
\* closes it before it returns.
LEMMA ChainStep ==
  ASSUME TypeOK, InHand, Chain, [Next]_vars
  PROVE  Chain'
<1> USE DEF TypeOK, Chain, Active, FilePcs, OpenPcs, TreePcs, setup, fileVars,
            target, history
<1>a. /\ Root \in Dirs /\ Dirs \subseteq Nodes
      /\ Parent \in [Nodes \ {Root} -> Dirs]
      /\ Dirs \cap Files = {} /\ Dots \cap Nodes = {}
  BY TreeAssumption DEF Nodes
<1>1. CASE Get
  BY <1>a, <1>1 DEF Get, Goto
<1>2. CASE Mount
  BY <1>a, <1>2 DEF Mount, Goto
<1>3. CASE Unmount
  BY <1>a, <1>3 DEF Unmount, Goto
<1>4. CASE Mkdir
  BY <1>a, <1>4 DEF Mkdir, Goto, Bail
<1>5. CASE Opendir
  BY <1>a, <1>5 DEF Opendir, Goto, Bail
<1>6. CASE ReadEntry
  <2>1. PICK e \in left[cur] :
          /\ left' = [left EXCEPT ![cur] = @ \ {e}]
          /\ \/ e \in Files /\ Goto("openout") /\ UNCHANGED cur
             \/ e \in Dirs /\ cur' = e /\ Goto("mkdir")
             \/ e \in Dots /\ UNCHANGED <<pc, cur>>
    BY <1>6 DEF ReadEntry
  <2>2. cur \in dirh /\ dirh' = dirh /\ pc = "readdir"
    BY <1>6 DEF ReadEntry
  <2>3. \A d \in Dirs : left'[d] \subseteq Children(d) \cup Dots
    BY <1>a, <2>1
  <2>4. CASE cur' = cur /\ pc' \in {"openout", "readdir"}
    BY <1>a, <2>1, <2>2, <2>3, <2>4 DEF Goto
  <2>5. CASE cur' = e /\ e \in Dirs /\ pc' = "mkdir"
    <3>1. e \in Nodes \ {Root} /\ Parent[e] = cur
      BY <1>a, <2>1, <2>5 DEF Children
    <3>2. e \notin Active
      BY <3>1
    <3>3. Active' = Active \cup {e}
      BY <2>2, <2>5
    <3>4. \A d \in Active' \ {Root} : Parent[d] \in dirh' /\ Parent[d] # cur'
      BY <3>1, <3>2, <3>3, <2>2, <2>5
    <3>5. \A d, f \in Active' \ {Root} : Parent[d] = Parent[f] => d = f
      BY <3>1, <3>3
    <3> QED
      BY <2>2, <2>3, <2>5, <3>2, <3>4, <3>5
  <2> QED
    BY <2>1, <2>2, <2>4, <2>5 DEF Goto
<1>7. CASE ReadEnd
  BY <1>a, <1>7 DEF ReadEnd, Goto
<1>8. CASE ReadFails
  BY <1>a, <1>8 DEF ReadFails, Goto, Bail
<1>9. CASE Closedir
  BY <1>a, <1>9 DEF Closedir, Goto
<1>10. CASE Return
  BY <1>a, <1>10 DEF Return, Goto
<1>11. CASE OpenOut
  BY <1>a, <1>11 DEF OpenOut, Goto, Bail
<1>12. CASE OpenIn
  BY <1>a, <1>12 DEF OpenIn, Goto, Bail
<1>13. CASE Read
  BY <1>a, <1>13 DEF Read, Goto, Bail
<1>14. CASE Write
  BY <1>a, <1>14 DEF Write, Goto
<1>15. CASE WriteFails
  BY <1>a, <1>15 DEF WriteFails, Goto, Bail
<1>16. CASE CloseIn
  BY <1>a, <1>16 DEF CloseIn, Goto
<1>17. CASE CloseOut
  BY <1>a, <1>17 DEF CloseOut, Goto
<1>18. CASE Halted \/ UNCHANGED vars
  BY <1>a, <1>18 DEF Halted, vars, setup, fileVars, target, history
<1> QED
  BY <1>1, <1>2, <1>3, <1>4, <1>5, <1>6, <1>7, <1>8, <1>9, <1>10, <1>11,
     <1>12, <1>13, <1>14, <1>15, <1>16, <1>17, <1>18
     DEF Next, Step, Main, Traversal, ProcessFile

\* Before the traversal starts no directory is open.
LEMMA ChainInit == Init => Chain
BY TreeAssumption DEF Init, Chain, Active, OpenPcs, FilePcs, TreePcs, Children,
   Nodes

\* In every state the open directories are those on the way to cur.
LEMMA ChainCorrect == Spec => []Chain
<1>1. Spec => [](TypeOK /\ InHand /\ Chain)
  BY TypeInit, TypeStep, ChainInit, ChainStep, PTL DEF Spec
<1> QED
  BY <1>1, PTL

\* When the recursion is back at its first call, nothing is open: a directory
\* still open would have a parent that is open, and so would Root.
LEMMA BackAtRoot ==
  ASSUME TypeOK, Chain, cur = Root, pc \notin OpenPcs
  PROVE  dirh = {}
<1> DEFINE S == Nodes \ dirh
<1>1. Root \in S
  BY TreeAssumption DEF Chain, Nodes
<1>2. \A n \in Nodes \ {Root} : Parent[n] \in S => n \in S
  BY DEF Chain, Active
<1>3. S = Nodes
  BY <1>1, <1>2, TreeInduction
<1> QED
  BY <1>3 DEF TypeOK, Nodes

\* Whatever failed on the way, the image is unmounted only when the recursion
\* has closed every directory and every file it opened.
THEOREM UnmountsIdleCorrect == Spec => []UnmountsIdle
<1>1. TypeOK /\ InHand /\ Chain => UnmountsIdle
  <2> SUFFICES ASSUME TypeOK, InHand, Chain, pc \in {"unmount", "exited"}
               PROVE  dirh = {} /\ fds = {}
    BY DEF UnmountsIdle
  <2>1. cur = Root /\ pc \notin OpenPcs
    BY DEF Chain, TreePcs, OpenPcs, FilePcs
  <2>2. dirh = {}
    BY <2>1, BackAtRoot
  <2>3. fds = {}
    BY DEF InHand, FilePcs
  <2> QED
    BY <2>2, <2>3
<1> QED
  BY <1>1, TypeCorrect, InHandCorrect, ChainCorrect, PTL

-----------------------------------------------------------------------------

\* An error is remembered and nothing but cleanup follows it.
LEMMA StatusStep ==
  ASSUME TypeOK, Status, [Next]_vars
  PROVE  Status'
<1> USE DEF TypeOK, Status, FilePcs, OpenPcs, TreePcs, setup, fileVars, target,
            history
<1>1. CASE Get
  BY <1>1 DEF Get, Goto
<1>2. CASE Mount
  BY <1>2 DEF Mount, Goto
<1>3. CASE Unmount
  BY <1>3 DEF Unmount, Goto
<1>4. CASE Mkdir
  BY <1>4 DEF Mkdir, Goto, Bail
<1>5. CASE Opendir
  BY <1>5 DEF Opendir, Goto, Bail
<1>6. CASE ReadEntry
  BY <1>6 DEF ReadEntry, Goto
<1>7. CASE ReadEnd
  BY <1>7 DEF ReadEnd, Goto
<1>8. CASE ReadFails
  BY <1>8 DEF ReadFails, Goto, Bail
<1>9. CASE Closedir
  BY <1>9 DEF Closedir, Goto
<1>10. CASE Return
  BY <1>10 DEF Return, Goto
<1>11. CASE OpenOut
  BY <1>11 DEF OpenOut, Goto, Bail
<1>12. CASE OpenIn
  BY <1>12 DEF OpenIn, Goto, Bail
<1>13. CASE Read
  BY <1>13 DEF Read, Goto, Bail
<1>14. CASE Write
  BY <1>14 DEF Write, Goto, Written
<1>15. CASE WriteFails
  BY <1>15 DEF WriteFails, Goto, Bail, Written
<1>16. CASE CloseIn
  BY <1>16 DEF CloseIn, Goto
<1>17. CASE CloseOut
  BY <1>17 DEF CloseOut, Goto
<1>18. CASE Halted \/ UNCHANGED vars
  BY <1>18 DEF Halted, vars, setup, fileVars, target, history
<1> QED
  BY <1>1, <1>2, <1>3, <1>4, <1>5, <1>6, <1>7, <1>8, <1>9, <1>10, <1>11,
     <1>12, <1>13, <1>14, <1>15, <1>16, <1>17, <1>18
     DEF Next, Step, Main, Traversal, ProcessFile

\* The statuses agree before the first call.
LEMMA StatusInit == Init => Status
BY DEF Init, Status, FilePcs, OpenPcs, TreePcs

\* The statuses of main and of the traversal agree in every state.
LEMMA StatusCorrect == Spec => []Status
<1>1. Spec => [](TypeOK /\ InHand /\ Status)
  BY TypeInit, TypeStep, StatusInit, StatusStep, PTL DEF Spec
<1> QED
  BY <1>1, PTL

\* After the first error nothing new is opened, created or delivered, and only
\* the file at hand can still change.
LEMMA FailStopStep ==
  ASSUME TypeOK, Status, [Next]_vars, res = -1
  PROVE  /\ res' = -1 /\ kind' = kind /\ made' = made /\ lost' = lost
         /\ fds' \subseteq fds /\ dirh' \subseteq dirh
         /\ \A f \in Files \ {file} : data'[f] = data[f]
<1> USE DEF TypeOK, Status, FilePcs, OpenPcs, TreePcs, setup, fileVars, target,
            history
<1>1. CASE Get
  BY <1>1 DEF Get, Goto
<1>2. CASE Mount
  BY <1>2 DEF Mount, Goto
<1>3. CASE Unmount
  BY <1>3 DEF Unmount, Goto
<1>4. CASE Mkdir
  BY <1>4 DEF Mkdir, Goto, Bail
<1>5. CASE Opendir
  BY <1>5 DEF Opendir, Goto, Bail
<1>6. CASE ReadEntry
  BY <1>6 DEF ReadEntry, Goto
<1>7. CASE ReadEnd
  BY <1>7 DEF ReadEnd, Goto
<1>8. CASE ReadFails
  BY <1>8 DEF ReadFails, Goto, Bail
<1>9. CASE Closedir
  BY <1>9 DEF Closedir, Goto
<1>10. CASE Return
  BY <1>10 DEF Return, Goto
<1>11. CASE OpenOut
  BY <1>11 DEF OpenOut, Goto, Bail
<1>12. CASE OpenIn
  BY <1>12 DEF OpenIn, Goto, Bail
<1>13. CASE Read
  BY <1>13 DEF Read, Goto, Bail
<1>14. CASE Write
  BY <1>14 DEF Write, Goto, Written
<1>15. CASE WriteFails
  BY <1>15 DEF WriteFails, Goto, Bail, Written
<1>16. CASE CloseIn
  BY <1>16 DEF CloseIn, Goto
<1>17. CASE CloseOut
  BY <1>17 DEF CloseOut, Goto
<1>18. CASE Halted \/ UNCHANGED vars
  BY <1>18 DEF Halted, vars, setup, fileVars, target, history
<1> QED
  BY <1>1, <1>2, <1>3, <1>4, <1>5, <1>6, <1>7, <1>8, <1>9, <1>10, <1>11,
     <1>12, <1>13, <1>14, <1>15, <1>16, <1>17, <1>18
     DEF Next, Step, Main, Traversal, ProcessFile

\* Once a call has failed nothing new is begun: what is open is closed, and the
\* frames of traversal return one after the other (CHECK_ERROR, main.c 117-190).
THEOREM FailStopCorrect == Spec => FailStop
<1>1. TypeOK /\ Status /\ [Next]_vars =>
        [res = -1 =>
           /\ res' = -1 /\ kind' = kind /\ made' = made /\ lost' = lost
           /\ fds' \subseteq fds /\ dirh' \subseteq dirh
           /\ \A f \in Files \ {file} : data'[f] = data[f]]_vars
  BY FailStopStep
<1> QED
  BY <1>1, TypeCorrect, StatusCorrect, PTL DEF Spec, FailStop

-----------------------------------------------------------------------------

\* Every node is visited at most once, a directory before what it holds.
LEMMA VisitsStep ==
  ASSUME TypeOK, InHand, Chain, Status, Visits, [Next]_vars
  PROVE  Visits'
<1> USE DEF TypeOK, Chain, Active, Visits, FilePcs, OpenPcs, TreePcs, setup,
            fileVars, target, history
<1>a. /\ Root \in Dirs /\ Dirs \subseteq Nodes /\ Files \subseteq Nodes
      /\ Parent \in [Nodes \ {Root} -> Dirs]
      /\ Dirs \cap Files = {} /\ Dots \cap Nodes = {}
  BY TreeAssumption DEF Nodes
<1>1. CASE Get
  BY <1>a, <1>1 DEF Get, Goto
<1>2. CASE Mount
  BY <1>a, <1>2 DEF Mount, Goto
<1>3. CASE Unmount
  BY <1>a, <1>3 DEF Unmount, Goto
<1>4. CASE Mkdir
  BY <1>a, <1>4 DEF Mkdir, Goto, Bail
<1>5. CASE Opendir
  BY <1>a, <1>5 DEF Opendir, Goto, Bail
<1>6. CASE ReadEntry
  <2>1. PICK e \in left[cur] :
          /\ left' = [left EXCEPT ![cur] = @ \ {e}]
          /\ \/ e \in Files /\ file' = e /\ pc' = "openout" /\ cur' = cur
             \/ e \in Dirs /\ cur' = e /\ pc' = "mkdir"
             \/ e \in Dots /\ cur' = cur /\ pc' = pc
    BY <1>6 DEF ReadEntry, Goto
  <2>2. /\ pc = "readdir" /\ cur \in dirh /\ cur \in made
        /\ dirh' = dirh /\ made' = made /\ lost' = lost
    BY <1>6 DEF ReadEntry
  <2>3. /\ left'[cur] = left[cur] \ {e}
        /\ \A d \in Dirs \ {cur} : left'[d] = left[d]
    BY <2>1
  <2>4. \A d \in Dirs \ made' : left'[d] = Children(d) \cup Dots
    BY <2>2, <2>3
  <2>5. CASE e \in Dots
    BY <1>a, <2>1, <2>2, <2>3, <2>4, <2>5
  <2>6. CASE e \in Nodes
    <3>1. e # Root /\ Parent[e] = cur /\ e \in left[Parent[e]]
      BY <1>a, <2>1, <2>6 DEF Children
    <3>2. e \notin made \cup lost
      BY <3>1
    <3>3. e \notin left'[cur] /\ \A d \in Dirs : left'[d] \subseteq left[d]
      BY <2>3
    <3>4. cur' \in {cur, e} /\ pc' \in {"openout", "mkdir"}
      BY <1>a, <2>1, <2>6
    <3>5. \A n \in (Active' \cup made' \cup lost') \ {Root} :
             n \notin left'[Parent[n]]
      BY <1>a, <2>2, <3>1, <3>3, <3>4
    <3>6. pc' = "openout" =>
            file' \notin made' \cup lost' \cup left'[cur'] /\ Parent[file'] = cur'
      BY <1>a, <2>1, <2>2, <2>6, <3>1, <3>2, <3>3
    <3>7. pc' = "mkdir" => cur' \notin made'
      BY <1>a, <2>1, <2>2, <2>6, <3>2
    <3> QED
      BY <2>2, <2>4, <3>4, <3>5, <3>6, <3>7
  <2> QED
    BY <2>1, <2>5, <2>6 DEF Nodes
<1>7. CASE ReadEnd
  BY <1>a, <1>7 DEF ReadEnd, Goto
<1>8. CASE ReadFails
  BY <1>a, <1>8 DEF ReadFails, Goto, Bail
<1>9. CASE Closedir
  BY <1>a, <1>9 DEF Closedir, Goto
<1>10. CASE Return
  BY <1>a, <1>10 DEF Return, Goto
<1>11. CASE OpenOut
  BY <1>a, <1>11 DEF OpenOut, Goto, Bail
<1>12. CASE OpenIn
  BY <1>a, <1>12 DEF OpenIn, Goto, Bail
<1>13. CASE Read
  BY <1>a, <1>13 DEF Read, Goto, Bail
<1>14. CASE Write
  BY <1>a, <1>14 DEF Write, Goto, Written
<1>15. CASE WriteFails
  BY <1>a, <1>15 DEF WriteFails, Goto, Bail, Written
<1>16. CASE CloseIn
  BY <1>a, <1>16 DEF CloseIn, Goto
<1>17. CASE CloseOut
  BY <1>a, <1>17 DEF CloseOut, Goto
<1>18. CASE Halted \/ UNCHANGED vars
  BY <1>a, <1>18 DEF Halted, vars, setup, fileVars, target, history
<1> QED
  BY <1>1, <1>2, <1>3, <1>4, <1>5, <1>6, <1>7, <1>8, <1>9, <1>10, <1>11,
     <1>12, <1>13, <1>14, <1>15, <1>16, <1>17, <1>18
     DEF Next, Step, Main, Traversal, ProcessFile

\* Before the traversal starts every entry is still to be reported.
LEMMA VisitsInit == Init => Visits
BY TreeAssumption DEF Init, Visits, Active, FilePcs, Children, Nodes

\* In every state an entry is delivered or still to be reported.
LEMMA VisitsCorrect == Spec => []Visits
<1>1. Spec => [](TypeOK /\ InHand /\ Chain /\ Status /\ Visits)
  BY TypeInit, TypeStep, ChainInit, ChainStep, StatusInit, StatusStep,
     VisitsInit, VisitsStep, PTL DEF Spec
<1> QED
  BY <1>1, PTL

\* No step of the program touches what it has delivered.
LEMMA FinalStep ==
  ASSUME TypeOK, InHand, Visits, [Next]_vars, NEW n \in made
  PROVE  kind'[n] = kind[n] /\ (n \in Files => data'[n] = data[n])
<1> USE DEF TypeOK, InHand, Visits, FilePcs, setup, fileVars, target, history
<1>a. n \in Nodes /\ Dirs \subseteq Nodes /\ Files \subseteq Nodes
  BY DEF Nodes
<1>1. CASE Get
  BY <1>a, <1>1 DEF Get, Goto
<1>2. CASE Mount
  BY <1>a, <1>2 DEF Mount, Goto
<1>3. CASE Unmount
  BY <1>a, <1>3 DEF Unmount, Goto
<1>4. CASE Mkdir
  BY <1>a, <1>4 DEF Mkdir, Goto, Bail
<1>5. CASE Opendir
  BY <1>a, <1>5 DEF Opendir, Goto, Bail
<1>6. CASE ReadEntry
  BY <1>a, <1>6 DEF ReadEntry, Goto
<1>7. CASE ReadEnd
  BY <1>a, <1>7 DEF ReadEnd, Goto
<1>8. CASE ReadFails
  BY <1>a, <1>8 DEF ReadFails, Goto, Bail
<1>9. CASE Closedir
  BY <1>a, <1>9 DEF Closedir, Goto
<1>10. CASE Return
  BY <1>a, <1>10 DEF Return, Goto
<1>11. CASE OpenOut
  BY <1>a, <1>11 DEF OpenOut, Goto, Bail
<1>12. CASE OpenIn
  BY <1>a, <1>12 DEF OpenIn, Goto, Bail
<1>13. CASE Read
  BY <1>a, <1>13 DEF Read, Goto, Bail
<1>14. CASE Write
  BY <1>a, <1>14 DEF Write, Goto, Written
<1>15. CASE WriteFails
  BY <1>a, <1>15 DEF WriteFails, Goto, Bail, Written
<1>16. CASE CloseIn
  BY <1>a, <1>16 DEF CloseIn, Goto
<1>17. CASE CloseOut
  BY <1>a, <1>17 DEF CloseOut, Goto
<1>18. CASE Halted \/ UNCHANGED vars
  BY <1>a, <1>18 DEF Halted, vars, setup, fileVars, target, history
<1> QED
  BY <1>1, <1>2, <1>3, <1>4, <1>5, <1>6, <1>7, <1>8, <1>9, <1>10, <1>11,
     <1>12, <1>13, <1>14, <1>15, <1>16, <1>17, <1>18
     DEF Next, Step, Main, Traversal, ProcessFile

\* A node that has been delivered is never written again: the traversal comes
\* to each node once, and truncates nothing it has finished.
THEOREM DeliveredIsFinalCorrect == Spec => DeliveredIsFinal
<1>1. TypeOK /\ InHand /\ Visits /\ [Next]_vars =>
        [\A n \in made :
           kind'[n] = kind[n] /\ (n \in Files => data'[n] = data[n])]_vars
  BY FinalStep
<1> QED
  BY <1>1, TypeCorrect, InHandCorrect, VisitsCorrect, PTL
     DEF Spec, DeliveredIsFinal

-----------------------------------------------------------------------------
\* As long as nothing failed, nothing is left out.
LEMMA ProgressStep ==
  ASSUME TypeOK, InHand, Chain, Status, Visits, Progress, [Next]_vars
  PROVE  Progress'
<1> SUFFICES ASSUME res' = 0 PROVE Progress'
  BY DEF Progress
<1> USE DEF TypeOK, Chain, Active, Visits, Progress, FilePcs, OpenPcs,
            TreePcs, setup, fileVars, target, history
<1>a. /\ Root \in Dirs /\ Dirs \subseteq Nodes /\ Files \subseteq Nodes
      /\ Parent \in [Nodes \ {Root} -> Dirs]
      /\ Dirs \cap Files = {} /\ Dots \cap Nodes = {} /\ Nobody \notin Nodes
  BY TreeAssumption DEF Nodes
<1>1. CASE Get
  BY <1>a, <1>1 DEF Get, Goto
<1>2. CASE Mount
  BY <1>a, <1>2 DEF Mount, Goto
<1>3. CASE Unmount
  BY <1>a, <1>3 DEF Unmount, Goto
<1>4. CASE Mkdir
  <2>1. /\ res = 0 /\ pc = "mkdir" /\ pc' = "opendir" /\ made' = made \cup {cur}
        /\ lost' = lost /\ cur' = cur /\ left' = left /\ dirh' = dirh
        /\ file' = file
    BY <1>4 DEF Mkdir, Goto, Bail
  <2>2. cur \notin made /\ left[cur] = Children(cur) \cup Dots
    BY <2>1
  <2>3. ASSUME NEW n \in Nodes \ {Root}, Parent[n] \in made',
               n \notin left'[Parent[n]]
        PROVE  n \in made' \cup lost' \/ n = file'
    <3>1. Parent[n] # cur
      BY <2>1, <2>2, <2>3 DEF Children
    <3> QED
      BY <2>1, <2>3, <3>1
  <2>4. ASSUME NEW d \in Dirs \cap made', d \notin dirh', d # cur
        PROVE  left'[d] = {}
    BY <2>1, <2>4
  <2> QED
    BY <2>1, <2>3, <2>4
<1>5. CASE Opendir
  BY <1>a, <1>5 DEF Opendir, Goto, Bail
<1>6. CASE ReadEntry
  <2>1. PICK e \in left[cur] :
          /\ left' = [left EXCEPT ![cur] = @ \ {e}]
          /\ \/ e \in Files /\ file' = e /\ pc' = "openout" /\ cur' = cur
             \/ e \in Dirs /\ cur' = e /\ pc' = "mkdir" /\ file' = file
             \/ e \in Dots /\ cur' = cur /\ pc' = pc /\ file' = file
    BY <1>6 DEF ReadEntry, Goto
  <2>2. /\ pc = "readdir" /\ cur \in dirh /\ cur \in made /\ file = Nobody
        /\ dirh' = dirh /\ made' = made /\ lost' = lost /\ res = 0
    BY <1>6 DEF ReadEntry, InHand
  <2>3. /\ left'[cur] = left[cur] \ {e}
        /\ \A d \in Dirs \ {cur} : left'[d] = left[d]
    BY <2>1
  <2>4. ASSUME NEW n \in Nodes \ {Root}, Parent[n] \in made',
               n \notin left'[Parent[n]]
        PROVE  n \in made' \cup lost' \/ n = file' \/ (pc' = "mkdir" /\ n = cur')
    <3>1. CASE n \in left[Parent[n]]
      <4>1. n = e
        BY <1>a, <2>3, <2>4, <3>1
      <4> QED
        BY <1>a, <2>1, <4>1
    <3>2. CASE n \notin left[Parent[n]]
      BY <1>a, <2>2, <2>4, <3>2
    <3> QED
      BY <3>1, <3>2
  <2>5. \A d \in Dirs \cap made' : d \notin dirh' => left'[d] = {}
    BY <2>2, <2>3
  <2>6. pc' \in OpenPcs => cur' \in made'
    BY <2>1, <2>2
  <2>7. pc' \in {"readdir", "openout", "mkdir"}
    BY <2>1, <2>2
  <2> QED
    BY <2>4, <2>5, <2>6, <2>7
<1>7. CASE ReadEnd
  BY <1>a, <1>7 DEF ReadEnd, Goto
<1>8. CASE ReadFails
  BY <1>a, <1>8 DEF ReadFails, Goto, Bail
<1>9. CASE Closedir
  BY <1>a, <1>9 DEF Closedir, Goto
<1>10. CASE Return
  <2>1. /\ pc = "return" /\ res = 0 /\ left' = left /\ dirh' = dirh
        /\ made' = made /\ lost' = lost /\ file' = file /\ file = Nobody
        /\ result' = result
    BY <1>10 DEF Return, InHand
  <2>2. CASE cur = Root /\ pc' = "unmount"
    <3>1. dirh = {}
      BY <2>1, <2>2, BackAtRoot
    <3>2. \A d \in Dirs \cap made : left[d] = {}
      BY <2>1, <3>1
    <3> DEFINE S == made \cup lost
    <3>3. \A n \in Nodes \ {Root} : Parent[n] \in S => n \in S
      <4> SUFFICES ASSUME NEW n \in Nodes \ {Root}, Parent[n] \in S
                   PROVE  n \in S
        OBVIOUS
      <4>1. Parent[n] \in Dirs \cap made
        BY <1>a
      <4> QED
        BY <1>a, <2>1, <3>2, <4>1
    <3>4. Root \in S /\ S \in SUBSET Nodes
      BY <1>a, <2>1, <2>2
    <3>5. S = Nodes
      BY <3>3, <3>4, TreeInduction
    <3> QED
      BY <2>1, <2>2, <3>2, <3>5
  <2>3. CASE cur # Root /\ cur' = Parent[cur] /\ pc' = "readdir"
    <3>1. cur' \in dirh
      BY <2>3
    <3> QED
      BY <2>1, <2>3, <3>1
  <2> QED
    BY <1>10, <2>1, <2>2, <2>3 DEF Return, Goto
<1>11. CASE OpenOut
  BY <1>a, <1>11 DEF OpenOut, Goto, Bail
<1>12. CASE OpenIn
  BY <1>a, <1>12 DEF OpenIn, Goto, Bail
<1>13. CASE Read
  BY <1>a, <1>13 DEF Read, Goto, Bail
<1>14. CASE Write
  BY <1>a, <1>14 DEF Write, Goto, Written
<1>15. CASE WriteFails
  BY <1>a, <1>15 DEF WriteFails, Goto, Bail, Written
<1>16. CASE CloseIn
  BY <1>a, <1>16 DEF CloseIn, Goto
<1>17. CASE CloseOut
  <2>1. /\ res = 0 /\ pc = "closeout" /\ pc' = "readdir" /\ cur' = cur
        /\ left' = left /\ dirh' = dirh /\ file' = Nobody /\ file \in Files
        /\ made \cup lost \subseteq made' \cup lost' /\ file \in made' \cup lost'
        /\ made' \cap Dirs = made \cap Dirs /\ made \subseteq made'
    BY <1>a, <1>17 DEF CloseOut, Goto, InHand
  <2>2. ASSUME NEW n \in Nodes \ {Root}, Parent[n] \in made',
               n \notin left'[Parent[n]]
        PROVE  n \in made' \cup lost'
    BY <1>a, <2>1, <2>2
  <2> QED
    BY <2>1, <2>2
<1>18. CASE Halted \/ UNCHANGED vars
  BY <1>a, <1>18 DEF Halted, vars, setup, fileVars, target, history
<1> QED
  BY <1>1, <1>2, <1>3, <1>4, <1>5, <1>6, <1>7, <1>8, <1>9, <1>10, <1>11,
     <1>12, <1>13, <1>14, <1>15, <1>16, <1>17, <1>18
     DEF Next, Step, Main, Traversal, ProcessFile

\* Nothing has been delivered before the first call.
LEMMA ProgressInit == Init => Progress
BY DEF Init, Progress, OpenPcs, FilePcs

\* What has been delivered and what is left to do add up in every state.
LEMMA ProgressCorrect == Spec => []Progress
<1>1. Spec => [](TypeOK /\ InHand /\ Chain /\ Status /\ Visits /\ Progress)
  BY TypeInit, TypeStep, ChainInit, ChainStep, StatusInit, StatusStep,
     VisitsInit, VisitsStep, ProgressInit, ProgressStep, PTL DEF Spec
<1> QED
  BY <1>1, PTL

-----------------------------------------------------------------------------
\* The beginnings of a sequence.
LEMMA PiecePrefix ==
  ASSUME NEW S, NEW t \in Seq(S), NEW n \in Nat, n <= Len(t)
  PROVE  /\ SubSeq(t, 1, n) \in Seq(S) /\ Len(SubSeq(t, 1, n)) = n
         /\ IsPrefix(SubSeq(t, 1, n), t)
<1>1. SubSeq(t, 1, n) \in Seq(S)
  BY PieceTyped
<1>2. Len(SubSeq(t, 1, n)) = n
  BY SubSeqProperties, ElementOfSeq, LenProperties
<1>3. SubSeq(SubSeq(t, 1, n), 1, n) = SubSeq(t, 1, n)
  BY <1>1, <1>2, SubSeqFull
<1> QED
  BY <1>1, <1>2, <1>3 DEF IsPrefix

\* A prefix is the part of the sequence up to its length.
LEMMA PrefixPiece ==
  ASSUME NEW S, NEW s \in Seq(S), NEW t \in Seq(S), IsPrefix(s, t)
  PROVE  s = SubSeq(t, 1, Len(s)) /\ Len(s) <= Len(t)
BY SubSeqFull DEF IsPrefix

\* A beginning of a beginning is one.
LEMMA PrefixShorter ==
  ASSUME NEW S, NEW s \in Seq(S), NEW t \in Seq(S), IsPrefix(s, t),
         NEW n \in 0 .. Len(s)
  PROVE  IsPrefix(SubSeq(s, 1, n), t)
<1>1. Len(s) \in Nat /\ Len(t) \in Nat /\ Len(s) <= Len(t)
      /\ s = SubSeq(t, 1, Len(s))
  BY PrefixPiece, LenProperties
<1>2. SubSeq(s, 1, n) = SubSeq(t, 1, n)
  <2>1. CASE n = 0
    BY <2>1, SubSeqEmpty
  <2>2. CASE n > 0
    <3>1. SubSeq(SubSeq(t, 1, Len(s)), 1, n) = SubSeq(t, 1, n)
      BY <1>1, <2>2, SubSeqOfSubSeq
    <3> QED
      BY <1>1, <3>1
  <2> QED
    BY <2>1, <2>2
<1>3. n \in Nat /\ n <= Len(t)
  BY <1>1
<1> QED
  BY <1>2, <1>3, PiecePrefix

\* What comes next extends a beginning.
LEMMA PieceNext ==
  ASSUME NEW S, NEW t \in Seq(S), NEW k \in Nat, NEW n \in Nat,
         k + n <= Len(t)
  PROVE  /\ SubSeq(t, 1, k) \o SubSeq(t, k + 1, k + n) = SubSeq(t, 1, k + n)
         /\ SubSeq(t, k + 1, k + n) \in Seq(S)
         /\ Len(SubSeq(t, k + 1, k + n)) = n
<1>1. Len(t) \in Nat
  BY LenProperties
<1>2. SubSeq(t, 1, k) \o SubSeq(t, k + 1, k + n) = SubSeq(t, 1, k + n)
  BY <1>1, ConcatAdjacentSubSeq
<1>3. \A i \in k + 1 .. k + n : t[i] \in S
  BY <1>1, ElementOfSeq
<1>4. Len(SubSeq(t, k + 1, k + n)) = n /\ SubSeq(t, k + 1, k + n) \in Seq(S)
  BY <1>3, SubSeqProperties
<1> QED
  BY <1>2, <1>4
\* A piece of a piece is one.
LEMMA PieceOfPiece ==
  ASSUME NEW S, NEW t \in Seq(S), NEW k \in Nat, NEW n \in Nat,
         n <= Len(t), NEW s, s = SubSeq(t, k + 1, n), NEW w \in 0 .. Len(s)
  PROVE  SubSeq(s, 1, w) = SubSeq(t, k + 1, k + w)
<1>1. CASE w = 0
  BY <1>1, SubSeqEmpty
<1>2. CASE w # 0
  <2>1. \A i \in k + 1 .. n : t[i] \in S
    BY ElementOfSeq, LenProperties
  <2>2. Len(t) \in Nat /\ Len(s) = IF k + 1 <= n THEN n - k ELSE 0
    BY <2>1, SubSeqProperties, LenProperties
  <2>3. w \in 1 .. n - k
    BY <1>2, <2>2
  <2>4. /\ k + 1 \in 1 .. Len(t) /\ n \in 1 .. Len(t)
        /\ 1 \in 1 .. n - (k + 1) + 1 /\ w \in 1 .. n - (k + 1) + 1
    BY <2>2, <2>3
  <2>5. SubSeq(s, 1, w) = SubSeq(t, (k + 1) + 1 - 1, (k + 1) + w - 1)
    BY <2>4, SubSeqOfSubSeq
  <2> QED
    BY <2>3, <2>5
<1> QED
  BY <1>1, <1>2

\* The empty file is a prefix of every file.
LEMMA EmptyPrefix ==
  ASSUME NEW S, NEW t \in Seq(S)
  PROVE  IsPrefix(<<>>, t)
BY SubSeqEmpty, EmptySeq, LenProperties DEF IsPrefix

\* The copy loop writes the source's bytes in their order, whatever a read or a
\* write leaves unfinished.
LEMMA CopyStep ==
  ASSUME TypeOK, InHand, Status, CopyLoop, PrefixOfSource, [Next]_vars
  PROVE  CopyLoop' /\ PrefixOfSource'
<1> USE DEF TypeOK, InHand, Status, CopyLoop, PrefixOfSource, FilePcs, setup,
            fileVars, target, history
<1>a. /\ Content \in [Files -> Seq(Bytes)] /\ Nobody \notin Files
      /\ Buf \in Nat
  BY TreeAssumption, DataAssumption DEF Nodes
<1>1. CASE Get
  BY <1>a, <1>1 DEF Get, Goto
<1>2. CASE Mount
  BY <1>a, <1>2 DEF Mount, Goto
<1>3. CASE Unmount
  BY <1>a, <1>3 DEF Unmount, Goto
<1>4. CASE Mkdir
  BY <1>a, <1>4 DEF Mkdir, Goto, Bail
<1>5. CASE Opendir
  BY <1>a, <1>5 DEF Opendir, Goto, Bail
<1>6. CASE ReadEntry
  BY <1>a, <1>6 DEF ReadEntry, Goto
<1>7. CASE ReadEnd
  BY <1>a, <1>7 DEF ReadEnd, Goto
<1>8. CASE ReadFails
  BY <1>a, <1>8 DEF ReadFails, Goto, Bail
<1>9. CASE Closedir
  BY <1>a, <1>9 DEF Closedir, Goto
<1>10. CASE Return
  BY <1>a, <1>10 DEF Return, Goto
<1>11. CASE OpenOut
  <2>1. file \in Files /\ IsPrefix(<<>>, Content[file])
    BY <1>a, <1>11, EmptyPrefix DEF OpenOut
  <2>2. PrefixOfSource'
    BY <2>1, <1>11 DEF OpenOut
  <2>3. CopyLoop'
    BY <2>1, <1>11 DEF OpenOut, Goto, Bail
  <2> QED
    BY <2>2, <2>3
<1>12. CASE OpenIn
  <2>1. file \in Files /\ SubSeq(Content[file], 1, 0) = <<>>
        /\ Len(Content[file]) \in Nat
    BY <1>a, <1>12, SubSeqEmpty, LenProperties DEF OpenIn
  <2> QED
    BY <2>1, <1>12 DEF OpenIn, Goto, Bail
<1>13. CASE Read
  <2> DEFINE C == Content[file]
             n == lfs_min(Buf, Len(C) - rpos)
  <2>1. file \in Files /\ C \in Seq(Bytes) /\ rpos \in Nat /\ rpos <= Len(C)
        /\ out = SubSeq(C, 1, rpos)
    BY <1>a, <1>13 DEF Read
  <2>2. Len(C) \in Nat
    BY <2>1, LenProperties
  <2>3. n \in Nat /\ n <= Buf /\ rpos + n <= Len(C)
        /\ (n < Buf => rpos + n = Len(C))
    <3>1. /\ n \in Int /\ n <= Buf /\ rpos + n \in Nat /\ rpos + n <= Len(C)
          /\ rpos <= Len(C) => n >= 0 /\ (n < Buf => rpos + n = Len(C))
      BY ONLY <2>1, <2>2, ReadBounds
    <3> QED
      BY <2>1, <3>1
  <2> HIDE DEF n
  <2>4. Len(SubSeq(C, rpos + 1, rpos + n)) = n
    BY <2>1, <2>3, PieceNext
  <2>5. /\ pc = "read" /\ file' = file /\ out' = out /\ errd' = errd
        /\ data' = data
        /\ \/ /\ buf' = SubSeq(C, rpos + 1, rpos + n) /\ rpos' = rpos + n
              /\ pc' = "write" /\ res' = res
           \/ pc' = "closein" /\ res' = -1
    BY <1>13 DEF Read, Goto, Bail, n
  <2>6. PrefixOfSource'
    BY <2>5
  <2>7. CASE /\ buf' = SubSeq(C, rpos + 1, rpos + n) /\ rpos' = rpos + n
             /\ pc' = "write" /\ res' = res
    <3>1. /\ Len(buf') = n /\ rpos' - Len(buf') = rpos
          /\ rpos' <= Len(C) /\ Len(buf') <= rpos'
      BY ONLY <2>1, <2>2, <2>3, <2>4, <2>7
    <3> QED
      BY <2>1, <2>3, <2>5, <2>6, <2>7, <3>1
  <2>8. CASE pc' = "closein" /\ res' = -1
    BY <2>5, <2>6, <2>8
  <2> QED
    BY <2>5, <2>7, <2>8
<1>14. CASE Write
  <2> DEFINE C == Content[file]
             k == rpos - Len(buf)
  <2>1. /\ pc = "write" /\ file \in Files /\ C \in Seq(Bytes) /\ rpos \in Nat
        /\ rpos <= Len(C) /\ Len(buf) <= rpos /\ Len(buf) <= Buf
        /\ Len(buf) < Buf => rpos = Len(C)
        /\ out = SubSeq(C, 1, k) /\ buf = SubSeq(C, k + 1, rpos)
    BY <1>a, <1>14 DEF Write
  <2>2. Len(C) \in Nat /\ Len(buf) \in Nat /\ k \in Nat /\ k + Len(buf) = rpos
    BY <2>1, LenProperties
  <2> HIDE DEF k
  <2>3. out \o buf = SubSeq(C, 1, rpos)
    BY <2>1, <2>2, PieceNext
  <2>4. IsPrefix(out \o buf, C)
    BY <2>1, <2>3, PiecePrefix
  <2>5. /\ out' = out \o buf /\ file' = file /\ errd' = errd /\ res' = res
        /\ rpos' = rpos
        /\ pc' = IF Len(buf) # Buf THEN "closein" ELSE "read"
        /\ \A f \in Files : data'[f] \in {data[f], IF f = file THEN out' ELSE data[f]}
    BY <1>14 DEF Write, Written, Goto
  <2>6. PrefixOfSource'
    BY <2>1, <2>4, <2>5
  <2>7. CASE Len(buf) = Buf
    <3>1. pc' = "read" /\ out' = SubSeq(C, 1, rpos')
      BY <2>3, <2>5, <2>7
    <3> QED
      BY <2>1, <2>4, <2>5, <2>6, <3>1
  <2>8. CASE Len(buf) # Buf
    <3>1. rpos = Len(C)
      BY <1>a, <2>1, <2>2, <2>8
    <3>2. out' = C
      BY <2>1, <2>3, <2>5, <3>1, SubSeqFull
    <3> QED
      BY <2>1, <2>4, <2>5, <2>6, <2>8, <3>2
  <2> QED
    BY <2>7, <2>8
<1>15. CASE WriteFails
  <2> DEFINE C == Content[file]
             k == rpos - Len(buf)
  <2>1. /\ pc = "write" /\ file \in Files /\ C \in Seq(Bytes) /\ rpos \in Nat
        /\ rpos <= Len(C) /\ Len(buf) <= rpos /\ Len(buf) <= Buf
        /\ Len(buf) < Buf => rpos = Len(C)
        /\ out = SubSeq(C, 1, k) /\ buf = SubSeq(C, k + 1, rpos)
    BY <1>a, <1>15 DEF WriteFails
  <2>2. Len(C) \in Nat /\ Len(buf) \in Nat /\ k \in Nat /\ k + Len(buf) = rpos
    BY <2>1, LenProperties
  <2> HIDE DEF k
  <2>3. PICK wb \in 0 .. Len(buf) : Written(out \o SubSeq(buf, 1, wb))
    BY <1>15 DEF WriteFails
  <2>4. IsPrefix(out \o SubSeq(buf, 1, wb), C)
    <3>1. SubSeq(buf, 1, wb) = SubSeq(C, k + 1, k + wb)
      BY <2>1, <2>2, PieceOfPiece
    <3>2. /\ C \in Seq(Bytes) /\ k \in Nat /\ wb \in Nat
          /\ k + wb \in Nat /\ k + wb <= Len(C)
      BY <2>1, <2>2
    <3>3. SubSeq(C, 1, k) \o SubSeq(C, k + 1, k + wb) = SubSeq(C, 1, k + wb)
      BY ONLY <3>2, PieceNext
    <3>4. IsPrefix(SubSeq(C, 1, k + wb), C)
      BY <2>1, <3>2, PiecePrefix
    <3> QED
      BY <2>1, <3>1, <3>3, <3>4
  <2>5. /\ out' = out \o SubSeq(buf, 1, wb) /\ file' = file /\ res' = -1
        /\ pc' = "closein"
        /\ \A f \in Files : data'[f] \in {data[f], IF f = file THEN out' ELSE data[f]}
    BY <1>15, <2>3 DEF WriteFails, Written, Goto, Bail
  <2>6. PrefixOfSource'
    BY <2>1, <2>4, <2>5
  <2> QED
    BY <2>1, <2>4, <2>5, <2>6
<1>16. CASE CloseIn
  BY <1>a, <1>16 DEF CloseIn, Goto
<1>17. CASE CloseOut
  <2>1. /\ pc = "closeout" /\ file \in Files /\ IsPrefix(out, Content[file])
        /\ out \in Seq(Bytes) /\ Content[file] \in Seq(Bytes)
    BY <1>a, <1>17 DEF CloseOut
  <2>2. \A s \in Salvaged \cup {Committed} :
           s = data[file] \/ IsPrefix(s, Content[file])
    <3>1. \A n \in 0 .. Len(out) : IsPrefix(SubSeq(out, 1, n), Content[file])
      BY <2>1, PrefixShorter
    <3> QED
      BY <2>1, <3>1 DEF Salvaged, Committed
  <2>3. PICK s \in Salvaged \cup {Committed} : data' = [data EXCEPT ![file] = s]
    BY <1>17 DEF CloseOut
  <2>4. PrefixOfSource'
    BY <2>1, <2>2, <2>3
  <2> QED
    BY <1>17, <2>4 DEF CloseOut, Goto
<1>18. CASE Halted \/ UNCHANGED vars
  BY <1>a, <1>18 DEF Halted, vars, setup, fileVars, target, history
<1> QED
  BY <1>1, <1>2, <1>3, <1>4, <1>5, <1>6, <1>7, <1>8, <1>9, <1>10, <1>11,
     <1>12, <1>13, <1>14, <1>15, <1>16, <1>17, <1>18
     DEF Next, Step, Main, Traversal, ProcessFile

\* The copy loop starts with nothing read and nothing written.
LEMMA CopyInit == Init => CopyLoop /\ PrefixOfSource
<1> SUFFICES ASSUME Init PROVE CopyLoop /\ PrefixOfSource
  OBVIOUS
<1>1. \A f \in Files : IsPrefix(<<>>, Content[f])
  BY EmptyPrefix, DataAssumption
<1> QED
  BY <1>1 DEF Init, CopyLoop, PrefixOfSource, FilePcs

\* The copy loop keeps its invariant in every state.
LEMMA CopyCorrect == Spec => [](CopyLoop /\ PrefixOfSource)
<1>1. Spec => [](TypeOK /\ InHand /\ Status /\ CopyLoop /\ PrefixOfSource)
  BY TypeInit, TypeStep, StatusInit, StatusStep, CopyInit, CopyStep, PTL
     DEF Spec
<1> QED
  BY <1>1, PTL

\* A file of the target never holds anything but the beginning of its source,
\* through short writes, failed reads and failed closes; an untouched leftover
\* keeps its old content.
THEOREM PrefixOfSourceCorrect == Spec => []PrefixOfSource
BY CopyCorrect, PTL

-----------------------------------------------------------------------------
\* What counts as delivered is in the target, with its content.
LEMMA DeliveredStep ==
  ASSUME TypeOK, InHand, Chain, Status, Visits, CopyLoop, Delivered, [Next]_vars
  PROVE  Delivered'
<1> USE DEF TypeOK, InHand, Visits, Delivered, Copied, FilePcs, OpenPcs, setup,
            fileVars, target, history
<1>a. /\ Root \in Dirs /\ Dirs \subseteq Nodes /\ Files \subseteq Nodes
      /\ Parent \in [Nodes \ {Root} -> Dirs]
      /\ Dirs \cap Files = {} /\ Nobody \notin Nodes
  BY TreeAssumption DEF Nodes
<1>1. CASE Get
  BY <1>a, <1>1 DEF Get, Goto
<1>2. CASE Mount
  BY <1>a, <1>2 DEF Mount, Goto
<1>3. CASE Unmount
  BY <1>a, <1>3 DEF Unmount, Goto
<1>4. CASE Mkdir
  <2>1. CASE /\ CanMkdir(cur) /\ made' = made \cup {cur} /\ pc' = "opendir"
             /\ kind' = [kind EXCEPT ![cur] = IF @ = "none" THEN "dir" ELSE @]
    <3>1. lost' = lost /\ data' = data /\ cur \in Dirs
      BY <1>4 DEF Mkdir
    <3>2. kind'[cur] # "none" /\ \A n \in Nodes \ {cur} : kind'[n] = kind[n]
      BY <1>a, <2>1, <3>1
    <3>3. \A n \in Nodes : kind[n] = "dir" => kind'[n] = "dir"
      BY <1>a, <2>1, <3>1
    <3>4. \A n \in made' : kind'[n] # "none"
      BY <2>1, <3>2
    <3>5. \A n \in made' \cap Files : kind'[n] = "file" /\ data'[n] = Content[n]
      BY <1>a, <2>1, <3>1, <3>2
    <3>6. \A n \in (made' \cup lost') \ {Root} : kind'[Parent[n]] = "dir"
      <4> SUFFICES ASSUME NEW n \in (made' \cup lost') \ {Root}
                   PROVE  kind'[Parent[n]] = "dir"
        OBVIOUS
      <4>1. n \in Nodes \ {Root} /\ Parent[n] \in Nodes
        BY <1>a, <2>1, <3>1
      <4>2. kind[Parent[n]] = "dir"
        BY <2>1, <3>1 DEF CanMkdir
      <4> QED
        BY <3>3, <4>1, <4>2
    <3>7. \A n \in made' \cap Files : Copied(n)'
      BY <1>a, <3>5
    <3> QED
      BY <2>1, <3>4, <3>6, <3>7
  <2>2. CASE UNCHANGED <<kind, made>> /\ pc' = "return"
    BY <1>a, <1>4, <2>2 DEF Mkdir
  <2> QED
    BY <1>4, <2>1, <2>2 DEF Mkdir, Goto, Bail
<1>5. CASE Opendir
  BY <1>a, <1>5 DEF Opendir, Goto, Bail
<1>6. CASE ReadEntry
  BY <1>a, <1>6 DEF ReadEntry, Goto
<1>7. CASE ReadEnd
  BY <1>a, <1>7 DEF ReadEnd, Goto
<1>8. CASE ReadFails
  BY <1>a, <1>8 DEF ReadFails, Goto, Bail
<1>9. CASE Closedir
  BY <1>a, <1>9 DEF Closedir, Goto
<1>10. CASE Return
  BY <1>a, <1>10 DEF Return, Goto
<1>11. CASE OpenOut
  <2>1. CASE /\ CanCreate(file) /\ kind' = [kind EXCEPT ![file] = "file"]
             /\ data' = [data EXCEPT ![file] = <<>>]
             /\ pc' = "openin" /\ file' = file
    <3>1. /\ lost' = lost /\ made' = made /\ file \in Files
          /\ file \notin made \cup lost
      BY <1>11 DEF OpenOut
    <3>2. /\ kind'[file] = "file" /\ \A n \in Nodes \ {file} : kind'[n] = kind[n]
          /\ \A n \in Files \ {file} : data'[n] = data[n]
      BY <1>a, <2>1, <3>1
    <3>3. \A n \in Dirs : kind'[n] = kind[n]
      BY <1>a, <3>1, <3>2
    <3>4. kind'[Parent[file]] = "dir"
      BY <1>a, <2>1, <3>1, <3>3 DEF CanCreate
    <3>5. \A n \in made' : kind'[n] # "none"
      BY <3>1, <3>2
    <3>6. \A n \in made' \cap Files : Copied(n)'
      BY <1>a, <3>1, <3>2
    <3>7. \A n \in (made' \cup lost') \ {Root} : kind'[Parent[n]] = "dir"
      BY <1>a, <3>1, <3>3
    <3> QED
      BY <2>1, <3>2, <3>4, <3>5, <3>6, <3>7
  <2>2. CASE UNCHANGED target /\ pc' = "closedir"
    BY <1>a, <1>11, <2>2 DEF OpenOut
  <2> QED
    BY <1>11, <2>1, <2>2 DEF OpenOut, Goto, Bail
<1>12. CASE OpenIn
  BY <1>a, <1>12 DEF OpenIn, Goto, Bail
<1>13. CASE Read
  BY <1>a, <1>13 DEF Read, Goto, Bail
<1>14. CASE Write
  BY <1>a, <1>14 DEF Write, Goto, Written
<1>15. CASE WriteFails
  BY <1>a, <1>15 DEF WriteFails, Goto, Bail, Written
<1>16. CASE CloseIn
  BY <1>a, <1>16 DEF CloseIn, Goto
<1>17. CASE CloseOut
  <2>1. /\ pc = "closeout" /\ kind' = kind /\ file \in Files
        /\ file \notin made \cup lost /\ pc' \notin FilePcs
        /\ kind[file] = "file" /\ kind[Parent[file]] = "dir"
        /\ made' \cup lost' \subseteq made \cup lost \cup {file}
    BY <1>17 DEF CloseOut, Goto
  <2>2. \A n \in Files \ {file} : data'[n] = data[n]
    BY <1>17 DEF CloseOut
  <2>3. file \in made' => res = 0 /\ data' = [data EXCEPT ![file] = Committed]
    BY <1>17, <2>1 DEF CloseOut
  <2>4. res = 0 => Committed = Content[file]
    BY <2>1 DEF Committed, CopyLoop
  <2>5. file \in made' => data'[file] = Content[file]
    BY <2>1, <2>3, <2>4
  <2>6. made' \subseteq made \cup {file} /\ lost' \subseteq lost \cup {file}
    BY <1>17 DEF CloseOut
  <2>7. \A n \in made' : kind'[n] # "none"
    BY <2>1, <2>6
  <2>8. \A n \in made' \cap Files : Copied(n)'
    BY <1>a, <2>1, <2>2, <2>5, <2>6
  <2>9. \A n \in (made' \cup lost') \ {Root} : kind'[Parent[n]] = "dir"
    BY <2>1
  <2> QED
    BY <2>1, <2>7, <2>8, <2>9
<1>18. CASE Halted \/ UNCHANGED vars
  BY <1>a, <1>18 DEF Halted, vars, setup, fileVars, target, history
<1> QED
  BY <1>1, <1>2, <1>3, <1>4, <1>5, <1>6, <1>7, <1>8, <1>9, <1>10, <1>11,
     <1>12, <1>13, <1>14, <1>15, <1>16, <1>17, <1>18
     DEF Next, Step, Main, Traversal, ProcessFile

\* Nothing has been delivered before the first call.
LEMMA DeliveredInit == Init => Delivered
BY DEF Init, Delivered, FilePcs

\* All parts of the inductive invariant.
ToolInv ==
  /\ TypeOK /\ InHand /\ Chain /\ Status /\ Visits /\ Progress
  /\ CopyLoop /\ PrefixOfSource /\ Delivered

\* The inductive invariant holds at first.
LEMMA ToolInvInit == Init => ToolInv
BY TypeInit, ChainInit, StatusInit, VisitsInit, ProgressInit, CopyInit,
   DeliveredInit DEF ToolInv

\* Every step keeps the inductive invariant.
LEMMA ToolInvStep == ToolInv /\ [Next]_vars => ToolInv'
BY TypeStep, ChainStep, StatusStep, VisitsStep, ProgressStep, CopyStep,
   DeliveredStep DEF ToolInv

\* The inductive invariant holds in every state of a run.
LEMMA ToolInvCorrect == Spec => []ToolInv
BY ToolInvInit, ToolInvStep, PTL DEF Spec

\* At the end of a traversal without error every node is where it belongs.
LEMMA EndIsCopy ==
  ASSUME ToolInv, pc \in {"unmount", "exited"}, result = 0, res = 0,
         NEW n \in Nodes
  PROVE  Copied(n) \/ n \in lost \/ Hidden(n)
<1>1. made \cup lost = Nodes
  BY DEF ToolInv, Progress
<1>2. CASE n \in Files
  BY <1>1, <1>2 DEF ToolInv, Delivered
<1>3. CASE n \in Dirs
  <2>1. n \in made /\ kind[n] \in {"dir", "file"}
    BY <1>1, <1>3, TreeAssumption DEF ToolInv, TypeOK, Delivered, Kinds
  <2>2. CASE Children(n) = {}
    BY <1>3, <2>1, <2>2 DEF Copied, Hidden
  <2>3. CASE Children(n) # {}
    <3>1. PICK m \in Nodes \ {Root} : Parent[m] = n
      BY <2>3 DEF Children
    <3>2. kind[n] = "dir"
      BY <1>1, <3>1 DEF ToolInv, Delivered
    <3> QED
      BY <1>3, <3>2 DEF Copied
  <2> QED
    BY <2>2, <2>3
<1> QED
  BY <1>2, <1>3 DEF Nodes

\* When the traversal from the root returns 0, the target holds a copy of the
\* whole source tree, except for files whose close reported an error and empty
\* directories hidden by a leftover file.
THEOREM SuccessIsCopyCorrect == Spec => []SuccessIsCopy
<1>1. ToolInv => SuccessIsCopy
  BY EndIsCopy DEF SuccessIsCopy
<1> QED
  BY <1>1, ToolInvCorrect, PTL

-----------------------------------------------------------------------------
\* No step makes an unfit target fit.
LEMMA FitBefore ==
  ASSUME ToolInv, Clean, [Next]_vars, Compatible'
  PROVE  Compatible
<1> USE DEF ToolInv, TypeOK, InHand, FilePcs, Compatible, Kinds, setup, fileVars,
            target, history
<1>a. /\ Root \in Dirs /\ Dirs \subseteq Nodes /\ Files \subseteq Nodes
      /\ Dirs \cap Files = {}
  BY TreeAssumption DEF Nodes
<1>1. CASE Get
  BY <1>a, <1>1 DEF Get, Goto, Clean
<1>2. CASE Mount
  BY <1>a, <1>2 DEF Mount, Goto
<1>3. CASE Unmount
  BY <1>a, <1>3 DEF Unmount, Goto
<1>4. CASE Mkdir
  BY <1>a, <1>4 DEF Mkdir, Goto, Bail
<1>5. CASE Opendir
  BY <1>a, <1>5 DEF Opendir, Goto, Bail
<1>6. CASE ReadEntry
  BY <1>a, <1>6 DEF ReadEntry, Goto
<1>7. CASE ReadEnd
  BY <1>a, <1>7 DEF ReadEnd, Goto
<1>8. CASE ReadFails
  BY <1>a, <1>8 DEF ReadFails, Goto, Bail
<1>9. CASE Closedir
  BY <1>a, <1>9 DEF Closedir, Goto
<1>10. CASE Return
  BY <1>a, <1>10 DEF Return, Goto
<1>11. CASE OpenOut
  <2>1. CASE CanCreate(file) /\ kind' = [kind EXCEPT ![file] = "file"]
    <3>1. file \in Files /\ kind[file] \in {"none", "file"}
      BY <1>a, <1>11, <2>1 DEF OpenOut, CanCreate
    <3>2. \A n \in Nodes \ {file} : kind[n] = kind'[n]
      BY <1>a, <2>1, <3>1
    <3> QED
      BY <1>a, <3>1, <3>2
  <2> QED
    BY <1>11, <2>1 DEF OpenOut
<1>12. CASE OpenIn
  BY <1>a, <1>12 DEF OpenIn, Goto, Bail
<1>13. CASE Read
  BY <1>a, <1>13 DEF Read, Goto, Bail
<1>14. CASE Write
  BY <1>a, <1>14 DEF Write, Goto, Written
<1>15. CASE WriteFails
  BY <1>a, <1>15 DEF WriteFails, Goto, Bail, Written
<1>16. CASE CloseIn
  BY <1>a, <1>16 DEF CloseIn, Goto
<1>17. CASE CloseOut
  BY <1>a, <1>17 DEF CloseOut, Goto
<1>18. CASE Halted \/ UNCHANGED vars
  BY <1>a, <1>18 DEF Halted, vars, setup, fileVars, target, history
<1> QED
  BY <1>1, <1>2, <1>3, <1>4, <1>5, <1>6, <1>7, <1>8, <1>9, <1>10, <1>11,
     <1>12, <1>13, <1>14, <1>15, <1>16, <1>17, <1>18
     DEF Next, Step, Main, Traversal, ProcessFile

\* With a fit target and image, a call that no fault disturbs succeeds.
LEMMA CleanStep ==
  ASSUME ToolInv, Clean, [Next]_vars
  PROVE  Clean'
<1>1. (pc = "get" /\ mode = "create" => kind = [n \in Nodes |-> "none"])'
  <2> USE DEF setup, fileVars, target, history
  <2>1. pc' = "get" => pc' = pc /\ mode' = mode /\ kind' = kind
    BY DEF Next, Step, Main, Traversal, ProcessFile, Get, Mount, Unmount, Mkdir,
       Opendir, ReadEntry, ReadEnd, ReadFails, Closedir, Return, OpenOut,
       OpenIn, Read, Write, WriteFails, CloseIn, CloseOut, Halted, Goto, Bail,
       vars
  <2> QED
    BY <2>1 DEF Clean
<1>2. faults' = faults /\ pending' = pending
  BY DEF Next, Step, Main, Traversal, ProcessFile, Get, Mount, Unmount, Mkdir,
     Opendir, ReadEntry, ReadEnd, ReadFails, Closedir, Return, OpenOut,
     OpenIn, Read, Write, WriteFails, CloseIn, CloseOut, Halted, vars, setup
<1>3. ASSUME ~faults, ~pending, Compatible'
      PROVE  res' = 0 /\ result' = 0 /\ lost' = {} /\ pc' # "crashed"
  <2>1. Compatible /\ res = 0 /\ result = 0 /\ lost = {} /\ pc # "crashed"
    BY <1>3, FitBefore DEF Clean
  <2> DEFINE MadeIsDir(n) == n \in Dirs \cap made => kind[n] = "dir"
  <2>a. \A n \in Nodes : MadeIsDir(n)
    BY <2>1, TreeAssumption DEF ToolInv, Delivered, Compatible
  <2>b. /\ Parent \in [Nodes \ {Root} -> Dirs] /\ dirh \subseteq made
        /\ Dirs \cap Files = {} /\ Nodes = Dirs \cup Files /\ Root \in Dirs
    BY TreeAssumption DEF ToolInv, Visits, Nodes
  <2>2. pc = "mkdir" => CanMkdir(cur)
    <3> SUFFICES ASSUME cur # Root PROVE kind[Parent[cur]] = "dir"
      BY DEF CanMkdir
    <3>1. cur \in Nodes \ {Root} /\ Parent[cur] \in dirh
      BY <2>b DEF ToolInv, TypeOK, Chain, Active
    <3> QED
      BY <2>a, <2>b, <3>1
  <2>3. pc = "openout" => CanCreate(file)
    <3> SUFFICES ASSUME pc = "openout" PROVE CanCreate(file)
      OBVIOUS
    <3>1. file \in Files /\ Parent[file] = cur /\ cur \in dirh /\ cur \in Dirs
      BY DEF ToolInv, TypeOK, InHand, Visits, Chain, OpenPcs, FilePcs
    <3>2. kind[cur] = "dir"
      BY <2>a, <2>b, <3>1
    <3>3. kind[file] \in {"none", "file"}
      BY <2>1, <2>b, <3>1 DEF Compatible
    <3> QED
      BY <3>1, <3>2, <3>3 DEF CanCreate
  <2>4. pc = "unmount" => opaque = "live"
    BY <2>1 DEF ToolInv, Status
  <2> QED
    BY <1>3, <2>1, <2>2, <2>3, <2>4
       DEF Next, Step, Main, Traversal, ProcessFile, Get, Mount, Unmount, Mkdir,
       Opendir, ReadEntry, ReadEnd, ReadFails, Closedir, Return, OpenOut,
       OpenIn, Read, Write, WriteFails, CloseIn, CloseOut, Halted, Goto, Bail,
       vars, history, RepairFails
<1> QED
  BY <1>1, <1>2, <1>3 DEF Clean

\* A run without faults starts clean.
LEMMA CleanInit == Init => Clean
BY DEF Init, Clean

\* When no call fails, a run over a consistent image and a compatible target
\* ends with a complete copy: the recursion visits every node of the tree.
THEOREM CleanRunCopiesCorrect == Spec => []CleanRunCopies
<1>1. Spec => []Clean
  <2>1. Spec => [](ToolInv /\ Clean)
    BY ToolInvInit, ToolInvStep, CleanInit, CleanStep, PTL DEF Spec
  <2> QED
    BY <2>1, PTL
<1>2. ToolInv /\ Clean => CleanRunCopies
  <2> SUFFICES ASSUME ToolInv, Clean, pc = "exited", ~faults, ~pending, Compatible,
                      NEW n \in Nodes
               PROVE  Copied(n)
    BY DEF CleanRunCopies
  <2>1. res = 0 /\ result = 0 /\ lost = {}
    BY DEF Clean
  <2>2. Copied(n) \/ Hidden(n)
    BY <2>1, EndIsCopy
  <2>3. ~Hidden(n)
    BY TreeAssumption DEF Compatible, Hidden
  <2> QED
    BY <2>2, <2>3
<1> QED
  BY <1>1, <1>2, ToolInvCorrect, PTL

-----------------------------------------------------------------------------
\* Each step of the tool is a step of TreeCopy, or changes nothing there: mkdir
\* and close deliver a node whose directory has been delivered.
LEMMA Simulates ==
  ASSUME ToolInv, [Next]_vars
  PROVE  [Copy!Next]_(Copy!vars)
<1> DEFINE running == pc \notin {"unmount", "exited", "crashed"}
<1>1. /\ TypeOK /\ InHand /\ Chain /\ Status /\ Visits /\ Progress
      /\ TypeOK' /\ Status'
  BY ToolInvStep DEF ToolInv
<1>2. /\ running /\ res = 0 => Verdict = "run" /\ result = 0
      /\ res = -1 \/ result # 0 \/ pc = "crashed" <=> Verdict = "fail"
      /\ pc \in {"unmount", "exited"} /\ result = 0 /\ res = 0 => Verdict = "ok"
  BY <1>1 DEF Verdict, Status, TypeOK
<1>3. (/\ running /\ res = 0 => Verdict = "run" /\ result = 0
       /\ res = -1 \/ result # 0 \/ pc = "crashed" <=> Verdict = "fail"
       /\ pc \in {"unmount", "exited"} /\ result = 0 /\ res = 0
            => Verdict = "ok")'
  BY <1>1 DEF Verdict, Status, TypeOK
<1>4. ASSUME Verdict \in {"run", "fail"}, Verdict' = "fail",
             made' = made, lost' = lost
      PROVE  [Copy!Next]_(Copy!vars)
  BY <1>4 DEF Copy!Next, Copy!Fail, Copy!vars
<1>5. ASSUME Verdict' = Verdict, made' = made, lost' = lost
      PROVE  [Copy!Next]_(Copy!vars)
  BY <1>5 DEF Copy!vars
<1>6. Progress' /\ res \in {0, -1} /\ res' \in {0, -1}
  BY <1>1, ToolInvStep DEF TypeOK, ToolInv
<1>26. Status
  BY <1>1
<1>7. Copy!Nodes = Nodes
  BY DEF Copy!Nodes, Nodes
<1> USE DEF Status, FilePcs, OpenPcs, TreePcs, setup, fileVars, target, history
<1>8. CASE Get
  BY <1>26, <1>2, <1>3, <1>4, <1>5, <1>6, <1>8 DEF Get, Goto
<1>9. CASE Mount
  BY <1>26, <1>2, <1>3, <1>4, <1>5, <1>6, <1>9 DEF Mount, Goto
<1>10. CASE Unmount
  BY <1>26, <1>2, <1>3, <1>4, <1>5, <1>6, <1>10 DEF Unmount, Goto
<1>11. CASE Mkdir
  <2>1. CASE res' = -1 /\ UNCHANGED made
    BY <1>26, <1>2, <1>3, <1>4, <1>11, <2>1 DEF Mkdir, Goto, Bail
  <2>2. CASE made' = made \cup {cur} /\ pc' = "opendir" /\ UNCHANGED res
    <3>1. Verdict = "run" /\ Verdict' = "run" /\ lost' = lost
      BY <1>26, <1>2, <1>3, <1>11, <2>2 DEF Mkdir
    <3>2. cur \in Dirs /\ cur \in Nodes
      BY <1>1 DEF TypeOK, Nodes
    <3>3. cur \notin made \cup lost
      BY <1>1, <1>11, <3>2, TreeAssumption DEF Mkdir, Visits, TypeOK
    <3>4. cur = Root \/ Parent[cur] \in made
      BY <1>1 DEF Chain, Active, Visits
    <3>5. Copy!Deliver
      BY <1>7, <2>2, <3>1, <3>2, <3>3, <3>4 DEF Copy!Deliver, Copy!Reachable
    <3> QED
      BY <3>5 DEF Copy!Next
  <2> QED
    BY <1>11, <2>1, <2>2 DEF Mkdir, Goto, Bail
<1>12. CASE Opendir
  BY <1>26, <1>2, <1>3, <1>4, <1>5, <1>6, <1>12 DEF Opendir, Goto, Bail
<1>13. CASE ReadEntry
  BY <1>26, <1>2, <1>3, <1>4, <1>5, <1>6, <1>13 DEF ReadEntry, Goto
<1>14. CASE ReadEnd
  BY <1>26, <1>2, <1>3, <1>4, <1>5, <1>6, <1>14 DEF ReadEnd, Goto
<1>15. CASE ReadFails
  BY <1>26, <1>2, <1>3, <1>4, <1>5, <1>6, <1>15 DEF ReadFails, Goto, Bail
<1>16. CASE Closedir
  BY <1>26, <1>2, <1>3, <1>4, <1>5, <1>6, <1>16 DEF Closedir, Goto
<1>17. CASE Return
  <2>1. made' = made /\ lost' = lost /\ result' = result /\ res' = res
    BY <1>17 DEF Return
  <2>2. CASE res = -1 \/ cur # Root
    BY <1>26, <1>2, <1>3, <1>5, <1>6, <1>17, <2>1, <2>2 DEF Return, Goto
  <2>3. CASE res = 0 /\ cur = Root
    <3>1. pc' = "unmount" /\ Verdict = "run" /\ Verdict' = "ok"
      BY <1>26, <1>2, <1>3, <1>17, <2>1, <2>3 DEF Return, Goto
    <3>2. result' = 0
      BY <1>2, <1>17, <2>1, <2>3 DEF Return
    <3>3. made' \cup lost' = Nodes
      BY <1>6, <2>1, <2>3, <3>1, <3>2 DEF Progress
    <3>4. Copy!Succeed
      BY <1>7, <2>1, <3>1, <3>3 DEF Copy!Succeed
    <3> QED
      BY <3>4 DEF Copy!Next
  <2> QED
    BY <1>6, <2>2, <2>3
<1>18. CASE OpenOut
  BY <1>26, <1>2, <1>3, <1>4, <1>5, <1>6, <1>18 DEF OpenOut, Goto, Bail
<1>19. CASE OpenIn
  BY <1>26, <1>2, <1>3, <1>4, <1>5, <1>6, <1>19 DEF OpenIn, Goto, Bail
<1>20. CASE Read
  BY <1>26, <1>2, <1>3, <1>4, <1>5, <1>6, <1>20 DEF Read, Goto, Bail
<1>21. CASE Write
  BY <1>26, <1>2, <1>3, <1>4, <1>5, <1>6, <1>21 DEF Write, Goto, Written
<1>22. CASE WriteFails
  BY <1>26, <1>2, <1>3, <1>4, <1>5, <1>6, <1>22
     DEF WriteFails, Goto, Bail, Written
<1>23. CASE CloseIn
  BY <1>26, <1>2, <1>3, <1>4, <1>5, <1>6, <1>23 DEF CloseIn, Goto
<1>24. CASE CloseOut
  <2>1. /\ pc = "closeout" /\ res' = res /\ result' = result /\ file \in Files
        /\ pc' \in {"readdir", "closedir"}
    BY <1>1, <1>24 DEF CloseOut, Goto, InHand
  <2>2. CASE res = -1
    <3>1. made' = made /\ lost' = lost
      BY <1>24, <2>2 DEF CloseOut
    <3> QED
      BY <1>2, <1>3, <1>5, <2>1, <2>2, <3>1
  <2>3. CASE res = 0
    <3>1. Verdict = "run" /\ Verdict' = "run"
      BY <1>2, <1>3, <2>1, <2>3
    <3>2. /\ file \in Nodes /\ file \notin made \cup lost
          /\ Parent[file] \in made
      BY <1>1, <2>1, TreeAssumption DEF Visits, Chain, Nodes
    <3>3. Copy!Reachable(file)
      BY <3>2 DEF Copy!Reachable
    <3>4. CASE made' = made \cup {file} /\ lost' = lost
      BY <1>7, <3>1, <3>2, <3>3, <3>4 DEF Copy!Next, Copy!Deliver
    <3>5. CASE lost' = lost \cup {file} /\ made' = made
      BY <2>1, <3>1, <3>3, <3>5 DEF Copy!Next, Copy!Lose
    <3> QED
      BY <1>24, <2>3, <3>4, <3>5 DEF CloseOut
  <2> QED
    BY <1>6, <2>2, <2>3
<1>25. CASE Halted \/ UNCHANGED vars
  BY <1>26, <1>2, <1>3, <1>4, <1>5, <1>6, <1>25
     DEF Halted, vars, setup, fileVars, target, history
<1> QED
  BY <1>8, <1>9, <1>10, <1>11, <1>12, <1>13, <1>14, <1>15, <1>16, <1>17,
     <1>18, <1>19, <1>20, <1>21, <1>22, <1>23, <1>24, <1>25
     DEF Next, Step, Main, Traversal, ProcessFile

\* The first state is one of TreeCopy's.
LEMMA StartsAsCopy == Init => Copy!Init
BY DEF Init, Copy!Init, Verdict

\* The tool's runs are runs of TreeCopy: nodes are delivered one at a time, a
\* node only after its directory, and success is reported only when none is
\* missing.
THEOREM CopiesTheTreeSafely == Spec => Copy!Safety
<1>1. Spec => Copy!Init /\ [][Copy!Next]_(Copy!vars)
  BY StartsAsCopy, Simulates, ToolInvCorrect, PTL DEF Spec
<1> QED
  BY <1>1 DEF Copy!Safety

=============================================================================
