------------------------------ MODULE AtomicFile -----------------------------
(***************************************************************************)
(* What an open file promises: the handle works on contents of its own,    *)
(* which start as those stored and reach the storage only as a whole, at a *)
(* sync ("The file will not actually be updated on the storage until       *)
(* either sync or close is called").  A write may arrive in parts, and a   *)
(* hole is filled with zeros on the way.  After a failed call nothing more *)
(* is stored until a write has gone through.                               *)
(***************************************************************************)
EXTENDS Integers, Sequences

VARIABLES
  stored,   \* the contents a mount finds
  content,  \* the contents as the handle sees them
  pos,      \* the handle's position
  task,     \* [op, n]: the running call; n is what a write has yet to write,
            \* or the size a truncate asks for
  broken,   \* a call has failed
  ret       \* what the last call returned: the cell read, Nothing, or Error

vars == <<stored, content, pos, task, broken, ret>>

NoTask == [op |-> "none", n |-> 0]
Nothing == <<>>
Error == <<-1>>

\* d written over s from position p on.
Spliced(s, p, d) ==
  SubSeq(s, 1, p) \o d \o SubSeq(s, p + Len(d) + 1, Len(s))

Init ==
  /\ content = stored /\ pos = 0 /\ task = NoTask /\ broken = FALSE
  /\ ret = Nothing

Call ==
  /\ task = NoTask /\ task' # NoTask
  /\ UNCHANGED <<stored, content, pos, broken, ret>>

\* A write in append mode starts at the end.
ToEnd ==
  /\ task.op = "write" /\ pos < Len(content) /\ pos' = Len(content)
  /\ UNCHANGED <<stored, content, task, broken, ret>>

\* Data arrives at the position, which is not behind the end.
Put ==
  /\ task.op = "write"
  /\ pos <= Len(content) /\ pos' \in pos + 1 .. pos + task.n
  /\ task' = [task EXCEPT !.n = @ - (pos' - pos)]
  /\ Len(content') >= pos'
  /\ content' = Spliced(content, pos, SubSeq(content', pos + 1, pos'))
  /\ UNCHANGED <<stored, broken, ret>>

\* What a write is going to write over may go first.
Drop ==
  /\ task.op = "write"
  /\ pos <= Len(content) /\ Len(content) <= pos + task.n
  /\ content' = SubSeq(content, 1, pos)
  /\ UNCHANGED <<stored, pos, task, broken, ret>>

\* A hole is filled.
Pad ==
  /\ \/ task.op = "write" /\ Len(content) < pos
     \/ task.op = "truncate" /\ Len(content) < task.n
  /\ content' = Append(content, 0)
  /\ UNCHANGED <<stored, pos, task, broken, ret>>

Cut ==
  /\ task.op = "truncate" /\ task.n < Len(content)
  /\ content' = SubSeq(content, 1, task.n)
  /\ UNCHANGED <<stored, pos, task, broken, ret>>

Store ==
  /\ ~broken /\ task.op \in {"sync", "close"}
  /\ stored' = content
  /\ UNCHANGED <<content, pos, task, broken, ret>>

\* The device takes writes again.
Mend == broken' = FALSE /\ UNCHANGED <<stored, content, pos, task, ret>>

\* A call succeeds: it has done all of what it is for.
Return ==
  /\ task # NoTask /\ task' = NoTask
  /\ CASE task.op = "write" -> task.n = 0 /\ pos' = pos /\ ret' = Nothing
       [] task.op = "truncate" ->
            Len(content) = task.n /\ pos' = pos /\ ret' = Nothing
       [] task.op = "seek" -> pos' = task.n /\ ret' = Nothing
       [] task.op = "read" ->
            /\ ret' = IF pos < Len(content) THEN <<content[pos + 1]>>
                      ELSE Nothing
            /\ pos' = pos + Len(ret')
       [] task.op = "sync" ->
            (broken \/ stored = content) /\ pos' = pos /\ ret' = Nothing
       [] OTHER -> FALSE
  /\ broken' = (broken /\ task.op # "write")
  /\ UNCHANGED <<stored, content>>

\* A call fails: what it has done stays, the position may be anywhere.  A sync
\* may have stored the contents all the same.
Fail ==
  /\ task # NoTask /\ ret' = Error /\ task' = NoTask
  /\ \/ stored' = stored
     \/ ~broken /\ task.op \in {"sync", "close"} /\ stored' = content
  /\ content' = IF task.op = "close" THEN stored' ELSE content
  /\ pos' \in Nat /\ broken' \in BOOLEAN

Fresh == pos' = 0 /\ task' = NoTask /\ broken' = FALSE /\ UNCHANGED stored

Open ==
  /\ task = NoTask /\ content' \in {stored, <<>>} /\ Fresh /\ ret' = Nothing

Close ==
  /\ task.op = "close" /\ (broken \/ stored = content)
  /\ content' = stored /\ Fresh /\ ret' = Nothing

Crash == content' = stored /\ Fresh /\ ret' = Error

Next == Call \/ ToEnd \/ Put \/ Drop \/ Pad \/ Cut \/ Store \/ Mend \/ Return
          \/ Fail \/ Open \/ Close \/ Crash

Spec == Init /\ [][Next]_vars
=============================================================================
