----------------------------- MODULE AtomicTree -----------------------------
(***************************************************************************)
(* What the directories of a file system promise: a set of names, which    *)
(* each call changes in one step, or not at all.  A call that returns      *)
(* success has changed it; a crash changes nothing.                        *)
(***************************************************************************)
EXTENDS Integers, FiniteSets

CONSTANTS Names, Objects   \* files and directories; 0 is the root

VARIABLES
  ns,    \* the names: <<directory, name, kind, object>>
  goal,  \* <<what the running call is to make of ns>>, or <<>>
  ret    \* what the last call returned

vars == <<ns, goal, ret>>

IsDir(s, d) == d = 0 \/ \E e \in s : e[3] = "dir" /\ e[4] = d
Named(s, d, n) == {e \in s : e[1] = d /\ e[2] = n}
IsEmpty(s, d) == \A e \in s : e[1] # d

\* The objects below o, o among them.
Below(s, o) ==
  LET f[i \in 0 .. Cardinality(s)] ==
        IF i = 0 THEN {o}
        ELSE LET b == f[i - 1] IN b \cup {e[4] : e \in {x \in s : x[1] \in b}}
  IN f[Cardinality(s)]

Made(s, d, n, kind, o) == s \cup {<<d, n, kind, o>>}
Removed(s, e) == s \ {e}

\* A node takes another name, of which it may replace the owner.
Renamed(s, e, d, n) == (s \ ({e} \cup Named(s, d, n))) \cup {<<d, n, e[3], e[4]>>}

MayMake(s, d, n, o) ==
  IsDir(s, d) /\ Named(s, d, n) = {} /\ o # 0 /\ \A e \in s : e[4] # o

MayRemove(s, e) == e[3] = "file" \/ IsEmpty(s, e[4])

MayRename(s, e, d, n) ==
  /\ IsDir(s, d) /\ d \notin Below(s, e[4])
  /\ \A x \in Named(s, d, n) :
       x[3] = e[3] /\ (x # e /\ x[3] = "dir" => IsEmpty(s, x[4]))

Init == ns = {} /\ goal = <<>> /\ ret = "ok"

\* A call begins; opening a file changes no name.
Aims(s) == goal' = <<s>> /\ ret' = "none" /\ UNCHANGED ns

Call ==
  /\ goal = <<>>
  /\ \/ Aims(ns)
     \/ \E d \in Objects, n \in Names, kind \in {"file", "dir"}, o \in Objects :
          MayMake(ns, d, n, o) /\ Aims(Made(ns, d, n, kind, o))
     \/ \E e \in ns : MayRemove(ns, e) /\ Aims(Removed(ns, e))
     \/ \E e \in ns, d \in Objects, n \in Names :
          MayRename(ns, e, d, n) /\ Aims(Renamed(ns, e, d, n))

Change == goal # <<>> /\ ns' = goal[1] /\ UNCHANGED <<goal, ret>>

\* A call that returns success has made its change, at the latest now.
Return ==
  /\ goal # <<>> /\ goal' = <<>>
  /\ ns' = goal[1] /\ ret' = "ok"

Fail == goal # <<>> /\ goal' = <<>> /\ ret' = "error" /\ UNCHANGED ns

Crash == goal' = <<>> /\ ret' = "crash" /\ UNCHANGED ns

Next == Call \/ Change \/ Return \/ Fail \/ Crash

Spec == Init /\ [][Next]_vars
=============================================================================
