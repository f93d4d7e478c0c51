------------------------------ MODULE TreeCopy ------------------------------
(***************************************************************************)
(* What lfs-tool promises about one run of its traversal: the nodes of the *)
(* source tree are delivered to the target one at a time, a node only      *)
(* after the directory that holds it, each at most once; the traversal     *)
(* succeeds only when every node has been delivered (or, for a file, was   *)
(* given up because closing its copy failed), and it always comes to an    *)
(* end.  LfsTool is shown to implement this specification.                 *)
(***************************************************************************)
CONSTANTS
  Dirs,      \* the directories of the source tree
  Files,     \* its regular files
  Root,      \* the directory the traversal starts from
  Parent     \* the directory that holds a node

VARIABLES
  made,      \* the nodes that have been delivered
  lost,      \* the files whose copy could not be closed
  state      \* how the traversal stands: "run", "ok" or "fail"

vars == <<made, lost, state>>

Nodes == Dirs \cup Files

\* A node's turn can come only when its directory is in the target.
Reachable(n) == n \notin made \cup lost /\ (n = Root \/ Parent[n] \in made)

Init == made = {} /\ lost = {} /\ state = "run"

Deliver ==
  /\ state = "run"
  /\ \E n \in Nodes : Reachable(n) /\ made' = made \cup {n}
  /\ UNCHANGED <<lost, state>>

Lose ==
  /\ state = "run"
  /\ \E f \in Files : Reachable(f) /\ lost' = lost \cup {f}
  /\ UNCHANGED <<made, state>>

Succeed ==
  /\ state = "run"
  /\ made \cup lost = Nodes
  /\ state' = "ok"
  /\ UNCHANGED <<made, lost>>

Fail ==
  /\ state = "run"
  /\ state' = "fail"
  /\ UNCHANGED <<made, lost>>

Next == Deliver \/ Lose \/ Succeed \/ Fail

Safety == Init /\ [][Next]_vars

Spec == Safety /\ WF_vars(Next)
=============================================================================
