----------------------------- MODULE MCLfsTool ------------------------------
(* A small source tree for LfsTool: a root with a file that fills m_buffer  *)
(* exactly and two directories, one empty, one holding a longer file.       *)
EXTENDS LfsTool

CONSTANTS root, sub, empty, f1, f2, dot, dotdot

MCDirs == {root, sub, empty}
MCFiles == {f1, f2}
MCDots == {dot, dotdot}
MCParent == [n \in {sub, empty, f1, f2} |-> IF n = f2 THEN sub ELSE root]
MCContent == [f \in MCFiles |-> IF f = f1 THEN <<1, 2>> ELSE <<3, 4, 5>>]
MCStale == <<9>>
=============================================================================
