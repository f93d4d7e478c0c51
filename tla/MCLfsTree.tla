----------------------------- MODULE MCLfsTree -----------------------------
(* LfsTree with what its run allows: each mode bounds what is costly        *)
(* together and cheap apart.                                                *)
EXTENDS LfsTree

Mode(splits, bad, tight, crashes, n, names, calls) ==
  [splits |-> splits, bad |-> bad, tight |-> tight, crashes |-> crashes,
   ops |-> n, names |-> names, calls |-> calls]

\* A crash in the middle of any call.
Plain == Mode(0, 0, 0, 1, 4, {1, 2}, {"mkdir", "create", "remove", "rename"})

\* The same with directories that replace each other.
Replacing == Mode(0, 0, 0, 1, 5, {1, 2}, {"mkdir", "rename"})

\* A directory of two pairs, and directories below its first one.
Splitting == Mode(1, 0, 0, 1, 4, {1, 2, 3}, {"mkdir", "remove"})

\* Without crashes, entries that move between the pairs.
Moving == Mode(1, 0, 0, 0, 4, {1, 2}, {"mkdir", "create", "rename"})

\* A block that goes bad, so that its pair moves.
Worn == Mode(0, 1, 0, 1, 4, {1, 2}, {"mkdir"})

\* A file that stays open while its directory changes.
Watched == Mode(1, 1, 0, 0, 4, {1, 2}, {"mkdir", "create", "open"})
Shared == Mode(0, 0, 0, 0, 4, {1, 2}, {"mkdir", "create", "remove", "open"})

\* A pair that is full when its first delta is written ...
Tight == Mode(1, 0, 1, 0, 3, {1, 2, 3}, {"mkdir", "create"})

\* ... and when a later one is.
Tighter == Mode(0, 0, 1, 1, 5, {1, 2}, {"mkdir", "create", "rename"})

MCTighter == {Tighter}
MCModes == {Plain, Replacing, Splitting, Moving, Worn, Watched, Shared, Tight}
=============================================================================
